--------------------------- MODULE ZkWatches_proof ---------------------------
(***************************************************************************)
(* Proofs about the watches.  A registration is either in a table or, for  *)
(* the client still to come, in a reply that is on its way.  Safe says of  *)
(* both what the server and the packets behind it owe to it: a watch or an *)
(* event, an event if the znode has changed already, and that event before *)
(* any packet that shows the change.  While the request to set the watches *)
(* again is under way (Reset) the server owes nothing, and the zxid in the *)
(* request tells it what to make up for (Fresh).                           *)
(***************************************************************************)
EXTENDS ZkWatches, ZkSequences

IsHeader(m) == Has(m, "zxid")
IsReply(m) == Has(m, "reply")
IsEvent(m) == Has(m, "event")
IsSet(m) == Has(m, "setWatches")

-----------------------------------------------------------------------------
(* Registrations                                                           *)

\* Event m takes the watchers of path p out of table k.
Collecting(m, k, p) == IsEvent(m) /\ m.event.path = p /\ k \in Collects(m.event.type)

\* The last change of p that matters to table k, whether it came after zxid z, and
\* that z is older than what made the znode appear or go.
Change(nd, k, p) == CASE k = "exist" -> nd[p].created
                      [] k = "node"  -> nd[p].data
                      [] k = "child" -> nd[p].children
Passed(nd, k, p, z) == Change(nd, k, p) > z /\ (k = "exist" => nd[p].exists)
Kept(nd, k, p, z) == (k = "exist") = nd[p].exists => Change(nd, k, p) > z

\* The server's data watches sd and child watches sc have one for table k.
Held(sd, sc, k, p) == p \in IF k = "child" THEN sc ELSE sd

\* Between the packets i and h of q, an event for the watchers of p in table k.
Told(q, k, p, i, h) == \E j \in i + 1 .. h - 1 : Collecting(q[j], k, p)

\* What is owed to watchers for p in table k that were set with zxid z by the reply
\* q[i], or earlier if i is 0.
Safe(q, nd, sd, sc, k, p, z, i) ==
    /\ Held(sd, sc, k, p) \/ Told(q, k, p, i, Len(q) + 1)
    /\ Passed(nd, k, p, z) => Told(q, k, p, i, Len(q) + 1)
    /\ \A h \in i + 1 .. Len(q) :
          IsHeader(q[h]) /\ Passed(nd, k, p, z) /\ q[h].zxid >= Change(nd, k, p)
              => Told(q, k, p, i, h)

\* The same for the watcher that request r registers with its reply q[i].
Vouched(q, nd, sd, sc, r, i) ==
    r.watcher # {} =>
        \A k \in ResultChecker(r.op, q[i].reply) :
            /\ Safe(q, nd, sd, sc, k, r.path, q[i].zxid, i)
            /\ Kept(nd, k, r.path, q[i].zxid)

-----------------------------------------------------------------------------
(* The invariant                                                           *)

Node == [exists : BOOLEAN, created : Nat, data : Nat, children : Nat]
Waits(k, p) == tables[k][p] # {}

Typed == TypeOK /\ node \in [Paths -> Node] /\ owed \in [Watchers -> Int]

\* The server: no znode is ahead of it, a child watch is on a znode that exists, and
\* without a connection there is neither watch nor packet.
Nodes ==
    /\ \A k \in Kinds, p \in Paths : Change(node, k, p) \in 1 .. zxid
    /\ \A p \in serverChild : node[p].exists
    /\ conn # "up" => inbox = <<>> /\ serverData = {} /\ serverChild = {}

\* Packets come in the order of the changes they show, and last_zxid follows.
Ordered(q, last, now) ==
    \A i \in 1 .. Len(q) :
        /\ IsHeader(q[i]) => q[i].zxid \in 1 .. now /\ last <= q[i].zxid
        /\ IsEvent(q[i]) => last < q[i].event.zxid
        /\ \A j \in i + 1 .. Len(q) : IsHeader(q[i]) =>
              /\ IsHeader(q[j]) => q[i].zxid <= q[j].zxid
              /\ IsEvent(q[j]) => q[i].zxid < q[j].event.zxid

Zxids ==
    /\ lastZxid <= zxid
    /\ \A k \in Kinds, p \in Paths : Waits(k, p) => since[k][p] <= lastZxid
    /\ Ordered(inbox, lastZxid, zxid)

\* The client has not heard of what its watchers wait for.
Fresh ==
    \A k \in Kinds, p \in Paths : Waits(k, p) =>
        /\ Passed(node, k, p, since[k][p]) => lastZxid < Change(node, k, p)
        /\ Kept(node, k, p, since[k][p])

\* Neither has the application, nor will it before the event that is to be delivered.
Shows(rd, now, last) ==
    /\ now <= last
    /\ \A i \in 1 .. Len(rd) :
          /\ Has(rd[i], "seen") => rd[i].seen <= last
          /\ Has(rd[i], "event") =>
                /\ rd[i].watchers # {} => now < rd[i].event.zxid
                /\ \A j \in 1 .. i - 1 :
                      rd[i].watchers # {} /\ Has(rd[j], "seen") => rd[j].seen < rd[i].event.zxid

Shown == Shows(ready, seen, lastZxid)

\* A request to set the watches again is the first of its connection.
Asking(out) == out # <<>> /\ IsSet(out[1])
Reset ==
    /\ Asking(outbox) => conn # "down"
    /\ conn = "up" /\ Asking(outbox) =>
           /\ inbox = <<>> /\ serverData = {} /\ serverChild = {}
           /\ outbox[1].setWatches = [zxid |-> lastZxid, paths |-> WatchedPaths]
    /\ conn = "up" /\ ~Asking(outbox) =>
           \A k \in Kinds, p \in Paths : Waits(k, p) =>
               Safe(inbox, node, serverData, serverChild, k, p, since[k][p], 0)

\* The first n of the requests are answered in inbox, at the positions at; the others
\* are in outbox.
Positions(at, n, q) ==
    /\ at \in [1 .. n -> 1 .. Len(q)]
    /\ \A i, j \in 1 .. n : i < j => at[i] < at[j]
    /\ \A h \in 1 .. Len(q) : IsReply(q[h]) <=> \E j \in 1 .. n : at[j] = h
Skipped(out) == IF Asking(out) THEN 1 ELSE 0
Queued(out, sent, n) ==
    /\ Len(out) + n = Skipped(out) + Len(sent)
    /\ \A m \in 1 .. Len(sent) - n : out[Skipped(out) + m] = [request |-> sent[n + m]]
Answers(at, n, sent, q, nd, sd, sc) ==
    /\ Positions(at, n, q)
    /\ \A j \in 1 .. n : Vouched(q, nd, sd, sc, sent[j], at[j])

Lined ==
    conn # "failed" =>
        \E n \in 0 .. Len(sentRequests) :
            /\ Queued(outbox, sentRequests, n)
            /\ \E at : Answers(at, n, sentRequests, inbox, node, serverData, serverChild)

\* Every table entry, delivery list and suspended delivery of a watcher has its
\* registration.
Entries(tb, w) == {x \in Kinds \X Paths : w \in tb[x[1]][x[2]]}
Lists(w) == {c \in Ready : Has(c, "event") /\ w \in c.watchers}
Deliveries(w) == {f \in Frames : f.fn = "watcher" /\ ~f.session /\ w \in f.todo}
Covers(tb, rd, st, ow) ==
    \A w \in Watchers :
        Cardinality(Entries(tb, w)) + Count(rd, Lists(w)) + Count(st, Deliveries(w)) <= ow[w]

Paid == Covers(tables, ready, stack, owed)

WatchesInv == Typed /\ Nodes /\ Zxids /\ Fresh /\ Shown /\ Reset /\ Lined /\ Paid

-----------------------------------------------------------------------------
(* Packets and frames                                                      *)

\* A packet from the server is a reply, an event or the answer to SetWatches.
LEMMA IncomingKinds ==
    ASSUME NEW m \in Incoming
    PROVE  \/ /\ IsReply(m) /\ IsHeader(m) /\ ~IsEvent(m) /\ ~IsSet(m)
              /\ m.reply \in {"ZOK", "ZNONODE"} /\ m.zxid \in Nat
           \/ IsEvent(m) /\ ~IsReply(m) /\ ~IsHeader(m) /\ ~IsSet(m) /\ m.event \in Events
           \/ IsSet(m) /\ IsHeader(m) /\ ~IsReply(m) /\ ~IsEvent(m) /\ m.zxid \in Nat
<1>1. CASE m \in [reply : {"ZOK", "ZNONODE"}, zxid : Nat]
  BY <1>1 DEF IsReply, IsHeader, IsEvent, IsSet, Has
<1>2. CASE m \in [event : Events]
  BY <1>2 DEF IsReply, IsHeader, IsEvent, IsSet, Has
<1>3. CASE m \in [setWatches : {"ZOK"}, zxid : Nat]
  BY <1>3 DEF IsReply, IsHeader, IsEvent, IsSet, Has
<1> QED
  BY <1>1, <1>2, <1>3 DEF Incoming

\* One to the server is a request or asks for the watches.
LEMMA OutgoingKinds ==
    ASSUME NEW m \in Outgoing
    PROVE  \/ Has(m, "request") /\ ~IsSet(m) /\ m.request \in Requests /\ m = [request |-> m.request]
           \/ IsSet(m) /\ ~Has(m, "request") /\ m.setWatches \in SetWatches
<1>1. CASE m \in [request : Requests]
  BY <1>1 DEF IsSet, Has
<1>2. CASE m \in [setWatches : SetWatches]
  BY <1>2 DEF IsSet, Has
<1> QED
  BY <1>1, <1>2 DEF Outgoing

\* A completion belongs to a request, an event or a session.
LEMMA ReadyKinds ==
    ASSUME NEW c \in Ready
    PROVE  \/ Has(c, "seen") /\ ~Has(c, "event") /\ ~Has(c, "session") /\ c.seen \in Nat
           \/ /\ Has(c, "event") /\ ~Has(c, "seen") /\ ~Has(c, "session")
              /\ c.event \in Events /\ c.watchers \in SUBSET Watchers
           \/ /\ Has(c, "session") /\ ~Has(c, "seen") /\ ~Has(c, "event")
              /\ c.session \in SUBSET Watchers
<1>1. CASE c \in [seen : Nat]
  BY <1>1 DEF Has
<1>2. CASE c \in [event : Events, watchers : SUBSET Watchers]
  BY <1>2 DEF Has
<1>3. CASE c \in [session : SUBSET Watchers]
  BY <1>3 DEF Has
<1> QED
  BY <1>1, <1>2, <1>3 DEF Ready

\* Records of each kind.
LEMMA Made ==
    /\ \A a, b : LET m == [reply |-> a, zxid |-> b]
                 IN  /\ IsReply(m) /\ IsHeader(m) /\ ~IsEvent(m) /\ m.reply = a /\ m.zxid = b
                     /\ a \in {"ZOK", "ZNONODE"} /\ b \in Nat => m \in Incoming
    /\ \A a, b : LET m == [setWatches |-> a, zxid |-> b]
                 IN  /\ ~IsReply(m) /\ IsHeader(m) /\ ~IsEvent(m) /\ m.zxid = b
                     /\ a = "ZOK" /\ b \in Nat => m \in Incoming
    /\ \A a : LET m == [event |-> a]
              IN  /\ ~IsReply(m) /\ ~IsHeader(m) /\ IsEvent(m) /\ m.event = a
                  /\ a \in Events => m \in Incoming
    /\ \A r : LET m == [request |-> r]
              IN  Has(m, "request") /\ ~IsSet(m) /\ m.request = r /\ (r \in Requests => m \in Outgoing)
    /\ \A s : LET m == [setWatches |-> s]
              IN  IsSet(m) /\ m.setWatches = s /\ (s \in SetWatches => m \in Outgoing)
    /\ \A z : LET c == [seen |-> z]
              IN  /\ Has(c, "seen") /\ ~Has(c, "event") /\ c.seen = z
                  /\ z \in Nat => c \in Ready
    /\ \A s : LET c == [session |-> s]
              IN  /\ Has(c, "session") /\ ~Has(c, "event") /\ ~Has(c, "seen") /\ c.session = s
                  /\ s \in SUBSET Watchers => c \in Ready
    /\ \A e, s : LET c == [event |-> e, watchers |-> s]
                 IN  /\ Has(c, "event") /\ ~Has(c, "seen") /\ c.event = e /\ c.watchers = s
                     /\ e \in Events /\ s \in SUBSET Watchers => c \in Ready
BY DEF IsReply, IsHeader, IsEvent, IsSet, Has, Incoming, Outgoing, Ready

-----------------------------------------------------------------------------
(* What is owed while packets come and go                                  *)

\* A packet put behind the others.
LEMMA Longer ==
    ASSUME NEW S, NEW s \in Seq(S), NEW x \in S
    PROVE  /\ Append(s, x) \in Seq(S) /\ Len(Append(s, x)) = Len(s) + 1 /\ Len(s) \in Nat
           /\ Append(s, x)[Len(s) + 1] = x
           /\ \A i \in 1 .. Len(s) : Append(s, x)[i] = s[i] /\ s[i] \in S
           /\ \A i \in 1 .. Len(s) + 1 : i \in 1 .. Len(s) \/ i = Len(s) + 1
<1>1. /\ Append(s, x) \in Seq(S) /\ Len(Append(s, x)) = Len(s) + 1 /\ Len(s) \in Nat
      /\ \A i \in 1 .. Len(s) : Append(s, x)[i] = s[i]
      /\ Append(s, x)[Len(s) + 1] = x
  BY AppendProperties, LenProperties
<1>2. \A i \in 1 .. Len(s) : s[i] \in S
  BY ElementOfSeq
<1> QED
  BY <1>1, <1>2

\* A queue whose first element is taken off.
LEMMA Shorter ==
    ASSUME NEW S, NEW s \in Seq(S), s # <<>>
    PROVE  /\ Tail(s) \in Seq(S) /\ Head(s) = s[1] /\ s[1] \in S
           /\ \E n \in Nat : /\ n = Len(s) - 1 /\ Len(s) = n + 1 /\ Len(Tail(s)) = n
                            /\ \A i \in 1 .. n : Tail(s)[i] = s[i + 1]
<1>1. /\ Tail(s) \in Seq(S) /\ Head(s) = s[1] /\ Len(s) \in Nat \ {0}
      /\ Len(Tail(s)) = Len(s) - 1 /\ \A i \in 1 .. Len(s) - 1 : Tail(s)[i] = s[i + 1]
  BY TailFacts
<1>2. Len(s) - 1 \in Nat
  BY <1>1
<1>3. PICK n \in Nat : n = Len(s) - 1
  BY <1>2
<1>4. Len(s) = n + 1 /\ Len(Tail(s)) = n /\ \A i \in 1 .. n : Tail(s)[i] = s[i + 1]
  BY <1>1, <1>3
<1>5. s[1] \in S
  <2>1. 1 \in 1 .. Len(s)
    BY <1>1
  <2> QED
    BY <2>1, ElementOfSeq
<1> QED
  BY <1>1, <1>3, <1>4, <1>5

\* A packet behind the others hides no event, and may be one.
LEMMA ToldGrows ==
    ASSUME NEW q \in Seq(Incoming), NEW m \in Incoming, NEW k, NEW p, NEW i \in 0 .. Len(q)
    PROVE  /\ \A h \in 1 .. Len(q) + 1 : Told(q, k, p, i, h) => Told(Append(q, m), k, p, i, h)
           /\ Told(q, k, p, i, Len(q) + 1) => Told(Append(q, m), k, p, i, Len(q) + 2)
           /\ Collecting(m, k, p) => Told(Append(q, m), k, p, i, Len(q) + 2)
<1> DEFINE t == Append(q, m)
<1>1. PICK n \in Nat : n = Len(q)
  BY LenProperties
<1>2. t[n + 1] = m /\ \A j \in 1 .. n : t[j] = q[j]
  BY <1>1, Longer
<1> HIDE DEF t
<1>3. i \in Nat /\ i <= n
  BY <1>1
<1>4. \A h \in 1 .. n + 1 : Told(q, k, p, i, h) => Told(t, k, p, i, h)
  <2> SUFFICES ASSUME NEW h \in 1 .. n + 1, Told(q, k, p, i, h) PROVE Told(t, k, p, i, h)
    OBVIOUS
  <2>1. PICK j \in i + 1 .. h - 1 : Collecting(q[j], k, p)
    BY DEF Told
  <2>2. t[j] = q[j]
    BY <1>2, <1>3, <2>1
  <2> QED
    BY <2>1, <2>2 DEF Told
<1>5. ASSUME Told(q, k, p, i, n + 1) PROVE Told(t, k, p, i, n + 2)
  <2>1. Told(t, k, p, i, n + 1)
    BY <1>4, <1>5
  <2>2. PICK j \in i + 1 .. n + 1 - 1 : Collecting(t[j], k, p)
    BY <2>1 DEF Told
  <2>3. j \in i + 1 .. n + 2 - 1
    BY <1>3
  <2> QED
    BY <2>2, <2>3 DEF Told
<1>6. ASSUME Collecting(m, k, p) PROVE Told(t, k, p, i, n + 2)
  <2>1. n + 1 \in i + 1 .. n + 2 - 1
    BY <1>3
  <2> QED
    BY <1>2, <1>6, <2>1 DEF Told
<1> QED
  BY <1>1, <1>4, <1>5, <1>6 DEF t

\* Whatever is owed stays owed when a packet is put behind the others and the server
\* sets more watches.
LEMMA SafeGrows ==
    ASSUME NEW q \in Seq(Incoming), NEW m \in Incoming, NEW k, NEW p, NEW z,
           NEW i \in 0 .. Len(q), NEW nd, NEW sd, NEW sc, NEW sd2, NEW sc2,
           sd \subseteq sd2, sc \subseteq sc2, Safe(q, nd, sd, sc, k, p, z, i)
    PROVE  Safe(Append(q, m), nd, sd2, sc2, k, p, z, i)
<1> DEFINE t == Append(q, m)
<1>1. PICK n \in Nat : n = Len(q)
  BY LenProperties
<1>2. Len(t) = n + 1 /\ (\A j \in 1 .. n : t[j] = q[j]) /\ n + 1 + 1 = n + 2
  BY <1>1, Longer
<1>3. /\ \A h \in 1 .. n + 1 : Told(q, k, p, i, h) => Told(t, k, p, i, h)
      /\ Told(q, k, p, i, n + 1) => Told(t, k, p, i, n + 2)
  BY <1>1, ToldGrows
<1> HIDE DEF t
<1>4. Held(sd, sc, k, p) => Held(sd2, sc2, k, p)
  BY DEF Held
<1>5. ASSUME NEW h \in i + 1 .. n + 1, IsHeader(t[h]), Passed(nd, k, p, z), t[h].zxid >= Change(nd, k, p)
      PROVE  Told(t, k, p, i, h)
  <2>1. CASE h = n + 1
    <3>1. Told(q, k, p, i, n + 1)
      BY <1>1, <1>5 DEF Safe
    <3>2. n + 1 \in 1 .. n + 1
      OBVIOUS
    <3> QED
      BY <1>3, <2>1, <3>1, <3>2
  <2>2. CASE h # n + 1
    <3>1. h \in i + 1 .. n /\ h \in 1 .. n /\ h \in 1 .. n + 1
      BY <1>1, <2>2
    <3>2. Told(q, k, p, i, h)
      BY <1>1, <1>2, <1>5, <3>1 DEF Safe
    <3> QED
      BY <1>3, <3>1, <3>2
  <2> QED
    BY <2>1, <2>2
<1>6. /\ Held(sd2, sc2, k, p) \/ Told(t, k, p, i, n + 2)
      /\ Passed(nd, k, p, z) => Told(t, k, p, i, n + 2)
  BY <1>1, <1>3, <1>4 DEF Safe
<1> QED
  BY <1>2, <1>5, <1>6 DEF Safe, t

\* The first packet is handled: what was behind packet i is behind packet i - 1 now.
\* What is in the tables stays behind no packet, if the first one does not collect it.
LEMMA SafeShifts ==
    ASSUME NEW q \in Seq(Incoming), q # <<>>, NEW k, NEW p, NEW z, NEW i \in 0 .. Len(q),
           NEW nd, NEW sd, NEW sc, Safe(q, nd, sd, sc, k, p, z, i),
           i = 0 => ~Collecting(q[1], k, p), NEW j \in Nat, j = IF i = 0 THEN 0 ELSE i - 1
    PROVE  Safe(Tail(q), nd, sd, sc, k, p, z, j)
<1> DEFINE t == Tail(q)
<1>1. PICK n \in Nat : /\ Len(q) = n + 1 /\ Len(t) = n
                       /\ \A g \in 1 .. n : t[g] = q[g + 1]
  BY Shorter
<1>2. Len(t) = n /\ \A g \in 1 .. n : t[g] = q[g + 1]
  BY <1>1
<1> HIDE DEF t
<1>3. ASSUME NEW h \in 1 .. n + 2, Told(q, k, p, i, h) PROVE Told(t, k, p, j, h - 1)
  <2>1. PICK g \in i + 1 .. h - 1 : Collecting(q[g], k, p)
    BY <1>3 DEF Told
  <2>2. g # 1
    BY <2>1
  <2>3. PICK g1 \in Nat : g = g1 + 1
    BY <2>1
  <2>4. g1 \in 1 .. n /\ g1 \in j + 1 .. h - 1 - 1
    BY <2>2, <2>3
  <2>5. t[g1] = q[g]
    BY <1>2, <2>3, <2>4
  <2> QED
    BY <2>1, <2>4, <2>5 DEF Told
<1>4. Told(q, k, p, i, n + 2) => Told(t, k, p, j, n + 1)
  <2>1. n + 2 \in 1 .. n + 2 /\ n + 2 - 1 = n + 1
    OBVIOUS
  <2> QED
    BY <1>3, <2>1
<1>5. Len(q) + 1 = n + 2 /\ Len(t) + 1 = n + 1
  BY <1>1, <1>2
<1>6. ASSUME NEW h \in j + 1 .. n, IsHeader(t[h]), Passed(nd, k, p, z), t[h].zxid >= Change(nd, k, p)
      PROVE  Told(t, k, p, j, h)
  <2>1. h + 1 \in i + 1 .. n + 1 /\ h + 1 \in 1 .. n + 2 /\ h + 1 - 1 = h /\ h \in 1 .. n
    OBVIOUS
  <2>2. t[h] = q[h + 1]
    BY <1>2, <2>1
  <2>3. Told(q, k, p, i, h + 1)
    BY <1>1, <1>6, <2>1, <2>2 DEF Safe
  <2>4. Told(t, k, p, j, h + 1 - 1)
    BY <1>3, <2>1, <2>3
  <2> QED
    BY <2>1, <2>4
<1>7. /\ Held(sd, sc, k, p) \/ Told(t, k, p, j, n + 1)
      /\ Passed(nd, k, p, z) => Told(t, k, p, j, n + 1)
  BY <1>4, <1>5 DEF Safe
<1> QED
  BY <1>2, <1>5, <1>6, <1>7 DEF Safe, t

-----------------------------------------------------------------------------
(* Requests and their replies                                              *)

\* What is owed to a request keeps being owed.
LEMMA VouchedGrows ==
    ASSUME NEW q \in Seq(Incoming), NEW m \in Incoming, NEW r, NEW i \in 1 .. Len(q),
           NEW nd, NEW sd, NEW sc, NEW sd2, NEW sc2, sd \subseteq sd2, sc \subseteq sc2,
           Vouched(q, nd, sd, sc, r, i)
    PROVE  Vouched(Append(q, m), nd, sd2, sc2, r, i)
<1>1. Append(q, m)[i] = q[i]
  BY Longer
<1>2. i \in 0 .. Len(q)
  BY LenProperties
<1> QED
  BY <1>1, <1>2, SafeGrows DEF Vouched

\* The first packet leaves: what vouches for a later reply stays, one place further
\* forward.
LEMMA VouchedShifts ==
    ASSUME NEW q \in Seq(Incoming), q # <<>>, NEW r, NEW i \in 1 .. Len(q), i # 1,
           NEW nd, NEW sd, NEW sc, Vouched(q, nd, sd, sc, r, i)
    PROVE  Vouched(Tail(q), nd, sd, sc, r, i - 1)
<1>1. PICK n \in Nat : n = Len(q)
  BY LenProperties
<1>2. PICK j \in Nat : j = i - 1 /\ j \in 1 .. n - 1 /\ j + 1 = i
  BY <1>1
<1>3. Tail(q)[j] = q[i]
  BY <1>1, <1>2, TailFacts
<1>4. i \in 0 .. Len(q) /\ i # 0 /\ j = IF i = 0 THEN 0 ELSE i - 1
  BY <1>1, <1>2
<1>5. \A k, p, z : Safe(q, nd, sd, sc, k, p, z, i) => Safe(Tail(q), nd, sd, sc, k, p, z, j)
  BY <1>4, SafeShifts
<1> QED
  BY <1>2, <1>3, <1>5 DEF Vouched

\* The replies when a packet is put behind the others ...
LEMMA PositionsGrow ==
    ASSUME NEW q \in Seq(Incoming), NEW m \in Incoming, NEW n \in Nat, NEW at,
           Positions(at, n, q)
    PROVE  /\ ~IsReply(m) => Positions(at, n, Append(q, m))
           /\ IsReply(m) => Positions([j \in 1 .. n + 1 |-> IF j = n + 1 THEN Len(q) + 1 ELSE at[j]],
                                      n + 1, Append(q, m))
<1> DEFINE t == Append(q, m)
           a == [j \in 1 .. n + 1 |-> IF j = n + 1 THEN Len(q) + 1 ELSE at[j]]
<1>1. PICK l \in Nat : l = Len(q)
  BY LenProperties
<1>2. /\ Len(t) = l + 1 /\ t[l + 1] = m /\ \A j \in 1 .. l : t[j] = q[j]
      /\ \A i \in 1 .. l + 1 : i \in 1 .. l \/ i = l + 1
  BY <1>1, Longer
<1>3. /\ at \in [1 .. n -> 1 .. l]
      /\ \A i, j \in 1 .. n : i < j => at[i] < at[j]
      /\ \A h \in 1 .. l : IsReply(q[h]) <=> \E j \in 1 .. n : at[j] = h
  BY <1>1 DEF Positions
<1>4. \A j \in 1 .. n : at[j] \in 1 .. l /\ at[j] # l + 1 /\ at[j] \in 1 .. l + 1
  BY <1>3
<1>5. a = [j \in 1 .. n + 1 |-> IF j = n + 1 THEN l + 1 ELSE at[j]]
  BY <1>1
<1> HIDE DEF t, a
<1>6. ASSUME ~IsReply(m) PROVE Positions(at, n, t)
  <2>1. at \in [1 .. n -> 1 .. l + 1]
    BY <1>3, <1>4
  <2>2. ASSUME NEW h \in 1 .. l + 1 PROVE IsReply(t[h]) <=> \E j \in 1 .. n : at[j] = h
    <3>1. CASE h \in 1 .. l
      BY <1>2, <1>3, <3>1
    <3>2. CASE h = l + 1
      BY <1>2, <1>4, <1>6, <3>2
    <3> QED
      BY <1>2, <3>1, <3>2
  <2> QED
    BY <1>2, <1>3, <2>1, <2>2 DEF Positions
<1>7. ASSUME IsReply(m) PROVE Positions(a, n + 1, t)
  <2>1. /\ a[n + 1] = l + 1
        /\ \A j \in 1 .. n : j \in 1 .. n + 1 /\ j # n + 1 /\ a[j] = at[j]
        /\ \A j \in 1 .. n + 1 : j \in 1 .. n \/ j = n + 1
        /\ n + 1 \in 1 .. n + 1
    BY <1>5
  <2>2. \A j \in 1 .. n + 1 : a[j] \in 1 .. l + 1
    BY <1>4, <2>1
  <2>3. a \in [1 .. n + 1 -> 1 .. l + 1]
    BY <1>5, <2>2
  <2>4. ASSUME NEW i \in 1 .. n + 1, NEW j \in 1 .. n + 1, i < j PROVE a[i] < a[j]
    <3>1. i \in 1 .. n
      BY <2>4
    <3>2. CASE j \in 1 .. n
      BY <1>3, <2>1, <2>4, <3>1, <3>2
    <3>3. CASE j = n + 1
      <4>1. at[i] < l + 1
        BY <1>4, <3>1
      <4> QED
        BY <2>1, <3>1, <3>3, <4>1
    <3> QED
      BY <2>1, <3>2, <3>3
  <2>5. ASSUME NEW h \in 1 .. l + 1 PROVE IsReply(t[h]) <=> \E j \in 1 .. n + 1 : a[j] = h
    <3>1. CASE h \in 1 .. l
      <4>1. h # l + 1
        BY <3>1
      <4>2. IsReply(t[h]) <=> \E j \in 1 .. n : at[j] = h
        BY <1>2, <1>3, <3>1
      <4> QED
        BY <2>1, <4>1, <4>2
    <3>2. CASE h = l + 1
      BY <1>2, <1>7, <2>1, <3>2
    <3> QED
      BY <1>2, <3>1, <3>2
  <2> QED
    BY <1>2, <2>3, <2>4, <2>5 DEF Positions
<1> QED
  BY <1>6, <1>7 DEF t, a

\* ... and when the first one is handled.
LEMMA PositionsShift ==
    ASSUME NEW q \in Seq(Incoming), q # <<>>, NEW n \in Nat, NEW at, Positions(at, n, q)
    PROVE  /\ ~IsReply(q[1]) => /\ \A j \in 1 .. n : at[j] # 1
                                /\ Positions([j \in 1 .. n |-> at[j] - 1], n, Tail(q))
           /\ IsReply(q[1]) => /\ n # 0 /\ at[1] = 1 /\ \A j \in 1 .. n - 1 : at[j + 1] # 1
                               /\ Positions([j \in 1 .. n - 1 |-> at[j + 1] - 1], n - 1, Tail(q))
<1> DEFINE t == Tail(q)
           a == [j \in 1 .. n |-> at[j] - 1]
           b == [j \in 1 .. n - 1 |-> at[j + 1] - 1]
<1>1. PICK l \in Nat : /\ Len(q) = l + 1 /\ Len(t) = l
                       /\ \A g \in 1 .. l : t[g] = q[g + 1]
  BY Shorter
<1>2. Len(t) = l /\ \A g \in 1 .. l : t[g] = q[g + 1]
  BY <1>1
<1>3. /\ at \in [1 .. n -> 1 .. l + 1]
      /\ \A i, j \in 1 .. n : i < j => at[i] < at[j]
      /\ \A h \in 1 .. l + 1 : IsReply(q[h]) <=> \E j \in 1 .. n : at[j] = h
  BY <1>1 DEF Positions
<1>4. /\ \A h \in 1 .. l : h + 1 \in 1 .. l + 1 /\ h + 1 # 1 /\ h + 1 - 1 = h
      /\ 1 \in 1 .. l + 1
  OBVIOUS
<1> HIDE DEF t
<1>5. ASSUME ~IsReply(q[1])
      PROVE  (\A j \in 1 .. n : at[j] # 1) /\ Positions(a, n, t)
  <2>1. \A j \in 1 .. n : at[j] \in 1 .. l + 1 /\ at[j] # 1
    BY <1>3, <1>4, <1>5
  <2>2. \A j \in 1 .. n : at[j] - 1 \in 1 .. l /\ at[j] - 1 + 1 = at[j] /\ at[j] \in Nat
    BY <2>1
  <2>3. a \in [1 .. n -> 1 .. l]
    BY <2>2
  <2>4. \A i, j \in 1 .. n : i < j => at[i] - 1 < at[j] - 1
    BY <1>3, <2>2
  <2>5. \A i, j \in 1 .. n : i < j => a[i] < a[j]
    BY <2>4
  <2>6. ASSUME NEW h \in 1 .. l PROVE IsReply(t[h]) <=> \E j \in 1 .. n : a[j] = h
    <3>1. IsReply(t[h]) <=> \E j \in 1 .. n : at[j] = h + 1
      BY <1>2, <1>3, <1>4
    <3>2. \A j \in 1 .. n : at[j] = h + 1 <=> at[j] - 1 = h
      BY <2>2
    <3> QED
      BY <3>1, <3>2
  <2> HIDE DEF a
  <2> QED
    BY <1>2, <2>1, <2>3, <2>5, <2>6 DEF Positions
<1>6. ASSUME IsReply(q[1])
      PROVE  /\ n # 0 /\ at[1] = 1 /\ \A j \in 1 .. n - 1 : at[j + 1] # 1
             /\ Positions(b, n - 1, t)
  <2>1. PICK g \in 1 .. n : at[g] = 1
    BY <1>3, <1>4, <1>6
  <2>2. n # 0 /\ 1 \in 1 .. n
    BY <2>1
  <2>3. at[1] = 1
    <3>1. CASE g = 1
      BY <2>1, <3>1
    <3>2. CASE g # 1
      <4>1. 1 < g
        BY <2>1, <3>2
      <4>2. at[1] < at[g] /\ at[1] \in 1 .. l + 1
        BY <1>3, <2>1, <2>2, <4>1
      <4> QED
        BY <2>1, <4>2
    <3> QED
      BY <3>1, <3>2
  <2>4. PICK c \in Nat : c = n - 1 /\ c + 1 = n
    BY <2>2
  <2>5. \A j \in 1 .. c : j + 1 \in 1 .. n /\ 1 < j + 1
    BY <2>4
  <2>6. \A j \in 1 .. c : at[j + 1] \in 1 .. l + 1 /\ 1 < at[j + 1]
    BY <1>3, <2>2, <2>3, <2>5
  <2>7. \A j \in 1 .. c : /\ at[j + 1] - 1 \in 1 .. l /\ at[j + 1] - 1 + 1 = at[j + 1]
                          /\ at[j + 1] \in Nat /\ at[j + 1] # 1
    BY <2>6
  <2>8. b = [j \in 1 .. c |-> at[j + 1] - 1]
    BY <2>4
  <2>9. b \in [1 .. c -> 1 .. l]
    BY <2>7, <2>8
  <2>10. ASSUME NEW i \in 1 .. c, NEW j \in 1 .. c, i < j PROVE b[i] < b[j]
    <3>1. i + 1 < j + 1
      BY <2>10
    <3>2. at[i + 1] < at[j + 1]
      BY <1>3, <2>5, <3>1
    <3>3. at[i + 1] - 1 < at[j + 1] - 1
      BY <2>7, <3>2
    <3> QED
      BY <2>8, <3>3
  <2>11. ASSUME NEW h \in 1 .. l PROVE IsReply(t[h]) <=> \E j \in 1 .. c : b[j] = h
    <3>1. IsReply(t[h]) <=> \E j \in 1 .. n : at[j] = h + 1
      BY <1>2, <1>3, <1>4
    <3>2. ASSUME NEW j \in 1 .. n, at[j] = h + 1 PROVE \E i \in 1 .. c : b[i] = h
      <4>1. j # 1
        BY <1>4, <2>3, <3>2
      <4>2. PICK i \in 1 .. c : i + 1 = j
        <5>1. j - 1 \in 1 .. c /\ j - 1 + 1 = j
          BY <2>4, <4>1
        <5> QED
          BY <5>1
      <4>3. b[i] = h
        BY <1>4, <2>8, <3>2, <4>2
      <4> QED
        BY <4>3
    <3>3. ASSUME NEW i \in 1 .. c, b[i] = h PROVE \E j \in 1 .. n : at[j] = h + 1
      <4>1. at[i + 1] = h + 1 /\ i + 1 \in 1 .. n
        BY <2>5, <2>7, <2>8, <3>3
      <4> QED
        BY <4>1
    <3> QED
      BY <3>1, <3>2, <3>3
  <2>12. Positions(b, c, t)
    BY <1>2, <2>9, <2>10, <2>11 DEF Positions
  <2> HIDE DEF b
  <2> QED
    BY <2>2, <2>3, <2>4, <2>7, <2>12
<1> QED
  BY <1>5, <1>6 DEF t

\* Without a reply there are no positions.
LEMMA NoReplies ==
    ASSUME NEW q, \A h \in 1 .. Len(q) : ~IsReply(q[h]), NEW n \in Nat
    PROVE  /\ \A at : Positions(at, n, q) => n = 0
           /\ Positions([j \in 1 .. 0 |-> 1], 0, q)
<1>1. ASSUME NEW at, Positions(at, n, q), n # 0 PROVE FALSE
  <2>1. 1 \in 1 .. n
    BY <1>1
  <2>2. at[1] \in 1 .. Len(q)
    BY <1>1, <2>1 DEF Positions
  <2> QED
    BY <1>1, <2>1, <2>2 DEF Positions
<1>2. Positions([j \in 1 .. 0 |-> 1], 0, q)
  <2>1. 1 .. 0 = {}
    OBVIOUS
  <2>2. [j \in 1 .. 0 |-> 1] \in [1 .. 0 -> 1 .. Len(q)]
    BY <2>1
  <2> QED
    BY <2>1, <2>2 DEF Positions
<1> QED
  BY <1>1, <1>2

\* The server has answered the next request.
LEMMA AnswersReply ==
    ASSUME NEW q \in Seq(Incoming), NEW m \in Incoming, IsReply(m), NEW n \in Nat, NEW at, NEW sent,
           NEW nd, NEW sd, NEW sc, NEW sd2, NEW sc2, sd \subseteq sd2, sc \subseteq sc2,
           Answers(at, n, sent, q, nd, sd, sc),
           Vouched(Append(q, m), nd, sd2, sc2, sent[n + 1], Len(q) + 1)
    PROVE  \E a : Answers(a, n + 1, sent, Append(q, m), nd, sd2, sc2)
<1> DEFINE a == [j \in 1 .. n + 1 |-> IF j = n + 1 THEN Len(q) + 1 ELSE at[j]]
<1>1. Positions(a, n + 1, Append(q, m))
  BY PositionsGrow DEF Answers
<1>2. /\ a[n + 1] = Len(q) + 1
      /\ \A j \in 1 .. n : j \in 1 .. n + 1 /\ j # n + 1 /\ a[j] = at[j]
      /\ \A j \in 1 .. n + 1 : j \in 1 .. n \/ j = n + 1
      /\ n + 1 \in 1 .. n + 1
  OBVIOUS
<1> HIDE DEF a
<1>3. ASSUME NEW j \in 1 .. n + 1 PROVE Vouched(Append(q, m), nd, sd2, sc2, sent[j], a[j])
  <2>1. CASE j \in 1 .. n
    <3>1. at[j] \in 1 .. Len(q) /\ Vouched(q, nd, sd, sc, sent[j], at[j])
      BY <2>1 DEF Answers, Positions
    <3>2. Vouched(Append(q, m), nd, sd2, sc2, sent[j], at[j])
      BY <3>1, VouchedGrows
    <3> QED
      BY <1>2, <2>1, <3>2
  <2>2. CASE j = n + 1
    BY <1>2, <2>2
  <2> QED
    BY <1>2, <2>1, <2>2
<1> QED
  BY <1>1, <1>3 DEF Answers

\* The first packet is handled, which was the reply to the first request or no reply.
LEMMA AnswersShift ==
    ASSUME NEW q \in Seq(Incoming), q # <<>>, NEW n \in Nat, NEW at,
           NEW sent \in Seq(Requests), sent # <<>>, n <= Len(sent),
           NEW nd, NEW sd, NEW sc, Answers(at, n, sent, q, nd, sd, sc), IsReply(q[1])
    PROVE  /\ n # 0 /\ Vouched(q, nd, sd, sc, sent[1], 1)
           /\ \E a : Answers(a, n - 1, Tail(sent), Tail(q), nd, sd, sc)
<1> DEFINE b == [j \in 1 .. n - 1 |-> at[j + 1] - 1]
<1>1. /\ n # 0 /\ at[1] = 1 /\ \A j \in 1 .. n - 1 : at[j + 1] # 1
      /\ Positions(b, n - 1, Tail(q))
  BY PositionsShift DEF Answers
<1>2. PICK c \in Nat : c = n - 1 /\ c + 1 = n
  BY <1>1
<1>3. /\ 1 \in 1 .. n
      /\ \A j \in 1 .. c : j + 1 \in 1 .. n
  BY <1>2
<1>4. /\ \A j \in 1 .. n : at[j] \in 1 .. Len(q)
      /\ \A j \in 1 .. n : Vouched(q, nd, sd, sc, sent[j], at[j])
  BY DEF Answers, Positions
<1>5. \A j \in 1 .. c : b[j] = at[j + 1] - 1
  BY <1>2
<1> HIDE DEF b
<1>6. \A j \in 1 .. c : Tail(sent)[j] = sent[j + 1]
  <2>1. \A j \in 1 .. c : j \in 1 .. Len(sent) - 1
    BY <1>2, LenProperties
  <2> QED
    BY <2>1, TailFacts
<1>7. ASSUME NEW j \in 1 .. c PROVE Vouched(Tail(q), nd, sd, sc, Tail(sent)[j], b[j])
  <2>1. /\ at[j + 1] \in 1 .. Len(q) /\ at[j + 1] # 1
        /\ Vouched(q, nd, sd, sc, sent[j + 1], at[j + 1])
    BY <1>1, <1>2, <1>3, <1>4
  <2>2. Vouched(Tail(q), nd, sd, sc, sent[j + 1], at[j + 1] - 1)
    BY <2>1, VouchedShifts
  <2> QED
    BY <1>5, <1>6, <2>2
<1>8. Answers(b, c, Tail(sent), Tail(q), nd, sd, sc)
  BY <1>1, <1>2, <1>7 DEF Answers
<1> QED
  BY <1>1, <1>2, <1>3, <1>4, <1>8

\* The first packet is no reply: the answers behind it keep their requests.
LEMMA AnswersPass ==
    ASSUME NEW q \in Seq(Incoming), q # <<>>, NEW n \in Nat, NEW at, NEW sent,
           NEW nd, NEW sd, NEW sc, Answers(at, n, sent, q, nd, sd, sc), ~IsReply(q[1])
    PROVE  \E a : Answers(a, n, sent, Tail(q), nd, sd, sc)
<1> DEFINE b == [j \in 1 .. n |-> at[j] - 1]
<1>1. (\A j \in 1 .. n : at[j] # 1) /\ Positions(b, n, Tail(q))
  BY PositionsShift DEF Answers
<1>2. \A j \in 1 .. n : b[j] = at[j] - 1
  OBVIOUS
<1> HIDE DEF b
<1>3. ASSUME NEW j \in 1 .. n PROVE Vouched(Tail(q), nd, sd, sc, sent[j], b[j])
  <2>1. /\ at[j] \in 1 .. Len(q) /\ at[j] # 1
        /\ Vouched(q, nd, sd, sc, sent[j], at[j])
    BY <1>1 DEF Answers, Positions
  <2>2. Vouched(Tail(q), nd, sd, sc, sent[j], at[j] - 1)
    BY <2>1, VouchedShifts
  <2> QED
    BY <1>2, <2>2
<1> QED
  BY <1>1, <1>3 DEF Answers

\* One more request.
LEMMA QueuedAppend ==
    ASSUME NEW out \in Seq(Outgoing), NEW sent \in Seq(Requests), NEW r \in Requests,
           NEW n \in 0 .. Len(sent), Queued(out, sent, n)
    PROVE  /\ Asking(Append(out, [request |-> r])) <=> Asking(out)
           /\ out # <<>> => Append(out, [request |-> r])[1] = out[1]
           /\ Queued(Append(out, [request |-> r]), Append(sent, r), n)
           /\ n \in 0 .. Len(Append(sent, r))
           /\ \A j \in 1 .. n : Append(sent, r)[j] = sent[j]
<1> DEFINE m == [request |-> r]
           o == Append(out, m)
           s == Append(sent, r)
<1>1. m \in Outgoing /\ ~IsSet(m)
  BY Made
<1>2. PICK lo \in Nat : lo = Len(out)
  BY LenProperties
<1>3. PICK ls \in Nat : ls = Len(sent)
  BY LenProperties
<1>4. Len(o) = lo + 1 /\ o[lo + 1] = m /\ \A i \in 1 .. lo : o[i] = out[i]
  BY <1>1, <1>2, Longer
<1>5. Len(s) = ls + 1 /\ s[ls + 1] = r /\ \A i \in 1 .. ls : s[i] = sent[i]
  BY <1>3, Longer
<1>6. out # <<>> <=> lo # 0
  BY <1>2, EmptySeq
<1>7. o # <<>>
  BY <1>1, AppendProperties
<1> HIDE DEF m, o, s
<1>8. /\ out # <<>> => o[1] = out[1]
      /\ out = <<>> => o[1] = m
  BY <1>4, <1>6
<1>9. Asking(o) <=> Asking(out)
  BY <1>1, <1>7, <1>8 DEF Asking
<1>10. PICK d \in {0, 1} : d = Skipped(out) /\ d = Skipped(o)
  BY <1>9 DEF Skipped
<1>11. lo + n = d + ls /\ \A i \in 1 .. ls - n : out[d + i] = [request |-> sent[n + i]]
  BY <1>2, <1>3, <1>10 DEF Queued
<1>12. ASSUME NEW i \in 1 .. ls + 1 - n PROVE o[d + i] = [request |-> s[n + i]]
  <2>1. CASE i = ls + 1 - n
    <3>1. d + i = lo + 1 /\ n + i = ls + 1
      BY <1>2, <1>3, <1>10, <1>11, <2>1
    <3> QED
      BY <1>4, <1>5, <3>1 DEF m
  <2>2. CASE i # ls + 1 - n
    <3>1. i \in 1 .. ls - n
      BY <1>3, <2>2
    <3>2. d + i \in 1 .. lo /\ n + i \in 1 .. ls
      BY <1>3, <1>11, <3>1
    <3> QED
      BY <1>4, <1>5, <1>11, <3>1, <3>2
  <2> QED
    BY <2>1, <2>2
<1>13. Len(o) + n = d + Len(s)
  BY <1>3, <1>4, <1>5, <1>11
<1>14. Queued(o, s, n)
  BY <1>5, <1>10, <1>12, <1>13 DEF Queued
<1>15. n \in 0 .. Len(s) /\ \A j \in 1 .. n : s[j] = sent[j]
  BY <1>3, <1>5
<1> QED
  BY <1>8, <1>9, <1>14, <1>15 DEF m, o, s

\* A request to set the watches is put in front.
LEMMA QueuedFront ==
    ASSUME NEW out \in Seq(Outgoing), NEW sent \in Seq(Requests), NEW m \in Outgoing, IsSet(m),
           NEW n \in 0 .. Len(sent), Queued(out, sent, n), ~Asking(out)
    PROVE  /\ Asking(<<m>> \o out) /\ (<<m>> \o out)[1] = m
           /\ <<m>> \o out \in Seq(Outgoing)
           /\ Queued(<<m>> \o out, sent, n)
<1> DEFINE o == <<m>> \o out
<1>1. <<m>> \in Seq(Outgoing) /\ Len(<<m>>) = 1 /\ <<m>>[1] = m
  OBVIOUS
<1>2. PICK lo \in Nat : lo = Len(out)
  BY LenProperties
<1>3. PICK ls \in Nat : ls = Len(sent)
  BY LenProperties
<1>4. /\ o \in Seq(Outgoing) /\ Len(o) = 1 + lo /\ o[1] = m
      /\ \A i \in 1 .. lo : o[1 + i] = out[i]
  BY <1>1, <1>2, JoinFacts
<1>5. o # <<>>
  BY <1>4, EmptySeq, <1>2
<1> HIDE DEF o
<1>6. Asking(o)
  BY <1>4, <1>5 DEF Asking
<1>7. Skipped(o) = 1 /\ Skipped(out) = 0
  BY <1>6 DEF Skipped
<1>8. lo + n = 0 + ls /\ \A i \in 1 .. ls - n : out[0 + i] = [request |-> sent[n + i]]
  BY <1>2, <1>3, <1>7 DEF Queued
<1>9. \A i \in 1 .. ls - n : i \in 1 .. lo /\ 0 + i = i
  BY <1>3, <1>8
<1>10. \A i \in 1 .. ls - n : o[1 + i] = [request |-> sent[n + i]]
  BY <1>4, <1>8, <1>9
<1>11. Len(o) + n = 1 + ls
  BY <1>3, <1>4, <1>8
<1> QED
  BY <1>3, <1>4, <1>6, <1>7, <1>10, <1>11 DEF Queued, o

\* The first packet to the server is read: the next request or, in front of all
\* requests, the one to set the watches.
LEMMA QueuedTail ==
    ASSUME NEW out \in Seq(Outgoing), NEW sent \in Seq(Requests), out # <<>>,
           NEW n \in 0 .. Len(sent), Queued(out, sent, n)
    PROVE  /\ ~Asking(Tail(out))
           /\ Asking(out) => Queued(Tail(out), sent, n)
           /\ ~Asking(out) => /\ n + 1 \in 0 .. Len(sent) /\ out[1].request = sent[n + 1]
                              /\ Queued(Tail(out), sent, n + 1)
<1> DEFINE o == Tail(out)
<1>1. PICK lo \in Nat : /\ Len(out) = lo + 1 /\ Len(o) = lo
                        /\ \A i \in 1 .. lo : o[i] = out[i + 1]
  BY Shorter
<1>2. PICK ls \in Nat : ls = Len(sent)
  BY LenProperties
<1>3. /\ o \in Seq(Outgoing) /\ Len(o) = lo
      /\ \A i \in 1 .. lo : o[i] = out[i + 1]
  BY <1>1, Shorter
<1> HIDE DEF o
<1>4. PICK d \in {0, 1} : d = Skipped(out) /\ (Asking(out) <=> d = 1)
  BY DEF Skipped
<1>5. lo + 1 + n = d + ls /\ \A i \in 1 .. ls - n : out[d + i] = [request |-> sent[n + i]]
  BY <1>1, <1>2, <1>4 DEF Queued
<1>6. ~Asking(o)
  <2> SUFFICES ASSUME o # <<>> PROVE ~IsSet(o[1])
    BY DEF Asking
  <2>1. lo # 0
    BY <1>3, EmptySeq
  <2>2. o[1] = out[2]
    BY <1>3, <2>1
  <2>3. 2 - d \in 1 .. ls - n /\ d + (2 - d) = 2
    BY <1>2, <1>5, <2>1
  <2>4. out[2] = [request |-> sent[n + (2 - d)]]
    BY <1>5, <2>3
  <2> QED
    BY <2>2, <2>4, Made
<1>7. Skipped(o) = 0
  BY <1>6 DEF Skipped
<1>8. ASSUME Asking(out) PROVE Queued(o, sent, n)
  <2>1. d = 1 /\ lo + n = 0 + ls
    BY <1>2, <1>4, <1>5, <1>8
  <2>2. \A i \in 1 .. ls - n : i \in 1 .. lo /\ i + 1 = d + i /\ 0 + i = i
    BY <1>2, <2>1
  <2>3. \A i \in 1 .. ls - n : o[0 + i] = [request |-> sent[n + i]]
    BY <1>3, <1>5, <2>2
  <2> QED
    BY <1>2, <1>3, <1>7, <2>1, <2>3 DEF Queued
<1>9. ASSUME ~Asking(out)
      PROVE  /\ n + 1 \in 0 .. ls /\ out[1].request = sent[n + 1]
             /\ Queued(o, sent, n + 1)
  <2>1. d = 0 /\ lo + (n + 1) = 0 + ls
    BY <1>2, <1>4, <1>5, <1>9
  <2>2. 1 \in 1 .. ls - n /\ d + 1 = 1
    BY <1>2, <2>1
  <2>3. out[1] = [request |-> sent[n + 1]]
    BY <1>5, <2>2
  <2>4. \A i \in 1 .. ls - (n + 1) : /\ i \in 1 .. lo /\ i + 1 = d + (i + 1) /\ 0 + i = i
                                     /\ i + 1 \in 1 .. ls - n /\ n + (i + 1) = n + 1 + i
    BY <1>2, <2>1
  <2>5. \A i \in 1 .. ls - (n + 1) : o[0 + i] = [request |-> sent[n + 1 + i]]
    <3> SUFFICES ASSUME NEW i \in 1 .. ls - (n + 1)
                 PROVE  o[0 + i] = [request |-> sent[n + 1 + i]]
      OBVIOUS
    <3>1. o[i] = out[d + (i + 1)]
      BY <1>3, <2>4
    <3>2. out[d + (i + 1)] = [request |-> sent[n + (i + 1)]]
      BY <1>5, <2>4
    <3> QED
      BY <2>4, <3>1, <3>2
  <2>6. n + 1 \in 0 .. ls
    BY <1>2, <2>1
  <2> QED
    BY <1>2, <1>3, <1>7, <2>1, <2>3, <2>5, <2>6, Made DEF Queued
<1> QED
  BY <1>2, <1>6, <1>8, <1>9 DEF o

\* The oldest request is answered.
LEMMA QueuedShift ==
    ASSUME NEW out, NEW sent \in Seq(Requests), sent # <<>>, NEW n \in 0 .. Len(sent), n # 0,
           Len(out) \in Nat, Queued(out, sent, n)
    PROVE  n - 1 \in 0 .. Len(Tail(sent)) /\ Queued(out, Tail(sent), n - 1)
<1> DEFINE s == Tail(sent)
<1>1. PICK ls \in Nat : /\ Len(sent) = ls + 1 /\ Len(s) = ls
                        /\ \A i \in 1 .. ls : s[i] = sent[i + 1]
  BY Shorter
<1>2. Len(s) = ls /\ \A i \in 1 .. ls : s[i] = sent[i + 1]
  BY <1>1
<1> HIDE DEF s
<1>3. PICK c \in Nat : c = n - 1 /\ c + 1 = n
  OBVIOUS
<1>4. PICK d \in {0, 1} : d = Skipped(out)
  BY DEF Skipped
<1>5. /\ Len(out) + n = d + (ls + 1)
      /\ \A i \in 1 .. ls + 1 - n : out[d + i] = [request |-> sent[n + i]]
  BY <1>1, <1>4 DEF Queued
<1>6. Len(out) + c = d + ls /\ c \in 0 .. ls /\ ls + 1 - n = ls - c
  BY <1>1, <1>3, <1>5
<1>7. ASSUME NEW i \in 1 .. ls - c PROVE out[d + i] = [request |-> s[c + i]]
  <2>1. c + i \in 1 .. ls /\ c + i + 1 = n + i
    BY <1>3, <1>6
  <2>2. s[c + i] = sent[n + i]
    BY <1>2, <2>1
  <2> QED
    BY <1>5, <1>6, <2>2
<1> QED
  BY <1>2, <1>3, <1>4, <1>6, <1>7 DEF Queued, s

-----------------------------------------------------------------------------
(* The order of packets and of completions                                 *)

\* The server sends what it knows now.
LEMMA OrderedGrows ==
    ASSUME NEW q \in Seq(Incoming), NEW m \in Incoming, NEW last \in Nat, NEW now \in Nat,
           NEW now2 \in Nat, last <= now, now <= now2, 1 <= now2, Ordered(q, last, now),
           IsHeader(m) => m.zxid = now2, IsEvent(m) => now < m.event.zxid /\ m.event.zxid \in Nat
    PROVE  Ordered(Append(q, m), last, now2)
<1> DEFINE t == Append(q, m)
<1>1. PICK n \in Nat : n = Len(q)
  BY LenProperties
<1>2. /\ Len(t) = n + 1 /\ t[n + 1] = m /\ \A j \in 1 .. n : t[j] = q[j] /\ q[j] \in Incoming
      /\ \A i \in 1 .. n + 1 : i \in 1 .. n \/ i = n + 1
  BY <1>1, Longer
<1> HIDE DEF t
<1>3. ASSUME NEW i \in 1 .. n
      PROVE  /\ IsHeader(q[i]) => q[i].zxid \in 1 .. now /\ q[i].zxid \in Nat /\ last <= q[i].zxid
             /\ IsEvent(q[i]) => last < q[i].event.zxid
             /\ \A j \in i + 1 .. n : IsHeader(q[i]) =>
                    /\ IsHeader(q[j]) => q[i].zxid <= q[j].zxid
                    /\ IsEvent(q[j]) => q[i].zxid < q[j].event.zxid
  BY <1>1 DEF Ordered
<1>4. \A i \in 1 .. n + 1 : IsHeader(t[i]) => t[i].zxid \in 1 .. now2 /\ last <= t[i].zxid
  BY <1>2, <1>3
<1>5. \A i \in 1 .. n + 1 : IsEvent(t[i]) => last < t[i].event.zxid
  BY <1>2, <1>3
<1>6. ASSUME NEW i \in 1 .. n + 1, NEW j \in i + 1 .. n + 1, IsHeader(t[i])
      PROVE  /\ IsHeader(t[j]) => t[i].zxid <= t[j].zxid
             /\ IsEvent(t[j]) => t[i].zxid < t[j].event.zxid
  <2>1. i \in 1 .. n /\ t[i] = q[i]
    BY <1>2
  <2>2. CASE j = n + 1
    BY <1>2, <1>3, <1>6, <2>1, <2>2
  <2>3. CASE j # n + 1
    <3>1. j \in i + 1 .. n /\ j \in 1 .. n
      BY <2>1, <2>3
    <3> QED
      BY <1>2, <1>3, <1>6, <2>1, <3>1
  <2> QED
    BY <2>2, <2>3
<1> QED
  BY <1>2, <1>4, <1>5, <1>6 DEF Ordered, t

\* The client has handled a packet.
LEMMA OrderedShifts ==
    ASSUME NEW q \in Seq(Incoming), q # <<>>, NEW last, NEW now, NEW last2,
           Ordered(q, last, now), last2 = IF IsHeader(q[1]) THEN q[1].zxid ELSE last
    PROVE  Ordered(Tail(q), last2, now)
<1> DEFINE t == Tail(q)
<1>1. PICK n \in Nat : /\ Len(q) = n + 1 /\ Len(t) = n
                       /\ \A j \in 1 .. n : t[j] = q[j + 1]
  BY Shorter
<1>2. Len(t) = n /\ \A j \in 1 .. n : t[j] = q[j + 1]
  BY <1>1
<1> HIDE DEF t
<1>3. /\ \A i \in 1 .. n : i + 1 \in 1 .. n + 1 /\ i + 1 \in 2 .. n + 1
      /\ \A i \in 1 .. n : \A j \in i + 1 .. n : j + 1 \in i + 1 + 1 .. n + 1 /\ j \in 1 .. n
      /\ 1 \in 1 .. n + 1 /\ 1 + 1 = 2
  OBVIOUS
<1>4. ASSUME NEW i \in 1 .. n
      PROVE  /\ IsHeader(t[i]) => t[i].zxid \in 1 .. now /\ last2 <= t[i].zxid
             /\ IsEvent(t[i]) => last2 < t[i].event.zxid
  <2>1. t[i] = q[i + 1] /\ i + 1 \in 1 .. n + 1 /\ i + 1 \in 2 .. n + 1
    BY <1>2, <1>3
  <2>2. /\ IsHeader(q[i + 1]) => q[i + 1].zxid \in 1 .. now /\ last <= q[i + 1].zxid
        /\ IsEvent(q[i + 1]) => last < q[i + 1].event.zxid
    BY <1>1, <2>1 DEF Ordered
  <2>3. IsHeader(q[1]) => /\ IsHeader(q[i + 1]) => q[1].zxid <= q[i + 1].zxid
                          /\ IsEvent(q[i + 1]) => q[1].zxid < q[i + 1].event.zxid
    BY <1>1, <1>3, <2>1 DEF Ordered
  <2> QED
    BY <2>1, <2>2, <2>3
<1>5. ASSUME NEW i \in 1 .. n, NEW j \in i + 1 .. n, IsHeader(t[i])
      PROVE  /\ IsHeader(t[j]) => t[i].zxid <= t[j].zxid
             /\ IsEvent(t[j]) => t[i].zxid < t[j].event.zxid
  <2>1. t[i] = q[i + 1] /\ i + 1 \in 1 .. n + 1 /\ t[j] = q[j + 1] /\ j + 1 \in i + 1 + 1 .. n + 1
    BY <1>2, <1>3
  <2> QED
    BY <1>1, <1>5, <2>1 DEF Ordered
<1> QED
  BY <1>2, <1>4, <1>5 DEF Ordered, t

\* A completion is queued that shows no more than the client has seen, or an event
\* that is newer.
LEMMA ShowsAppend ==
    ASSUME NEW rd \in Seq(Ready), NEW c \in Ready, NEW now \in Nat, NEW last \in Nat,
           NEW last2 \in Nat, last <= last2, Shows(rd, now, last),
           Has(c, "seen") => c.seen <= last2,
           Has(c, "event") => last < c.event.zxid
    PROVE  Shows(Append(rd, c), now, last2)
<1> DEFINE t == Append(rd, c)
<1>1. PICK n \in Nat : n = Len(rd)
  BY LenProperties
<1>2. /\ Len(t) = n + 1 /\ t[n + 1] = c /\ \A j \in 1 .. n : t[j] = rd[j] /\ rd[j] \in Ready
      /\ \A i \in 1 .. n + 1 : i \in 1 .. n \/ i = n + 1
  BY <1>1, Longer
<1> HIDE DEF t
<1>3. \A i \in 1 .. n : /\ Has(rd[i], "seen") => rd[i].seen <= last /\ rd[i].seen \in Nat
                        /\ Has(rd[i], "event") =>
                              /\ rd[i].watchers # {} => now < rd[i].event.zxid
                              /\ \A j \in 1 .. i - 1 : rd[i].watchers # {} /\ Has(rd[j], "seen")
                                     => rd[j].seen < rd[i].event.zxid
  BY <1>1, <1>2, ReadyKinds DEF Shows
<1>4. now <= last /\ now <= last2
  BY DEF Shows
<1>5. Has(c, "event") => c.event.zxid \in Nat
  BY ReadyKinds DEF Events
<1>6. ASSUME NEW i \in 1 .. n + 1, Has(t[i], "seen") PROVE t[i].seen <= last2
  BY <1>2, <1>3, <1>6
<1>7. ASSUME NEW i \in 1 .. n + 1, Has(t[i], "event")
      PROVE  /\ t[i].watchers # {} => now < t[i].event.zxid
             /\ \A j \in 1 .. i - 1 : t[i].watchers # {} /\ Has(t[j], "seen")
                    => t[j].seen < t[i].event.zxid
  <2>1. \A j \in 1 .. i - 1 : j \in 1 .. n
    OBVIOUS
  <2>2. CASE i \in 1 .. n
    BY <1>2, <1>3, <1>7, <2>1, <2>2
  <2>3. CASE i = n + 1
    <3>1. last < c.event.zxid /\ c.event.zxid \in Nat
      BY <1>2, <1>5, <1>7, <2>3
    <3>2. now < c.event.zxid
      BY <1>4, <3>1
    <3>3. \A j \in 1 .. n : Has(rd[j], "seen") => rd[j].seen < c.event.zxid
      BY <1>3, <3>1
    <3> QED
      BY <1>2, <2>1, <2>3, <3>2, <3>3
  <2> QED
    BY <1>2, <2>2, <2>3
<1> QED
  BY <1>2, <1>4, <1>6, <1>7 DEF Shows, t

\* The first completion has run.
LEMMA ShowsTail ==
    ASSUME NEW rd \in Seq(Ready), rd # <<>>, NEW now \in Nat, NEW last \in Nat, Shows(rd, now, last),
           NEW now2, now2 = now \/ (Has(rd[1], "seen") /\ now2 = rd[1].seen)
    PROVE  Shows(Tail(rd), now2, last)
<1> DEFINE t == Tail(rd)
<1>1. PICK n \in Nat : /\ Len(rd) = n + 1 /\ Len(t) = n
                       /\ \A j \in 1 .. n : t[j] = rd[j + 1]
  BY Shorter
<1>2. Len(t) = n /\ \A j \in 1 .. n : t[j] = rd[j + 1]
  BY <1>1
<1> HIDE DEF t
<1>3. \A i \in 1 .. n + 1 : /\ Has(rd[i], "seen") => rd[i].seen <= last
                            /\ Has(rd[i], "event") =>
                                 /\ rd[i].watchers # {} => now < rd[i].event.zxid
                                 /\ \A j \in 1 .. i - 1 : rd[i].watchers # {} /\ Has(rd[j], "seen")
                                        => rd[j].seen < rd[i].event.zxid
  BY <1>1 DEF Shows
<1>4. now2 <= last
  <2>1. 1 \in 1 .. n + 1
    OBVIOUS
  <2> QED
    BY <1>3, <2>1 DEF Shows
<1>5. ASSUME NEW i \in 1 .. n, Has(t[i], "seen") PROVE t[i].seen <= last
  <2>1. t[i] = rd[i + 1] /\ i + 1 \in 1 .. n + 1
    BY <1>2
  <2> QED
    BY <1>3, <1>5, <2>1
<1>6. ASSUME NEW i \in 1 .. n, Has(t[i], "event")
      PROVE  /\ t[i].watchers # {} => now2 < t[i].event.zxid
             /\ \A j \in 1 .. i - 1 : t[i].watchers # {} /\ Has(t[j], "seen")
                    => t[j].seen < t[i].event.zxid
  <2>1. t[i] = rd[i + 1] /\ i + 1 \in 1 .. n + 1 /\ 1 \in 1 .. i + 1 - 1
    BY <1>2
  <2>2. \A j \in 1 .. i - 1 : t[j] = rd[j + 1] /\ j + 1 \in 1 .. i + 1 - 1
    BY <1>2
  <2>3. /\ rd[i + 1].watchers # {} => now < rd[i + 1].event.zxid
        /\ \A j \in 1 .. i + 1 - 1 : rd[i + 1].watchers # {} /\ Has(rd[j], "seen")
               => rd[j].seen < rd[i + 1].event.zxid
    BY <1>3, <1>6, <2>1
  <2>4. t[i].watchers # {} => now2 < t[i].event.zxid
    BY <2>1, <2>3
  <2>5. ASSUME NEW j \in 1 .. i - 1, t[i].watchers # {}, Has(t[j], "seen")
        PROVE  t[j].seen < t[i].event.zxid
    BY <2>1, <2>2, <2>3, <2>5
  <2> QED
    BY <2>4, <2>5
<1> QED
  BY <1>2, <1>4, <1>5, <1>6 DEF Shows, t

\* The completions of the requests that fail show nothing.
LEMMA ShowsFailed ==
    ASSUME NEW rd \in Seq(Ready), NEW n \in Nat, NEW now, NEW last \in Nat, Shows(rd, now, last)
    PROVE  /\ rd \o [i \in 1 .. n |-> [seen |-> 0]] \in Seq(Ready)
           /\ Shows(rd \o [i \in 1 .. n |-> [seen |-> 0]], now, last)
           /\ \A K : (\A c \in K : ~Has(c, "seen")) =>
                  Count(rd \o [i \in 1 .. n |-> [seen |-> 0]], K) = Count(rd, K)
<1> DEFINE f == [i \in 1 .. n |-> [seen |-> 0]]
           t == rd \o f
<1>1. f \in Seq(Ready) /\ Len(f) = n /\ \A i \in 1 .. n : f[i] = [seen |-> 0]
  <2>1. f \in [1 .. n -> Ready]
    BY Made
  <2> QED
    BY <2>1
<1>2. PICK l \in Nat : l = Len(rd)
  BY LenProperties
<1>3. /\ t \in Seq(Ready) /\ Len(t) = l + n
      /\ \A i \in 1 .. l : t[i] = rd[i]
      /\ \A i \in 1 .. n : t[l + i] = f[i]
  BY <1>1, <1>2, JoinFacts
<1> HIDE DEF t, f
<1>4. ASSUME NEW i \in 1 .. l + n
      PROVE  (i \in 1 .. l /\ t[i] = rd[i]) \/ t[i] = [seen |-> 0]
  <2>1. CASE i \in 1 .. l
    BY <1>3, <2>1
  <2>2. CASE i \notin 1 .. l
    <3>1. i - l \in 1 .. n /\ l + (i - l) = i
      BY <2>2
    <3> QED
      BY <1>1, <1>3, <3>1
  <2> QED
    BY <2>1, <2>2
<1>5. /\ now <= last
      /\ \A i \in 1 .. l : /\ Has(rd[i], "seen") => rd[i].seen <= last
                           /\ Has(rd[i], "event") =>
                                /\ rd[i].watchers # {} => now < rd[i].event.zxid
                                /\ \A j \in 1 .. i - 1 : rd[i].watchers # {} /\ Has(rd[j], "seen")
                                       => rd[j].seen < rd[i].event.zxid
  BY <1>2 DEF Shows
<1>6. ASSUME NEW i \in 1 .. l + n, Has(t[i], "seen") PROVE t[i].seen <= last
  BY <1>4, <1>5, <1>6, Made
<1>7. ASSUME NEW i \in 1 .. l + n, Has(t[i], "event")
      PROVE  /\ t[i].watchers # {} => now < t[i].event.zxid
             /\ \A j \in 1 .. i - 1 : t[i].watchers # {} /\ Has(t[j], "seen")
                    => t[j].seen < t[i].event.zxid
  <2>1. i \in 1 .. l /\ t[i] = rd[i]
    BY <1>4, <1>7, Made
  <2>2. \A j \in 1 .. i - 1 : t[j] = rd[j]
    <3>1. \A j \in 1 .. i - 1 : j \in 1 .. l
      BY <2>1
    <3> QED
      BY <1>3, <3>1
  <2> QED
    BY <1>5, <1>7, <2>1, <2>2
<1>8. Shows(t, now, last)
  BY <1>3, <1>5, <1>6, <1>7 DEF Shows
<1>9. ASSUME NEW K, \A c \in K : ~Has(c, "seen") PROVE Count(t, K) = Count(rd, K)
  <2>1. Count(t, K) = Count(rd, K) + Count(f, K)
    BY <1>1, CountJoin DEF t
  <2>2. \A i \in 1 .. Len(f) : f[i] \notin K
    BY <1>1, <1>9, Made
  <2>3. Count(f, K) = 0
    BY <1>1, <2>2, CountType
  <2>4. Count(rd, K) \in Nat
    BY CountType
  <2> QED
    BY <2>1, <2>3, <2>4
<1> QED
  BY <1>3, <1>8, <1>9 DEF t, f

-----------------------------------------------------------------------------
(* Registrations and calls                                                 *)

\* A watcher is in finitely many places.
LEMMA PlacesCounted ==
    ASSUME NEW tb, NEW w, NEW rd \in Seq(Ready), NEW st \in Seq(Frames)
    PROVE  /\ IsFiniteSet(Entries(tb, w)) /\ Cardinality(Entries(tb, w)) \in Nat
           /\ Count(rd, Lists(w)) \in Nat /\ Count(st, Deliveries(w)) \in Nat
<1>1. IsFiniteSet(Kinds)
  <2>1. Kinds = ({} \cup {"node"} \cup {"exist"}) \cup {"child"}
    BY DEF Kinds
  <2> QED
    BY <2>1, FS_EmptySet, FS_AddElement
<1>2. IsFiniteSet(Kinds \X Paths)
  BY <1>1, FS_Product, WatchesAssumption DEF WatchesAssumption
<1>3. Entries(tb, w) \in SUBSET (Kinds \X Paths)
  BY DEF Entries
<1>4. IsFiniteSet(Entries(tb, w))
  BY <1>2, <1>3, FS_Subset
<1> QED
  BY <1>4, FS_CardinalityType, CountType

\* Frames and completions that deliver no event to w.
LEMMA NotDelivering ==
    ASSUME NEW w
    PROVE  /\ \A f : f.fn # "watcher" => f \notin Deliveries(w)
           /\ \A f : f.session = TRUE => f \notin Deliveries(w)
           /\ \A f : w \notin f.todo => f \notin Deliveries(w)
           /\ \A c : ~Has(c, "event") => c \notin Lists(w)
           /\ \A c : w \notin c.watchers => c \notin Lists(w)
           /\ \A c \in Lists(w) : ~Has(c, "seen")
<1>1. ASSUME NEW c \in Lists(w) PROVE ~Has(c, "seen")
  BY ReadyKinds DEF Lists
<1> QED
  BY <1>1 DEF Deliveries, Lists

\* A function is called that delivers nothing, or one returns that has delivered all.
LEMMA CoversPush ==
    ASSUME NEW tb, NEW rd \in Seq(Ready), NEW st \in Seq(Frames), NEW ow, NEW f \in Frames,
           Covers(tb, rd, st, ow), \A w \in Watchers : f \notin Deliveries(w)
    PROVE  Covers(tb, rd, Append(st, f), ow)
<1> SUFFICES ASSUME NEW w \in Watchers
             PROVE  Count(Append(st, f), Deliveries(w)) = Count(st, Deliveries(w))
  BY DEF Covers
<1>1. Count(Append(st, f), Deliveries(w))
          = Count(st, Deliveries(w)) + (IF f \in Deliveries(w) THEN 1 ELSE 0)
  BY CountAppend
<1>2. Count(st, Deliveries(w)) \in Nat
  BY CountType
<1> QED
  BY <1>1, <1>2

\* The function on top returns; a delivery had its registration to itself.
LEMMA CoversPop ==
    ASSUME NEW tb, NEW rd \in Seq(Ready), NEW st \in Seq(Frames), st # <<>>,
           NEW ow \in [Watchers -> Int], Covers(tb, rd, st, ow)
    PROVE  /\ Covers(tb, rd, SubSeq(st, 1, Len(st) - 1), ow)
           /\ \A w \in Watchers : st[Len(st)] \in Deliveries(w) =>
                  Cardinality(Entries(tb, w)) + Count(rd, Lists(w))
                      + Count(SubSeq(st, 1, Len(st) - 1), Deliveries(w)) + 1 <= ow[w]
<1> DEFINE b == SubSeq(st, 1, Len(st) - 1)
           f == st[Len(st)]
<1>1. b \in Seq(Frames) /\ f \in Frames
  BY PopFacts
<1>2. Append(b, f) = st
  <2>1. Append(b, f) \in Seq(Frames) /\ Len(Append(b, f)) = Len(b) + 1
    BY <1>1, AppendProperties
  <2>2. /\ Len(b) = Len(st) - 1 /\ \A i \in 1 .. Len(st) - 1 : b[i] = st[i]
        /\ Len(st) \in Nat \ {0}
    BY PopFacts
  <2>3. PICK n \in Nat : n = Len(b)
    BY <1>1, LenProperties
  <2>4. Len(st) = n + 1
    BY <2>2, <2>3
  <2>5. /\ Append(b, f)[n + 1] = f /\ \A i \in 1 .. n : Append(b, f)[i] = b[i]
        /\ \A i \in 1 .. n + 1 : i \in 1 .. n \/ i = n + 1
    BY <1>1, <2>3, Longer
  <2>6. \A i \in 1 .. n : b[i] = st[i]
    BY <2>2, <2>3
  <2>7. \A i \in 1 .. n + 1 : Append(b, f)[i] = st[i]
    BY <2>4, <2>5, <2>6
  <2> QED
    BY <2>1, <2>3, <2>4, <2>7, SeqEqual
<1> HIDE DEF b, f
<1>3. ASSUME NEW w \in Watchers
      PROVE  /\ Cardinality(Entries(tb, w)) + Count(rd, Lists(w)) + Count(b, Deliveries(w)) <= ow[w]
             /\ f \in Deliveries(w) =>
                    Cardinality(Entries(tb, w)) + Count(rd, Lists(w)) + Count(b, Deliveries(w)) + 1 <= ow[w]
  <2>1. Count(st, Deliveries(w)) = Count(b, Deliveries(w)) + (IF f \in Deliveries(w) THEN 1 ELSE 0)
    BY <1>1, <1>2, CountAppend
  <2>2. PICK e \in Nat : e = Cardinality(Entries(tb, w))
    BY PlacesCounted
  <2>3. PICK l \in Nat : l = Count(rd, Lists(w))
    BY PlacesCounted
  <2>4. PICK d \in Nat : d = Count(b, Deliveries(w))
    BY <1>1, PlacesCounted
  <2>5. PICK o \in Int : o = ow[w]
    OBVIOUS
  <2>6. e + l + Count(st, Deliveries(w)) <= o
    BY <2>2, <2>3, <2>5 DEF Covers
  <2>7. ASSUME f \in Deliveries(w) PROVE e + l + d <= o /\ e + l + d + 1 <= o
    <3>1. Count(st, Deliveries(w)) = d + 1
      BY <2>1, <2>4, <2>7
    <3> QED
      BY <2>6, <3>1
  <2>8. ASSUME f \notin Deliveries(w) PROVE e + l + d <= o
    <3>1. Count(st, Deliveries(w)) = d
      BY <2>1, <2>4, <2>8
    <3> QED
      BY <2>6, <3>1
  <2>9. e + l + d <= o /\ (f \in Deliveries(w) => e + l + d + 1 <= o)
    BY <2>7, <2>8
  <2> QED
    BY <2>2, <2>3, <2>4, <2>5, <2>9
<1> QED
  BY <1>3 DEF Covers, b, f

\* A completion is queued that delivers no event, or one has run.
LEMMA CoversReady ==
    ASSUME NEW tb, NEW rd \in Seq(Ready), NEW st, NEW ow, NEW c \in Ready,
           Covers(tb, rd, st, ow), ~Has(c, "event")
    PROVE  Covers(tb, Append(rd, c), st, ow)
<1> SUFFICES ASSUME NEW w \in Watchers
             PROVE  Count(Append(rd, c), Lists(w)) = Count(rd, Lists(w))
  BY DEF Covers
<1>1. Count(Append(rd, c), Lists(w)) = Count(rd, Lists(w)) + (IF c \in Lists(w) THEN 1 ELSE 0)
  BY CountAppend
<1>2. c \notin Lists(w)
  BY NotDelivering
<1>3. PICK l \in Nat : l = Count(rd, Lists(w))
  BY CountType
<1>4. Count(Append(rd, c), Lists(w)) = l + 0
  BY <1>1, <1>2, <1>3
<1> QED
  BY <1>3, <1>4

\* A completion is taken off the queue; a delivery list had its registrations.
LEMMA CoversTail ==
    ASSUME NEW tb, NEW rd \in Seq(Ready), rd # <<>>, NEW st \in Seq(Frames),
           NEW ow \in [Watchers -> Int], Covers(tb, rd, st, ow)
    PROVE  /\ Covers(tb, Tail(rd), st, ow)
           /\ \A w \in Watchers : rd[1] \in Lists(w) =>
                  Cardinality(Entries(tb, w)) + Count(Tail(rd), Lists(w))
                      + Count(st, Deliveries(w)) + 1 <= ow[w]
<1>1. ASSUME NEW w \in Watchers
      PROVE  /\ Cardinality(Entries(tb, w)) + Count(Tail(rd), Lists(w))
                    + Count(st, Deliveries(w)) <= ow[w]
             /\ rd[1] \in Lists(w) =>
                    Cardinality(Entries(tb, w)) + Count(Tail(rd), Lists(w))
                        + Count(st, Deliveries(w)) + 1 <= ow[w]
  <2>1. Count(rd, Lists(w)) = Count(Tail(rd), Lists(w)) + (IF rd[1] \in Lists(w) THEN 1 ELSE 0)
    BY CountTail
  <2>2. PICK e \in Nat : e = Cardinality(Entries(tb, w))
    BY PlacesCounted
  <2>3. PICK d \in Nat : d = Count(st, Deliveries(w))
    BY PlacesCounted
  <2>4. PICK m \in Nat : m = Count(Tail(rd), Lists(w))
    BY Shorter, PlacesCounted
  <2>5. PICK o \in Int : o = ow[w]
    OBVIOUS
  <2>6. e + Count(rd, Lists(w)) + d <= o
    BY <2>2, <2>3, <2>5 DEF Covers
  <2>7. ASSUME rd[1] \in Lists(w) PROVE e + m + d <= o /\ e + m + d + 1 <= o
    <3>1. Count(rd, Lists(w)) = m + 1
      BY <2>1, <2>4, <2>7
    <3> QED
      BY <2>6, <3>1
  <2>8. ASSUME rd[1] \notin Lists(w) PROVE e + m + d <= o
    <3>1. Count(rd, Lists(w)) = m
      BY <2>1, <2>4, <2>8
    <3> QED
      BY <2>6, <3>1
  <2>9. e + m + d <= o /\ (rd[1] \in Lists(w) => e + m + d + 1 <= o)
    BY <2>7, <2>8
  <2> QED
    BY <2>2, <2>3, <2>4, <2>5, <2>9
<1> QED
  BY <1>1 DEF Covers

\* A watcher of ws is called for an event; the others wait for their turn.
LEMMA CoversCall ==
    ASSUME NEW tb, NEW rd \in Seq(Ready), NEW st \in Seq(Frames), NEW ow \in [Watchers -> Int],
           NEW ws \in SUBSET Watchers, NEW v \in ws, NEW f \in Frames, f.todo = ws \ {v},
           Covers(tb, rd, st, ow),
           \A w \in ws : Cardinality(Entries(tb, w)) + Count(rd, Lists(w))
                             + Count(st, Deliveries(w)) + 1 <= ow[w]
    PROVE  Covers(tb, rd, Append(st, f), [ow EXCEPT ![v] = @ - 1])
<1> SUFFICES ASSUME NEW w \in Watchers
             PROVE  Cardinality(Entries(tb, w)) + Count(rd, Lists(w))
                        + Count(Append(st, f), Deliveries(w)) <= [ow EXCEPT ![v] = @ - 1][w]
  BY DEF Covers
<1>1. Count(Append(st, f), Deliveries(w))
          = Count(st, Deliveries(w)) + (IF f \in Deliveries(w) THEN 1 ELSE 0)
  BY CountAppend
<1>2. PICK e \in Nat : e = Cardinality(Entries(tb, w))
  BY PlacesCounted
<1>3. PICK l \in Nat : l = Count(rd, Lists(w))
  BY PlacesCounted
<1>4. PICK d \in Nat : d = Count(st, Deliveries(w))
  BY PlacesCounted
<1>5. PICK o \in Int : o = ow[w]
  OBVIOUS
<1>6. e + l + d <= o /\ (w \in ws => e + l + d + 1 <= o)
  BY <1>2, <1>3, <1>4, <1>5 DEF Covers
<1>7. PICK a \in Nat : a = Count(Append(st, f), Deliveries(w))
  BY <1>1, <1>4
<1>8. (f \notin Deliveries(w) => a = d) /\ (f \in Deliveries(w) => a = d + 1)
  BY <1>1, <1>4, <1>7
<1>9. CASE w = v
  <2>1. f \notin Deliveries(w)
    BY <1>9, NotDelivering
  <2>2. [ow EXCEPT ![v] = @ - 1][w] = o - 1
    BY <1>5, <1>9
  <2>3. e + l + a <= o - 1
    BY <1>6, <1>8, <1>9, <2>1
  <2> QED
    BY <1>2, <1>3, <1>7, <2>2, <2>3
<1>10. CASE w # v
  <2>1. [ow EXCEPT ![v] = @ - 1][w] = o
    BY <1>5, <1>10
  <2>2. f \in Deliveries(w) => w \in ws
    BY NotDelivering
  <2>3. e + l + a <= o
    BY <1>6, <1>8, <2>2
  <2> QED
    BY <1>2, <1>3, <1>7, <2>1, <2>3
<1> QED
  BY <1>9, <1>10

\* The places of a watcher in changed tables.
LEMMA EntriesWithin ==
    ASSUME NEW tb, NEW tb2, NEW w, NEW X,
           \A k \in Kinds, i \in Paths : w \in tb2[k][i] => w \in tb[k][i] \/ <<k, i>> \in X
    PROVE  Entries(tb2, w) \in SUBSET (Entries(tb, w) \cup X)
<1>1. ASSUME NEW x \in Entries(tb2, w) PROVE x \in Entries(tb, w) \cup X
  <2>1. PICK k \in Kinds, i \in Paths : x = <<k, i>>
    BY DEF Entries
  <2>2. w \in tb2[k][i]
    BY <2>1 DEF Entries
  <2>3. w \in tb[k][i] => <<k, i>> \in Entries(tb, w)
    BY DEF Entries
  <2> QED
    BY <2>1, <2>2, <2>3
<1> QED
  BY <1>1

\* A reply puts the watchers ws for path p in the tables ks.
Registers(tb, ow, tb2, ow2, ks, p, ws) ==
    /\ ow2 \in [Watchers -> Int] /\ \E x : ks \in {{}, {x}}
    /\ \A k \in Kinds, i \in Paths :
          tb2[k][i] = IF k \in ks /\ i = p THEN tb[k][i] \cup ws ELSE tb[k][i]
    /\ \A w \in Watchers : ow2[w] = ow[w] + IF ks # {} /\ w \in ws THEN 1 ELSE 0

\* They have their registrations.
LEMMA CoversRegister ==
    ASSUME NEW tb, NEW rd \in Seq(Ready), NEW st \in Seq(Frames), NEW ow \in [Watchers -> Int],
           NEW tb2, NEW ow2, NEW ks, NEW p, NEW ws, Registers(tb, ow, tb2, ow2, ks, p, ws),
           Covers(tb, rd, st, ow)
    PROVE  Covers(tb2, rd, st, ow2)
<1> USE DEF Registers
<1>0. PICK x : ks \in {{}, {x}}
  OBVIOUS
<1> SUFFICES ASSUME NEW w \in Watchers
             PROVE  Cardinality(Entries(tb2, w)) + Count(rd, Lists(w))
                        + Count(st, Deliveries(w)) <= ow2[w]
  BY DEF Covers
<1>1. PICK e \in Nat : e = Cardinality(Entries(tb, w))
  BY PlacesCounted
<1>2. PICK l \in Nat : l = Count(rd, Lists(w))
  BY PlacesCounted
<1>3. PICK d \in Nat : d = Count(st, Deliveries(w))
  BY PlacesCounted
<1>4. PICK e2 \in Nat : e2 = Cardinality(Entries(tb2, w))
  BY PlacesCounted
<1>5. PICK o \in Int : o = ow[w]
  OBVIOUS
<1>6. e + l + d <= o
  BY <1>1, <1>2, <1>3, <1>5 DEF Covers
<1>7. CASE ks # {} /\ w \in ws
  <2>1. Entries(tb2, w) \in SUBSET (Entries(tb, w) \cup {<<x, p>>})
    <3>1. \A k \in Kinds, i \in Paths : w \in tb2[k][i] =>
              w \in tb[k][i] \/ <<k, i>> \in {<<x, p>>}
      <4>1. ASSUME NEW k \in Kinds, NEW i \in Paths, w \in tb2[k][i]
            PROVE  w \in tb[k][i] \/ (k = x /\ i = p)
        BY <1>0, <4>1
      <4> QED
        BY <4>1
    <3> DEFINE X == {<<x, p>>}
    <3> HIDE DEF X
    <3>2. Entries(tb2, w) \in SUBSET (Entries(tb, w) \cup X)
      BY <3>1, EntriesWithin DEF X
    <3> QED
      BY <3>2 DEF X
  <2>2. /\ IsFiniteSet(Entries(tb, w) \cup {<<x, p>>})
        /\ Cardinality(Entries(tb, w) \cup {<<x, p>>})
               = IF <<x, p>> \in Entries(tb, w) THEN e ELSE e + 1
    BY <1>1, PlacesCounted, FS_AddElement
  <2>3. e2 <= Cardinality(Entries(tb, w) \cup {<<x, p>>})
    BY <1>4, <2>1, <2>2, FS_Subset
  <2>4. e2 <= e + 1
    BY <2>2, <2>3
  <2>5. ow2[w] = o + 1
    BY <1>5, <1>7
  <2>6. e2 + l + d <= o + 1
    BY <1>6, <2>4
  <2> QED
    BY <1>2, <1>3, <1>4, <2>5, <2>6
<1>8. CASE ~(ks # {} /\ w \in ws)
  <2>1. \A k \in Kinds, i \in Paths : w \in tb2[k][i] <=> w \in tb[k][i]
    BY <1>8
  <2>2. Entries(tb2, w) = Entries(tb, w)
    BY <2>1 DEF Entries
  <2>3. ow2[w] = o + 0
    BY <1>5, <1>8
  <2> QED
    BY <1>1, <1>2, <1>3, <1>5, <1>6, <2>2, <2>3
<1> QED
  BY <1>7, <1>8

\* The watchers for path p move from the tables ks to the list ws.
Moves(tb, tb2, ks, p, ws) ==
    /\ ks \in SUBSET Kinds /\ p \in Paths /\ ws = UNION {tb[k][p] : k \in ks}
    /\ \A k \in Kinds, i \in Paths : tb2[k][i] = IF k \in ks /\ i = p THEN {} ELSE tb[k][i]

\* Their registrations go with them.
LEMMA CoversCollect ==
    ASSUME NEW tb, NEW rd \in Seq(Ready), NEW st \in Seq(Frames), NEW ow \in [Watchers -> Int],
           NEW tb2, NEW ks, NEW p, NEW c \in Ready, Moves(tb, tb2, ks, p, c.watchers),
           Covers(tb, rd, st, ow)
    PROVE  Covers(tb2, Append(rd, c), st, ow)
<1> USE DEF Moves
<1> SUFFICES ASSUME NEW w \in Watchers
             PROVE  Cardinality(Entries(tb2, w)) + Count(Append(rd, c), Lists(w))
                        + Count(st, Deliveries(w)) <= ow[w]
  BY DEF Covers
<1>1. PICK e \in Nat : e = Cardinality(Entries(tb, w))
  BY PlacesCounted
<1>2. PICK l \in Nat : l = Count(rd, Lists(w))
  BY PlacesCounted
<1>3. PICK d \in Nat : d = Count(st, Deliveries(w))
  BY PlacesCounted
<1>4. PICK e2 \in Nat : e2 = Cardinality(Entries(tb2, w))
  BY PlacesCounted
<1>5. PICK o \in Int : o = ow[w]
  OBVIOUS
<1>6. e + l + d <= o
  BY <1>1, <1>2, <1>3, <1>5 DEF Covers
<1>7. Count(Append(rd, c), Lists(w)) = l + (IF c \in Lists(w) THEN 1 ELSE 0)
  BY <1>2, CountAppend
<1>8. Entries(tb2, w) \in SUBSET (Entries(tb, w) \cup {})
  BY EntriesWithin
<1>9. CASE w \in c.watchers
  <2>1. PICK k \in ks : w \in tb[k][p]
    BY <1>9
  <2>2. <<k, p>> \in Entries(tb, w) /\ <<k, p>> \notin Entries(tb2, w)
    BY <2>1 DEF Entries
  <2>3. Entries(tb2, w) \in SUBSET (Entries(tb, w) \ {<<k, p>>})
    BY <1>8, <2>2
  <2>4. /\ IsFiniteSet(Entries(tb, w) \ {<<k, p>>})
        /\ Cardinality(Entries(tb, w) \ {<<k, p>>}) = e - 1
    <3> DEFINE E == Entries(tb, w)
               x == <<k, p>>
    <3> HIDE DEF E, x
    <3>1. IsFiniteSet(E) /\ Cardinality(E) = e /\ x \in E
      BY <1>1, <2>2, PlacesCounted DEF E, x
    <3>2. IsFiniteSet(E \ {x}) /\ Cardinality(E \ {x}) = e - 1
      BY <3>1, FS_RemoveElement
    <3> QED
      BY <3>2 DEF E, x
  <2>5. e2 <= e - 1
    BY <1>4, <2>3, <2>4, FS_Subset
  <2>6. PICK l2 \in Nat : l2 = Count(Append(rd, c), Lists(w)) /\ l2 <= l + 1
    BY <1>7
  <2>7. e2 + l2 + d <= o
    BY <1>6, <2>5, <2>6
  <2> QED
    BY <1>3, <1>4, <1>5, <2>6, <2>7
<1>10. CASE w \notin c.watchers
  <2>1. c \notin Lists(w)
    BY <1>10, NotDelivering
  <2>2. Count(Append(rd, c), Lists(w)) = l
    BY <1>7, <2>1
  <2>3. e2 <= e
    BY <1>1, <1>4, <1>8, PlacesCounted, FS_Subset
  <2>4. e2 + l + d <= o
    BY <1>6, <2>3
  <2> QED
    BY <1>3, <1>4, <1>5, <2>2, <2>4
<1> QED
  BY <1>9, <1>10

\* The replies a failure fakes deliver no event.
LEMMA CoversFailed ==
    ASSUME NEW tb, NEW rd \in Seq(Ready), NEW st, NEW ow, NEW n \in Nat,
           NEW now, NEW last \in Nat, Shows(rd, now, last), Covers(tb, rd, st, ow)
    PROVE  Covers(tb, rd \o [i \in 1 .. n |-> [seen |-> 0]], st, ow)
<1>1. \A w : \A c \in Lists(w) : ~Has(c, "seen")
  BY NotDelivering
<1>2. \A w : Count(rd \o [i \in 1 .. n |-> [seen |-> 0]], Lists(w)) = Count(rd, Lists(w))
  BY <1>1, ShowsFailed
<1> QED
  BY <1>2 DEF Covers

-----------------------------------------------------------------------------
(* Steps                                                                   *)

\* The functions on the stack.
LEMMA FramesMade ==
    /\ Completions \in Frames /\ [fn |-> "handleError"] \in Frames
    /\ \A w : Completions \notin Deliveries(w) /\ [fn |-> "handleError"] \notin Deliveries(w)
    /\ \A f \in Frames : f.fn = "watcher" => f.todo \in SUBSET Watchers /\ f.session \in BOOLEAN
    /\ \A ws \in SUBSET Watchers, s \in BOOLEAN :
          LET f == [fn |-> "watcher", todo |-> ws, session |-> s]
          IN  f \in Frames /\ f.todo = ws /\ f.session = s
<1>1. Completions.fn # "watcher" /\ [fn |-> "handleError"].fn # "watcher"
  BY DEF Completions
<1>2. Completions \in Frames /\ [fn |-> "handleError"] \in Frames
  BY DEF Completions, Frames
<1>3. \A f \in Frames : f.fn = "watcher" => f.todo \in SUBSET Watchers /\ f.session \in BOOLEAN
  BY DEF Frames
<1>4. \A ws \in SUBSET Watchers, s \in BOOLEAN :
          LET f == [fn |-> "watcher", todo |-> ws, session |-> s]
          IN  f \in Frames /\ f.todo = ws /\ f.session = s
  BY DEF Frames
<1> QED
  BY <1>1, <1>2, <1>3, <1>4, NotDelivering

\* What each part of the invariant is about.
LEMMA PartsKept ==
    /\ Nodes /\ UNCHANGED <<conn, node, zxid, inbox, serverData, serverChild>> => Nodes'
    /\ Zxids /\ UNCHANGED <<tables, since, lastZxid, zxid, inbox>> => Zxids'
    /\ Fresh /\ UNCHANGED <<tables, since, lastZxid, node>> => Fresh'
    /\ Shown /\ UNCHANGED <<ready, seen, lastZxid>> => Shown'
    /\ Reset /\ UNCHANGED <<conn, outbox, inbox, node, serverData, serverChild, tables,
                            since, lastZxid>> => Reset'
    /\ Lined /\ UNCHANGED <<conn, outbox, sentRequests, inbox, node, serverData,
                            serverChild>> => Lined'
    /\ Paid /\ UNCHANGED <<tables, ready, stack, owed>> => Paid'
<1>1. Nodes /\ UNCHANGED <<conn, node, zxid, inbox, serverData, serverChild>> => Nodes'
  BY DEF Nodes
<1>2. Zxids /\ UNCHANGED <<tables, since, lastZxid, zxid, inbox>> => Zxids'
  BY DEF Zxids, Waits
<1>3. Fresh /\ UNCHANGED <<tables, since, lastZxid, node>> => Fresh'
  BY DEF Fresh, Waits
<1>4. Shown /\ UNCHANGED <<ready, seen, lastZxid>> => Shown'
  BY DEF Shown
<1>5. Reset /\ UNCHANGED <<conn, outbox, inbox, node, serverData, serverChild, tables,
                            since, lastZxid>> => Reset'
  BY DEF Reset, Waits, WatchedPaths
<1>6. Lined /\ UNCHANGED <<conn, outbox, sentRequests, inbox, node, serverData,
                            serverChild>> => Lined'
  BY DEF Lined
<1>7. Paid /\ UNCHANGED <<tables, ready, stack, owed>> => Paid'
  BY DEF Paid
<1> QED
  BY <1>1, <1>2, <1>3, <1>4, <1>5, <1>6, <1>7

\* A queue whose first packet does not ask for the watches still has it.
LEMMA AskingAppend ==
    ASSUME NEW out \in Seq(Outgoing), NEW r \in Requests
    PROVE  /\ Append(out, [request |-> r]) \in Seq(Outgoing)
           /\ Asking(Append(out, [request |-> r])) <=> Asking(out)
           /\ out # <<>> => Append(out, [request |-> r])[1] = out[1]
<1> DEFINE m == [request |-> r]
           o == Append(out, m)
<1>1. m \in Outgoing /\ ~IsSet(m)
  BY Made
<1> HIDE DEF m
<1>2. o \in Seq(Outgoing) /\ Len(o) = Len(out) + 1 /\ o[Len(out) + 1] = m
  BY <1>1, AppendProperties
<1>3. PICK n \in Nat : n = Len(out)
  BY LenProperties
<1>4. o # <<>>
  BY <1>2, <1>3, EmptySeq
<1>5. CASE out = <<>>
  <2>1. n = 0
    BY <1>3, <1>5, EmptySeq
  <2>2. o[1] = m
    BY <1>2, <1>3, <2>1
  <2> QED
    BY <1>1, <1>2, <1>4, <1>5, <2>2 DEF Asking, m
<1>6. CASE out # <<>>
  <2>1. 1 \in 1 .. n
    BY <1>3, <1>6, EmptySeq
  <2>2. o[1] = out[1]
    BY <1>1, <1>3, <2>1, Longer
  <2> QED
    BY <1>2, <1>4, <1>6, <2>2 DEF Asking, m
<1> QED
  BY <1>5, <1>6

\* zoo_awget() and its like preserve the invariant.
LEMMA RequestStep ==
    ASSUME WatchesInv, Request
    PROVE  WatchesInv'
<1>1. Typed /\ Nodes /\ Zxids /\ Fresh /\ Shown /\ Reset /\ Lined /\ Paid
  BY DEF WatchesInv
<1>2. PICK r \in Requests : /\ sentRequests' = Append(sentRequests, r)
                            /\ outbox' = Append(outbox, [request |-> r])
  BY DEF Request
<1>3. /\ UNCHANGED <<tables, lastZxid, conn, ready, stack, inbox, node, zxid, serverData,
                     serverChild, since, seen, owed, errors>>
      /\ requests < MaxRequests /\ requests' = requests + 1
  BY DEF Request, ghosts
<1>4. outbox \in Seq(Outgoing) /\ sentRequests \in Seq(Requests)
  BY <1>1 DEF Typed, TypeOK
<1>5. Typed'
  <2>1. outbox' \in Seq(Outgoing) /\ sentRequests' \in Seq(Requests)
    BY <1>2, <1>4, AskingAppend, AppendProperties
  <2>2. requests' \in 0 .. MaxRequests
    BY <1>1, <1>3, WatchesAssumption DEF WatchesAssumption, Typed, TypeOK
  <2> QED
    BY <1>1, <1>3, <2>1, <2>2 DEF Typed, TypeOK
<1>6. Nodes' /\ Zxids' /\ Fresh' /\ Shown' /\ Paid'
  BY <1>1, <1>3, PartsKept
<1>7. Reset'
  <2>1. /\ Asking(outbox') <=> Asking(outbox)
        /\ Asking(outbox) => outbox'[1] = outbox[1]
    BY <1>2, <1>4, AskingAppend DEF Asking
  <2> QED
    BY <1>1, <1>3, <2>1 DEF Reset, Waits, WatchedPaths
<1>8. Lined'
  <2> SUFFICES ASSUME conn # "failed"
               PROVE  \E n \in 0 .. Len(sentRequests') :
                          /\ Queued(outbox', sentRequests', n)
                          /\ \E at : Answers(at, n, sentRequests', inbox, node, serverData,
                                             serverChild)
    BY <1>3 DEF Lined
  <2>1. PICK n \in 0 .. Len(sentRequests) :
            /\ Queued(outbox, sentRequests, n)
            /\ \E at : Answers(at, n, sentRequests, inbox, node, serverData, serverChild)
    BY <1>1 DEF Lined
  <2>2. PICK at : Answers(at, n, sentRequests, inbox, node, serverData, serverChild)
    BY <2>1
  <2>3. /\ Queued(outbox', sentRequests', n) /\ n \in 0 .. Len(sentRequests')
        /\ \A j \in 1 .. n : sentRequests'[j] = sentRequests[j]
    BY <1>2, <1>4, <2>1, QueuedAppend
  <2>4. Answers(at, n, sentRequests', inbox, node, serverData, serverChild)
    BY <2>2, <2>3 DEF Answers
  <2> QED
    BY <2>3, <2>4
<1> QED
  BY <1>5, <1>6, <1>7, <1>8 DEF WatchesInv

\* A frame is put on the stack, or the one on top of it taken off.
LEMMA StackChange ==
    ASSUME NEW st \in Seq(Frames)
    PROVE  /\ \A f \in Frames : Append(st, f) \in Seq(Frames)
           /\ st # <<>> => /\ SubSeq(st, 1, Len(st) - 1) \in Seq(Frames)
                           /\ st[Len(st)] \in Frames
           /\ \A f, g \in Frames : st \o <<f, g>> = Append(Append(st, f), g)
<1>1. ASSUME NEW f \in Frames, NEW g \in Frames
      PROVE  st \o <<f, g>> = Append(Append(st, f), g)
  BY <1>1
<1> QED
  BY <1>1, AppendProperties, PopFacts

\* The establishment of a session preserves the invariant: nothing came on the new
\* connection yet, and what the tables need is asked for first.
LEMMA EstablishStep ==
    ASSUME WatchesInv, Establish
    PROVE  WatchesInv'
<1> DEFINE c == [session |-> SessionWatchers]
<1>1. Typed /\ Nodes /\ Zxids /\ Fresh /\ Shown /\ Reset /\ Lined /\ Paid
  BY DEF WatchesInv
<1>2. /\ conn = "down" /\ conn' = "up" /\ outbox' = WithSetWatches(outbox)
      /\ ready' = Append(ready, c) /\ stack' = Append(stack, Completions)
      /\ UNCHANGED <<tables, lastZxid, sentRequests, inbox, node, zxid, serverData,
                     serverChild, since, seen, owed, errors, requests>>
  BY DEF Establish, ghosts
<1>3. /\ tables \in [Kinds -> [Paths -> SUBSET Watchers]] /\ lastZxid \in Nat /\ seen \in Nat
      /\ ready \in Seq(Ready) /\ stack \in Seq(Frames) /\ owed \in [Watchers -> Int]
      /\ outbox \in Seq(Outgoing) /\ sentRequests \in Seq(Requests)
  BY <1>1, WatchesAssumption DEF WatchesAssumption, Typed, TypeOK
<1>4. c \in Ready /\ Has(c, "session") /\ ~Has(c, "event") /\ ~Has(c, "seen")
  <2>1. SessionWatchers \in SUBSET Watchers
    BY <1>3, WatchesAssumption DEF WatchesAssumption, SessionWatchers
  <2> QED
    BY <2>1, Made
<1>5. SetWatchesPacket \in Outgoing /\ IsSet(SetWatchesPacket)
      /\ SetWatchesPacket.setWatches = [zxid |-> lastZxid, paths |-> WatchedPaths]
  <2>1. WatchedPaths \in [Kinds -> SUBSET Paths]
    BY DEF WatchedPaths
  <2>2. [zxid |-> lastZxid, paths |-> WatchedPaths] \in SetWatches
    BY <1>3, <2>1 DEF SetWatches
  <2> QED
    BY <2>2, Made DEF SetWatchesPacket
<1>6. ~Asking(outbox) /\ inbox = <<>> /\ serverData = {} /\ serverChild = {}
  BY <1>1, <1>2 DEF Reset, Nodes
<1>7. PICK n \in 0 .. Len(sentRequests) :
          /\ Queued(outbox, sentRequests, n)
          /\ \E at : Answers(at, n, sentRequests, inbox, node, serverData, serverChild)
  BY <1>1, <1>2 DEF Lined
<1>8. \/ outbox' = outbox /\ \A k \in Kinds : WatchedPaths[k] = {}
      \/ outbox' = <<SetWatchesPacket>> \o outbox
  BY <1>2 DEF WithSetWatches
<1>9. /\ outbox' \in Seq(Outgoing) /\ Queued(outbox', sentRequests, n)
      /\ outbox' # outbox => Asking(outbox') /\ outbox'[1] = SetWatchesPacket
  BY <1>3, <1>5, <1>6, <1>7, <1>8, QueuedFront
<1> HIDE DEF c
<1>10. Typed'
  <2>1. stack' \in Seq(Frames) /\ ready' \in Seq(Ready)
    BY <1>2, <1>3, <1>4, FramesMade, AppendProperties
  <2> QED
    BY <1>1, <1>2, <1>9, <2>1 DEF Typed, TypeOK
<1>11. Nodes'
  BY <1>1, <1>2, <1>6 DEF Nodes
<1>12. Zxids' /\ Fresh'
  BY <1>1, <1>2, PartsKept
<1>13. Shown'
  <2>1. Shows(ready, seen, lastZxid) /\ lastZxid <= lastZxid
    BY <1>1, <1>3 DEF Shown
  <2>2. Shows(Append(ready, c), seen, lastZxid)
    BY <1>3, <1>4, <2>1, ShowsAppend
  <2> QED
    BY <1>2, <2>2 DEF Shown
<1>14. Reset'
  <2>1. CASE outbox' = outbox
    <3>1. \A k \in Kinds : WatchedPaths[k] = {}
      <4>1. CASE \A k \in Kinds : WatchedPaths[k] = {}
        BY <4>1
      <4>2. CASE outbox' = <<SetWatchesPacket>> \o outbox
        <5>1. Asking(<<SetWatchesPacket>> \o outbox)
          BY <1>3, <1>5, <1>6, <1>7, QueuedFront
        <5> QED
          BY <1>6, <2>1, <4>2, <5>1
      <4> QED
        BY <1>8, <4>1, <4>2
    <3>2. \A k \in Kinds, p \in Paths : ~Waits(k, p)
      BY <3>1 DEF WatchedPaths, Waits
    <3> QED
      BY <1>2, <1>6, <2>1, <3>2 DEF Reset, Waits
  <2>2. CASE outbox' # outbox
    BY <1>2, <1>5, <1>6, <1>9, <2>2 DEF Reset, WatchedPaths
  <2> QED
    BY <2>1, <2>2
<1>15. Lined'
  BY <1>2, <1>7, <1>9 DEF Lined
<1>16. Paid'
  <2>1. Covers(tables, ready', stack, owed)
    BY <1>1, <1>2, <1>3, <1>4, CoversReady DEF Paid
  <2>2. Covers(tables, ready', Append(stack, Completions), owed)
    <3>1. ready' \in Seq(Ready)
      BY <1>2, <1>3, <1>4, AppendProperties
    <3> QED
      BY <1>3, <2>1, <3>1, FramesMade, CoversPush
  <2> QED
    BY <1>2, <2>2 DEF Paid
<1> QED
  BY <1>10, <1>11, <1>12, <1>13, <1>14, <1>15, <1>16 DEF WatchesInv

\* The start of handle_error() preserves the invariant.
LEMMA HandleErrorStep ==
    ASSUME WatchesInv, HandleError
    PROVE  WatchesInv'
<1> DEFINE c == [session |-> SessionWatchers]
           f == [fn |-> "handleError"]
<1>1. Typed /\ Nodes /\ Zxids /\ Fresh /\ Shown /\ Reset /\ Lined /\ Paid
  BY DEF WatchesInv
<1>2. /\ conn # "failed" /\ errors < MaxErrors /\ errors' = errors + 1
      /\ \/ conn = "down" /\ stack' = Append(stack, f) /\ UNCHANGED <<conn, ready>>
         \/ /\ conn # "down" /\ conn' = "failed" /\ ready' = Append(ready, c)
            /\ stack' = stack \o <<f, Completions>>
      /\ inbox' = <<>> /\ serverData' = {} /\ serverChild' = {}
      /\ UNCHANGED <<tables, lastZxid, sentRequests, outbox, node, zxid, since, seen, owed,
                     requests>>
  BY DEF HandleError, ghosts
<1>3. /\ tables \in [Kinds -> [Paths -> SUBSET Watchers]] /\ lastZxid \in Nat /\ seen \in Nat
      /\ ready \in Seq(Ready) /\ stack \in Seq(Frames) /\ owed \in [Watchers -> Int]
      /\ errors \in 0 .. MaxErrors /\ inbox \in Seq(Incoming)
  BY <1>1, WatchesAssumption DEF WatchesAssumption, Typed, TypeOK
<1>4. c \in Ready /\ Has(c, "session") /\ ~Has(c, "event") /\ ~Has(c, "seen")
  <2>1. SessionWatchers \in SUBSET Watchers
    BY <1>3, WatchesAssumption DEF WatchesAssumption, SessionWatchers
  <2> QED
    BY <2>1, Made
<1>5. f \in Frames /\ Completions \in Frames
      /\ \A w : f \notin Deliveries(w) /\ Completions \notin Deliveries(w)
  BY FramesMade
<1> HIDE DEF c, f
<1>6. Append(stack, f) \in Seq(Frames) /\ stack \o <<f, Completions>> = Append(Append(stack, f), Completions)
      /\ Append(Append(stack, f), Completions) \in Seq(Frames) /\ Append(ready, c) \in Seq(Ready)
  BY <1>3, <1>4, <1>5, StackChange, AppendProperties
<1>7. Typed'
  <2>1. /\ stack' \in Seq(Frames) /\ ready' \in Seq(Ready)
        /\ conn' \in {"down", "up", "failed"}
    BY <1>2, <1>3, <1>6
  <2>2. errors' \in 0 .. MaxErrors
    BY <1>2, <1>3, WatchesAssumption DEF WatchesAssumption
  <2>3. inbox' \in Seq(Incoming)
    BY <1>2
  <2> QED
    BY <1>1, <1>2, <2>1, <2>2, <2>3 DEF Typed, TypeOK
<1>8. Nodes'
  BY <1>1, <1>2 DEF Nodes
<1>9. Zxids'
  <2>1. Ordered(inbox', lastZxid, zxid)
    BY <1>2 DEF Ordered
  <2> QED
    BY <1>1, <1>2, <2>1 DEF Zxids, Waits
<1>10. Fresh'
  BY <1>1, <1>2, PartsKept
<1>11. Shown'
  <2>1. Shows(ready, seen, lastZxid) /\ lastZxid <= lastZxid
    BY <1>1, <1>3 DEF Shown
  <2>2. Shows(Append(ready, c), seen, lastZxid)
    BY <1>3, <1>4, <2>1, ShowsAppend
  <2> QED
    BY <1>2, <2>1, <2>2 DEF Shown
<1>12. Reset'
  BY <1>1, <1>2 DEF Reset
<1>13. Lined'
  <2>1. CASE conn = "down"
    <3>1. inbox = <<>> /\ serverData = {} /\ serverChild = {}
      BY <1>1, <2>1 DEF Nodes
    <3> QED
      BY <1>1, <1>2, <2>1, <3>1, PartsKept
  <2>2. CASE conn # "down"
    BY <1>2, <2>2 DEF Lined
  <2> QED
    BY <2>1, <2>2
<1>14. Paid'
  <2>1. Covers(tables, ready, Append(stack, f), owed)
    BY <1>1, <1>3, <1>5, CoversPush DEF Paid
  <2>2. Covers(tables, Append(ready, c), Append(stack, f), owed)
    BY <1>3, <1>4, <2>1, CoversReady
  <2>3. Covers(tables, Append(ready, c), Append(Append(stack, f), Completions), owed)
    BY <1>3, <1>5, <1>6, <2>2, CoversPush
  <2> QED
    BY <1>2, <1>6, <2>1, <2>3 DEF Paid
<1> QED
  BY <1>7, <1>8, <1>9, <1>10, <1>11, <1>12, <1>13, <1>14 DEF WatchesInv

\* Its end preserves the invariant: the faked replies register nothing.
LEMMA HandleErrorTailStep ==
    ASSUME WatchesInv, HandleErrorTail
    PROVE  WatchesInv'
<1> DEFINE n == Len(sentRequests)
           faked == [i \in 1 .. n |-> [seen |-> 0]]
<1>1. Typed /\ Nodes /\ Zxids /\ Fresh /\ Shown /\ Reset /\ Lined /\ Paid
  BY DEF WatchesInv
<1>2. /\ stack # <<>> /\ conn' = "down"
      /\ outbox' = <<>> /\ inbox' = <<>> /\ serverData' = {} /\ serverChild' = {}
      /\ sentRequests' = <<>> /\ ready' = ready \o faked /\ stack' = Append(Below, Completions)
      /\ UNCHANGED <<tables, lastZxid, node, zxid, since, seen, owed, errors, requests>>
  BY DEF HandleErrorTail, ghosts, TopIs
<1>3. /\ ready \in Seq(Ready) /\ stack \in Seq(Frames) /\ owed \in [Watchers -> Int]
      /\ lastZxid \in Nat /\ n \in Nat
  BY <1>1, WatchesAssumption, LenProperties DEF WatchesAssumption, Typed, TypeOK
<1> HIDE DEF n
<1>4. /\ ready \o faked \in Seq(Ready) /\ Shows(ready \o faked, seen, lastZxid)
      /\ Covers(tables, ready \o faked, stack, owed)
  BY <1>1, <1>3, ShowsFailed, CoversFailed DEF Shown, Paid
<1> HIDE DEF faked
<1>5. Below \in Seq(Frames) /\ Append(Below, Completions) \in Seq(Frames)
  BY <1>2, <1>3, StackChange, FramesMade DEF Below
<1>6. Typed'
  <2>1. /\ outbox' \in Seq(Outgoing) /\ inbox' \in Seq(Incoming) /\ sentRequests' \in Seq(Requests)
        /\ stack' \in Seq(Frames) /\ ready' \in Seq(Ready) /\ conn' \in {"down", "up", "failed"}
    BY <1>2, <1>4, <1>5
  <2> QED
    BY <1>1, <1>2, <2>1 DEF Typed, TypeOK
<1>7. Nodes'
  BY <1>1, <1>2 DEF Nodes
<1>8. Zxids'
  <2>1. Ordered(inbox', lastZxid, zxid)
    BY <1>2 DEF Ordered
  <2> QED
    BY <1>1, <1>2, <2>1 DEF Zxids, Waits
<1>9. Fresh'
  BY <1>1, <1>2, PartsKept
<1>10. Shown'
  BY <1>2, <1>4 DEF Shown
<1>11. Reset'
  BY <1>2 DEF Reset, Asking
<1>12. Lined'
  <2>1. Queued(<<>>, <<>>, 0)
    BY DEF Queued, Skipped, Asking
  <2>2. Answers([j \in 1 .. 0 |-> 1], 0, <<>>, <<>>, node, {}, {})
    <3>1. Positions([j \in 1 .. 0 |-> 1], 0, <<>>)
      BY NoReplies
    <3> QED
      BY <3>1 DEF Answers
  <2>3. 0 \in 0 .. Len(<<>>)
    OBVIOUS
  <2> QED
    BY <1>2, <2>1, <2>2, <2>3 DEF Lined
<1>13. Paid'
  <2>1. Covers(tables, ready \o faked, Below, owed)
    BY <1>2, <1>3, <1>4, CoversPop DEF Below
  <2>2. Covers(tables, ready \o faked, Append(Below, Completions), owed)
    BY <1>4, <1>5, <2>1, FramesMade, CoversPush
  <2> QED
    BY <1>2, <2>2 DEF Paid
<1> QED
  BY <1>6, <1>7, <1>8, <1>9, <1>10, <1>11, <1>12, <1>13 DEF WatchesInv

\* A completion that shows the application a state preserves the invariant.
LEMMA RunCompletionStep ==
    ASSUME WatchesInv, RunCompletion
    PROVE  WatchesInv'
<1>1. Typed /\ Nodes /\ Zxids /\ Fresh /\ Shown /\ Reset /\ Lined /\ Paid
  BY DEF WatchesInv
<1>2. /\ ready # <<>> /\ Has(Head(ready), "seen") /\ ready' = Tail(ready)
      /\ seen' = IF Head(ready).seen > seen THEN Head(ready).seen ELSE seen
      /\ UNCHANGED <<tables, lastZxid, conn, sentRequests, stack, outbox, inbox, node, zxid,
                     serverData, serverChild, since, owed, errors, requests>>
  BY DEF RunCompletion, server
<1>3. /\ ready \in Seq(Ready) /\ stack \in Seq(Frames) /\ owed \in [Watchers -> Int]
      /\ lastZxid \in Nat /\ seen \in Nat
  BY <1>1, WatchesAssumption DEF WatchesAssumption, Typed, TypeOK
<1>4. Tail(ready) \in Seq(Ready) /\ Head(ready) = ready[1] /\ ready[1] \in Ready
  BY <1>2, <1>3, Shorter
<1>5. ready[1].seen \in Nat
  BY <1>2, <1>4, ReadyKinds
<1>6. seen' \in Nat /\ (seen' = seen \/ seen' = ready[1].seen)
  BY <1>2, <1>3, <1>4, <1>5
<1>7. Typed'
  BY <1>1, <1>2, <1>4, <1>6 DEF Typed, TypeOK
<1>8. Nodes' /\ Zxids' /\ Fresh' /\ Reset' /\ Lined'
  BY <1>1, <1>2, PartsKept
<1>9. Shown'
  <2>1. Shows(Tail(ready), seen', lastZxid)
    BY <1>1, <1>2, <1>3, <1>4, <1>6, ShowsTail DEF Shown
  <2> QED
    BY <1>2, <2>1 DEF Shown
<1>10. Paid'
  BY <1>1, <1>2, <1>3, CoversTail DEF Paid
<1> QED
  BY <1>7, <1>8, <1>9, <1>10 DEF WatchesInv

\* What is called for an event has its registration, and for a session needs none.
LEMMA CallStep ==
    ASSUME Typed, NEW rd \in Seq(Ready), NEW base \in Seq(Frames), NEW ws \in SUBSET Watchers,
           NEW session \in BOOLEAN, CallOneOf(base, ws, session), Covers(tables, rd, base, owed),
           ~session => \A w \in ws : Cardinality(Entries(tables, w)) + Count(rd, Lists(w))
                                         + Count(base, Deliveries(w)) + 1 <= owed[w]
    PROVE  /\ stack' \in Seq(Frames) /\ owed' \in [Watchers -> Int]
           /\ Covers(tables, rd, stack', owed')
<1>1. PICK w \in ws :
          /\ stack' = Append(base, [fn |-> "watcher", todo |-> ws \ {w}, session |-> session])
          /\ owed' = IF session THEN owed ELSE [owed EXCEPT ![w] = @ - 1]
  BY DEF CallOneOf
<1> DEFINE f == [fn |-> "watcher", todo |-> ws \ {w}, session |-> session]
<1>2. f \in Frames /\ f.todo = ws \ {w} /\ f.session = session
  BY FramesMade
<1>3. stack' = Append(base, f)
  BY <1>1
<1> HIDE DEF f
<1>4. stack' \in Seq(Frames)
  BY <1>2, <1>3, AppendProperties
<1>5. owed \in [Watchers -> Int]
  BY DEF Typed
<1>6. CASE session
  <2>1. \A v : f \notin Deliveries(v)
    BY <1>2, <1>6, NotDelivering
  <2>2. Covers(tables, rd, Append(base, f), owed)
    BY <1>2, <2>1, CoversPush
  <2> QED
    BY <1>1, <1>3, <1>4, <1>5, <1>6, <2>2
<1>7. CASE ~session
  <2>1. Covers(tables, rd, Append(base, f), [owed EXCEPT ![w] = @ - 1])
    BY <1>2, <1>5, <1>7, CoversCall
  <2>2. owed' = [owed EXCEPT ![w] = @ - 1]
    BY <1>1, <1>7
  <2>3. owed' \in [Watchers -> Int]
    BY <1>5, <2>2
  <2> QED
    BY <1>3, <1>4, <2>1, <2>2, <2>3
<1> QED
  BY <1>6, <1>7

\* deliverWatchers() preserves the invariant.
LEMMA DeliverWatchersStep ==
    ASSUME WatchesInv, DeliverWatchers
    PROVE  WatchesInv'
<1> DEFINE c == ready[1]
           ws == IF Has(c, "session") THEN c.session ELSE c.watchers
<1>1. Typed /\ Nodes /\ Zxids /\ Fresh /\ Shown /\ Reset /\ Lined /\ Paid
  BY DEF WatchesInv
<1>2. ready \in Seq(Ready) /\ stack \in Seq(Frames) /\ owed \in [Watchers -> Int]
      /\ lastZxid \in Nat /\ seen \in Nat
  BY <1>1, WatchesAssumption DEF WatchesAssumption, Typed, TypeOK
<1>3. ready # <<>> /\ TopIs("completions")
  BY DEF DeliverWatchers
<1>4. Tail(ready) \in Seq(Ready) /\ Head(ready) = c /\ c \in Ready
  BY <1>2, <1>3, Shorter
<1>5. /\ ~Has(c, "seen") /\ ready' = Tail(ready)
      /\ IF ws = {} THEN UNCHANGED <<stack, owed>> ELSE CallOneOf(stack, ws, Has(c, "session"))
      /\ UNCHANGED <<tables, lastZxid, conn, sentRequests, outbox, inbox, node, zxid,
                     serverData, serverChild, since, seen, errors, requests>>
  BY <1>4 DEF DeliverWatchers, server
<1>6. /\ ws \in SUBSET Watchers /\ Has(c, "session") \in BOOLEAN
      /\ ~Has(c, "session") => \A w \in ws : c \in Lists(w)
  BY <1>4, <1>5, ReadyKinds DEF Lists, Has
<1>7. /\ Covers(tables, Tail(ready), stack, owed)
      /\ ~Has(c, "session") =>
             \A w \in ws : Cardinality(Entries(tables, w)) + Count(Tail(ready), Lists(w))
                               + Count(stack, Deliveries(w)) + 1 <= owed[w]
  BY <1>1, <1>2, <1>3, <1>6, CoversTail DEF Paid
<1> HIDE DEF ws
<1>8. /\ stack' \in Seq(Frames) /\ owed' \in [Watchers -> Int]
      /\ Covers(tables, Tail(ready), stack', owed')
  <2>1. CASE ws = {}
    BY <1>2, <1>5, <1>7, <2>1
  <2>2. CASE ws # {}
    <3>1. CallOneOf(stack, ws, Has(c, "session"))
      BY <1>5, <2>2
    <3> QED
      BY <1>1, <1>2, <1>4, <1>6, <1>7, <3>1, CallStep
  <2> QED
    BY <2>1, <2>2
<1>9. Typed'
  BY <1>1, <1>4, <1>5, <1>8 DEF Typed, TypeOK
<1>10. Nodes' /\ Zxids' /\ Fresh' /\ Reset' /\ Lined'
  BY <1>1, <1>5, PartsKept
<1>11. Shown'
  <2>1. Shows(Tail(ready), seen, lastZxid)
    BY <1>1, <1>2, <1>3, ShowsTail DEF Shown
  <2> QED
    BY <1>5, <2>1 DEF Shown
<1>12. Paid'
  BY <1>5, <1>8 DEF Paid
<1> QED
  BY <1>9, <1>10, <1>11, <1>12 DEF WatchesInv

\* So does the next turn of do_foreach_watcher().
LEMMA NextWatcherStep ==
    ASSUME WatchesInv, NextWatcher
    PROVE  WatchesInv'
<1>1. Typed /\ Nodes /\ Zxids /\ Fresh /\ Shown /\ Reset /\ Lined /\ Paid
  BY DEF WatchesInv
<1>2. ready \in Seq(Ready) /\ stack \in Seq(Frames) /\ owed \in [Watchers -> Int]
  BY <1>1 DEF Typed, TypeOK
<1>3. /\ stack # <<>> /\ Top.fn = "watcher" /\ CallOneOf(Below, Top.todo, Top.session)
      /\ UNCHANGED <<tables, lastZxid, conn, sentRequests, ready, outbox, inbox, node, zxid,
                     serverData, serverChild, since, seen, errors, requests>>
  BY DEF NextWatcher, TopIs, server
<1>4. /\ Below \in Seq(Frames) /\ Top \in Frames
      /\ Top.todo \in SUBSET Watchers /\ Top.session \in BOOLEAN
  <2>1. Below \in Seq(Frames) /\ Top \in Frames
    BY <1>2, <1>3, StackChange DEF Below, Top
  <2> QED
    BY <1>3, <2>1, FramesMade
<1>5. ~Top.session => \A w \in Top.todo : Top \in Deliveries(w)
  BY <1>3, <1>4 DEF Deliveries
<1>6. /\ Covers(tables, ready, Below, owed)
      /\ ~Top.session =>
             \A w \in Top.todo : Cardinality(Entries(tables, w)) + Count(ready, Lists(w))
                                     + Count(Below, Deliveries(w)) + 1 <= owed[w]
  BY <1>1, <1>2, <1>3, <1>4, <1>5, CoversPop DEF Paid, Below, Top
<1>7. /\ stack' \in Seq(Frames) /\ owed' \in [Watchers -> Int]
      /\ Covers(tables, ready, stack', owed')
  BY <1>1, <1>2, <1>3, <1>4, <1>6, CallStep
<1>8. Typed'
  BY <1>1, <1>3, <1>7 DEF Typed, TypeOK
<1>9. Nodes' /\ Zxids' /\ Fresh' /\ Shown' /\ Reset' /\ Lined'
  BY <1>1, <1>3, PartsKept
<1>10. Paid'
  BY <1>3, <1>7 DEF Paid
<1> QED
  BY <1>8, <1>9, <1>10 DEF WatchesInv

\* And the return of a function.
LEMMA ReturnStep ==
    ASSUME WatchesInv, Return
    PROVE  WatchesInv'
<1>1. Typed /\ Nodes /\ Zxids /\ Fresh /\ Shown /\ Reset /\ Lined /\ Paid
  BY DEF WatchesInv
<1>2. ready \in Seq(Ready) /\ stack \in Seq(Frames) /\ owed \in [Watchers -> Int]
  BY <1>1 DEF Typed, TypeOK
<1>3. /\ stack # <<>> /\ stack' = Below
      /\ UNCHANGED <<tables, lastZxid, conn, sentRequests, ready, outbox, inbox, node, zxid,
                     serverData, serverChild, since, seen, owed, errors, requests>>
  BY DEF Return, TopIs, server, ghosts
<1>4. Below \in Seq(Frames)
  BY <1>2, <1>3, StackChange DEF Below
<1>5. Typed'
  BY <1>1, <1>3, <1>4 DEF Typed, TypeOK
<1>6. Nodes' /\ Zxids' /\ Fresh' /\ Shown' /\ Reset' /\ Lined'
  BY <1>1, <1>3, PartsKept
<1>7. Paid'
  <2>1. Covers(tables, ready, Below, owed)
    BY <1>1, <1>2, <1>3, CoversPop DEF Paid, Below
  <2> QED
    BY <1>3, <2>1 DEF Paid
<1> QED
  BY <1>5, <1>6, <1>7 DEF WatchesInv

\* What the invariant says of the packet that is handled next, and of last_zxid after it.
LEMMA PacketFacts ==
    ASSUME WatchesInv, conn = "up", inbox # <<>>,
           NEW last, last = IF IsHeader(inbox[1]) THEN inbox[1].zxid ELSE lastZxid
    PROVE  /\ ~Asking(outbox)
           /\ inbox[1] \in Incoming /\ Tail(inbox) \in Seq(Incoming) /\ Head(inbox) = inbox[1]
           /\ last \in 0 .. 1 + MaxWrites /\ lastZxid <= last /\ last <= zxid
           /\ IsHeader(inbox[1]) => last > 0
           /\ IsEvent(inbox[1]) => lastZxid < inbox[1].event.zxid
           /\ Ordered(Tail(inbox), last, zxid)
           /\ \A k \in Kinds, p \in Paths : Waits(k, p) =>
                 /\ ~Collecting(inbox[1], k, p) =>
                        Safe(Tail(inbox), node, serverData, serverChild, k, p, since[k][p], 0)
                 /\ Passed(node, k, p, since[k][p]) => last < Change(node, k, p)
<1>1. Typed /\ Nodes /\ Zxids /\ Fresh /\ Reset
  BY DEF WatchesInv
<1>2. /\ inbox \in Seq(Incoming) /\ lastZxid \in 0 .. 1 + MaxWrites /\ zxid \in 1 .. 1 + MaxWrites
      /\ MaxWrites \in Nat
  BY <1>1, WatchesAssumption DEF WatchesAssumption, Typed, TypeOK
<1>3. ~Asking(outbox)
  BY <1>1 DEF Reset
<1>4. /\ inbox[1] \in Incoming /\ Tail(inbox) \in Seq(Incoming) /\ Head(inbox) = inbox[1]
      /\ Len(inbox) \in Nat /\ 1 \in 1 .. Len(inbox)
  BY <1>2, Shorter
<1>5. Ordered(inbox, lastZxid, zxid) /\ lastZxid <= zxid
  BY <1>1 DEF Zxids
<1>6. Ordered(Tail(inbox), last, zxid)
  BY <1>2, <1>5, OrderedShifts
<1>7. /\ IsHeader(inbox[1]) => inbox[1].zxid \in 1 .. zxid /\ lastZxid <= inbox[1].zxid
      /\ IsEvent(inbox[1]) => lastZxid < inbox[1].event.zxid
  BY <1>4, <1>5 DEF Ordered
<1>8. /\ last \in 0 .. 1 + MaxWrites /\ lastZxid <= last /\ last <= zxid
      /\ IsHeader(inbox[1]) => last > 0
  BY <1>2, <1>5, <1>7
<1>9. ASSUME NEW k \in Kinds, NEW p \in Paths, Waits(k, p)
      PROVE  /\ ~Collecting(inbox[1], k, p) =>
                    Safe(Tail(inbox), node, serverData, serverChild, k, p, since[k][p], 0)
             /\ Passed(node, k, p, since[k][p]) => last < Change(node, k, p)
  <2>1. Safe(inbox, node, serverData, serverChild, k, p, since[k][p], 0)
    BY <1>1, <1>3, <1>9 DEF Reset
  <2>2. ASSUME ~Collecting(inbox[1], k, p)
        PROVE  Safe(Tail(inbox), node, serverData, serverChild, k, p, since[k][p], 0)
    <3>1. 0 \in 0 .. Len(inbox) /\ 0 \in Nat /\ 0 = IF 0 = 0 THEN 0 ELSE 0 - 1
      BY <1>4
    <3> QED
      BY <1>2, <2>1, <2>2, <3>1, SafeShifts
  <2>3. ASSUME Passed(node, k, p, since[k][p])
        PROVE  last < Change(node, k, p)
    <3>1. lastZxid < Change(node, k, p)
      BY <1>1, <1>9, <2>3 DEF Fresh
    <3>2. Change(node, k, p) \in 1 .. zxid
      BY <1>1 DEF Nodes
    <3>3. CASE IsHeader(inbox[1])
      <4>1. ~Told(inbox, k, p, 0, 1)
        BY DEF Told
      <4>2. 1 \in 0 + 1 .. Len(inbox)
        BY <1>4
      <4>3. ~(inbox[1].zxid >= Change(node, k, p))
        BY <2>1, <2>3, <3>3, <4>1, <4>2 DEF Safe
      <4> QED
        BY <1>7, <3>2, <3>3, <4>3
    <3>4. CASE ~IsHeader(inbox[1])
      BY <3>1, <3>4
    <3> QED
      BY <3>3, <3>4
  <2> QED
    BY <2>2, <2>3
<1> QED
  BY <1>3, <1>4, <1>6, <1>7, <1>8, <1>9

\* A reply preserves the invariant: what it registers, the server watches or has
\* reported behind it.
LEMMA ProcessReplyStep ==
    ASSUME WatchesInv, ProcessReply
    PROVE  WatchesInv'
<1> DEFINE m == inbox[1]
           r == sentRequests[1]
           ks == ResultChecker(r.op, m.reply)
<1>1. Typed /\ Nodes /\ Zxids /\ Fresh /\ Shown /\ Reset /\ Lined /\ Paid
  BY DEF WatchesInv
<1>2. /\ tables \in [Kinds -> [Paths -> SUBSET Watchers]] /\ ready \in Seq(Ready)
      /\ stack \in Seq(Frames) /\ owed \in [Watchers -> Int] /\ sentRequests \in Seq(Requests)
      /\ inbox \in Seq(Incoming) /\ since \in [Kinds -> [Paths -> Nat]] /\ lastZxid \in Nat
      /\ outbox \in Seq(Outgoing) /\ seen \in Nat
  BY <1>1, WatchesAssumption DEF WatchesAssumption, Typed, TypeOK
<1>3. conn = "up" /\ inbox # <<>> /\ sentRequests # <<>> /\ IsReply(Head(inbox))
  BY DEF ProcessReply, Received, IsReply
<1>4. Head(inbox) = m /\ Head(sentRequests) = r /\ r \in Requests /\ m \in Incoming
      /\ Tail(sentRequests) \in Seq(Requests)
  BY <1>2, <1>3, Shorter
<1>5. /\ IsReply(m) /\ IsHeader(m) /\ ~IsEvent(m) /\ m.zxid \in Nat
      /\ r.watcher \in SUBSET Watchers /\ r.path \in Paths
  <2>1. IsReply(m) /\ IsHeader(m) /\ ~IsEvent(m) /\ m.zxid \in Nat
    BY <1>3, <1>4, IncomingKinds
  <2>2. r.watcher \in Registrations /\ r.path \in Paths
    BY <1>4 DEF Requests
  <2> QED
    BY <2>1, <2>2 DEF Registrations
<1>6. /\ ~Asking(outbox) /\ Tail(inbox) \in Seq(Incoming)
      /\ m.zxid \in 0 .. 1 + MaxWrites /\ lastZxid <= m.zxid /\ m.zxid <= zxid /\ m.zxid > 0
      /\ Ordered(Tail(inbox), m.zxid, zxid)
      /\ \A k \in Kinds, p \in Paths : Waits(k, p) =>
            /\ ~Collecting(m, k, p) =>
                   Safe(Tail(inbox), node, serverData, serverChild, k, p, since[k][p], 0)
            /\ Passed(node, k, p, since[k][p]) => m.zxid < Change(node, k, p)
  BY <1>3, <1>5, PacketFacts
<1>7. /\ inbox' = Tail(inbox) /\ sentRequests' = Tail(sentRequests)
      /\ lastZxid' = NewLastZxid(m.zxid) /\ ActivateWatcher(r, m.reply)
      /\ since' = [i \in Kinds |-> [p \in Paths |->
                      IF i \in ks /\ p = r.path /\ r.watcher # {} THEN m.zxid ELSE since[i][p]]]
      /\ owed' = [w \in Watchers |-> owed[w] + IF ks # {} /\ w \in r.watcher THEN 1 ELSE 0]
      /\ ready' = Append(ready, [seen |-> m.zxid])
      /\ stack' = Append(stack, Completions)
      /\ UNCHANGED <<conn, outbox, node, zxid, serverData, serverChild, seen, errors, requests>>
  BY <1>4 DEF ProcessReply
<1>8. lastZxid' = m.zxid
  BY <1>6, <1>7 DEF NewLastZxid
<1>9. \E x \in Kinds : ks \in {{}, {x}}
  BY DEF ResultChecker, Kinds
<1> HIDE DEF m, r, ks
<1>10. \A k \in Kinds, p \in Paths :
           /\ tables'[k][p] = IF k \in ks /\ p = r.path
                                THEN tables[k][p] \cup r.watcher ELSE tables[k][p]
           /\ since'[k][p] = IF k \in ks /\ p = r.path /\ r.watcher # {}
                               THEN m.zxid ELSE since[k][p]
  BY <1>7 DEF ActivateWatcher, ks
<1>11. tables' \in [Kinds -> [Paths -> SUBSET Watchers]]
  BY <1>2, <1>5, <1>7 DEF ActivateWatcher
<1>12. PICK n \in 0 .. Len(sentRequests) :
           /\ Queued(outbox, sentRequests, n)
           /\ \E at : Answers(at, n, sentRequests, inbox, node, serverData, serverChild)
  BY <1>1, <1>3 DEF Lined
<1>13. PICK at : Answers(at, n, sentRequests, inbox, node, serverData, serverChild)
  BY <1>12
<1>14. /\ n # 0 /\ Vouched(inbox, node, serverData, serverChild, r, 1)
       /\ \E a : Answers(a, n - 1, Tail(sentRequests), Tail(inbox), node, serverData, serverChild)
  <2>1. n \in Nat /\ n <= Len(sentRequests)
    BY <1>2, <1>12, LenProperties
  <2> QED
    BY <1>2, <1>3, <1>5, <1>13, <2>1, AnswersShift DEF m, r
<1>15. \A k \in ks : r.watcher # {} =>
           /\ Safe(Tail(inbox), node, serverData, serverChild, k, r.path, m.zxid, 0)
           /\ Kept(node, k, r.path, m.zxid)
  <2> SUFFICES ASSUME NEW k \in ks, r.watcher # {}
               PROVE  /\ Safe(Tail(inbox), node, serverData, serverChild, k, r.path, m.zxid, 0)
                      /\ Kept(node, k, r.path, m.zxid)
    OBVIOUS
  <2>1. /\ Safe(inbox, node, serverData, serverChild, k, r.path, m.zxid, 1)
        /\ Kept(node, k, r.path, m.zxid)
    BY <1>14 DEF Vouched, m, ks
  <2>2. 1 \in 0 .. Len(inbox) /\ 0 \in Nat /\ 0 = IF 1 = 0 THEN 0 ELSE 1 - 1
    BY <1>2, <1>3, Shorter
  <2>3. Safe(Tail(inbox), node, serverData, serverChild, k, r.path, m.zxid, 0)
    BY <1>2, <1>3, <2>1, <2>2, SafeShifts
  <2> QED
    BY <2>1, <2>3
<1>16. \A k \in Kinds, p \in Paths : tables'[k][p] # {} =>
           \/ k \in ks /\ p = r.path /\ r.watcher # {} /\ since'[k][p] = m.zxid
           \/ Waits(k, p) /\ since'[k][p] = since[k][p]
  BY <1>10 DEF Waits
<1>17. Typed'
  <2>1. since' \in [Kinds -> [Paths -> Nat]]
    BY <1>2, <1>5, <1>7
  <2>2. owed' \in [Watchers -> Int]
    BY <1>2, <1>7
  <2>3. ready' \in Seq(Ready) /\ stack' \in Seq(Frames)
    BY <1>2, <1>5, <1>7, Made, FramesMade, AppendProperties
  <2>4. /\ inbox' \in Seq(Incoming) /\ sentRequests' \in Seq(Requests)
        /\ lastZxid' \in 0 .. 1 + MaxWrites
    BY <1>4, <1>6, <1>7, <1>8
  <2> QED
    BY <1>1, <1>7, <1>11, <2>1, <2>2, <2>3, <2>4 DEF Typed, TypeOK
<1>18. Nodes'
  BY <1>1, <1>3, <1>7 DEF Nodes
<1>19. Zxids'
  <2>1. ASSUME NEW k \in Kinds, NEW p \in Paths, tables'[k][p] # {}
        PROVE  since'[k][p] <= m.zxid
    <3>1. CASE since'[k][p] = m.zxid
      BY <1>5, <3>1
    <3>2. CASE Waits(k, p) /\ since'[k][p] = since[k][p]
      <4>1. since[k][p] <= lastZxid /\ since[k][p] \in Nat
        BY <1>1, <1>2, <3>2 DEF Zxids
      <4> QED
        BY <1>2, <1>5, <1>6, <3>2, <4>1
    <3> QED
      BY <1>16, <2>1, <3>1, <3>2
  <2>2. m.zxid <= zxid /\ Ordered(Tail(inbox), m.zxid, zxid)
    BY <1>6
  <2> QED
    BY <1>7, <1>8, <2>1, <2>2 DEF Zxids, Waits
<1>20. Fresh'
  <2>1. ASSUME NEW k \in Kinds, NEW p \in Paths, tables'[k][p] # {}
        PROVE  /\ Passed(node, k, p, since'[k][p]) => m.zxid < Change(node, k, p)
               /\ Kept(node, k, p, since'[k][p])
    <3>1. CASE k \in ks /\ p = r.path /\ r.watcher # {} /\ since'[k][p] = m.zxid
      <4>1. Change(node, k, p) \in Nat
        BY <1>1 DEF Nodes
      <4> QED
        BY <1>5, <1>15, <3>1, <4>1 DEF Passed
    <3>2. CASE Waits(k, p) /\ since'[k][p] = since[k][p]
      BY <1>1, <1>6, <3>2 DEF Fresh
    <3> QED
      BY <1>16, <2>1, <3>1, <3>2
  <2> QED
    BY <1>7, <1>8, <2>1 DEF Fresh, Waits
<1>21. Shown'
  <2> DEFINE c == [seen |-> m.zxid]
  <2>1. c \in Ready /\ Has(c, "seen") /\ ~Has(c, "event") /\ c.seen = m.zxid
    BY <1>5, Made
  <2> HIDE DEF c
  <2>2. Shows(ready, seen, lastZxid) /\ lastZxid <= m.zxid /\ c.seen <= m.zxid
    BY <1>1, <1>5, <1>6, <2>1 DEF Shown
  <2>3. Shows(Append(ready, c), seen, m.zxid)
    BY <1>2, <1>5, <2>1, <2>2, ShowsAppend
  <2> QED
    BY <1>7, <1>8, <2>3 DEF Shown, c
<1>22. Reset'
  <2>1. ASSUME NEW k \in Kinds, NEW p \in Paths, tables'[k][p] # {}
        PROVE  Safe(Tail(inbox), node, serverData, serverChild, k, p, since'[k][p], 0)
    <3>1. ~Collecting(m, k, p)
      BY <1>5 DEF Collecting
    <3> QED
      BY <1>6, <1>15, <1>16, <2>1, <3>1
  <2> QED
    BY <1>3, <1>6, <1>7, <2>1 DEF Reset, Waits
<1>23. Lined'
  <2>1. Len(outbox) \in Nat
    BY <1>2, LenProperties
  <2>2. n - 1 \in 0 .. Len(Tail(sentRequests)) /\ Queued(outbox, Tail(sentRequests), n - 1)
    BY <1>2, <1>3, <1>12, <1>14, <2>1, QueuedShift
  <2> QED
    BY <1>7, <1>14, <2>2 DEF Lined
<1>24. Paid'
  <2> DEFINE c == [seen |-> m.zxid]
  <2>1. c \in Ready /\ ~Has(c, "event")
    BY <1>5, Made
  <2> HIDE DEF c
  <2>2. owed' \in [Watchers -> Int]
    BY <1>2, <1>7
  <2>3. PICK x \in Kinds : ks \in {{}, {x}}
    BY <1>9 DEF ks
  <2>4. \A w \in Watchers : owed'[w] = owed[w] + IF ks # {} /\ w \in r.watcher THEN 1 ELSE 0
    BY <1>7
  <2>5. Covers(tables', ready, stack, owed')
    <3>1. \A k \in Kinds, i \in Paths : tables'[k][i] =
              IF k \in ks /\ i = r.path THEN tables[k][i] \cup r.watcher ELSE tables[k][i]
      BY <1>10
    <3>2. Registers(tables, owed, tables', owed', ks, r.path, r.watcher)
      BY <2>2, <2>3, <2>4, <3>1 DEF Registers
    <3> QED
      BY <1>1, <1>2, <3>2, CoversRegister DEF Paid
  <2>6. Covers(tables', Append(ready, c), stack, owed')
    BY <1>2, <2>1, <2>5, CoversReady
  <2>7. Append(ready, c) \in Seq(Ready)
    BY <1>2, <2>1, AppendProperties
  <2>8. Covers(tables', Append(ready, c), Append(stack, Completions), owed')
    BY <1>2, <2>6, <2>7, FramesMade, CoversPush
  <2> QED
    BY <1>7, <2>8 DEF Paid, c
<1> QED
  BY <1>17, <1>18, <1>19, <1>20, <1>21, <1>22, <1>23, <1>24 DEF WatchesInv

\* The answer to SetWatches preserves the invariant.
LEMMA ProcessSetWatchesStep ==
    ASSUME WatchesInv, ProcessSetWatches
    PROVE  WatchesInv'
<1> DEFINE m == inbox[1]
<1>1. Typed /\ Nodes /\ Zxids /\ Fresh /\ Shown /\ Reset /\ Lined /\ Paid
  BY DEF WatchesInv
<1>2. /\ ready \in Seq(Ready) /\ stack \in Seq(Frames) /\ inbox \in Seq(Incoming)
      /\ lastZxid \in Nat /\ seen \in Nat /\ since \in [Kinds -> [Paths -> Nat]]
  BY <1>1, WatchesAssumption DEF WatchesAssumption, Typed, TypeOK
<1>3. conn = "up" /\ inbox # <<>> /\ IsSet(Head(inbox))
  BY DEF ProcessSetWatches, Received, IsSet
<1>4. Head(inbox) = m /\ m \in Incoming
  BY <1>2, <1>3, Shorter
<1>5. IsHeader(m) /\ ~IsReply(m) /\ ~IsEvent(m) /\ m.zxid \in Nat
  BY <1>3, <1>4, IncomingKinds
<1>6. /\ ~Asking(outbox) /\ Tail(inbox) \in Seq(Incoming)
      /\ m.zxid \in 0 .. 1 + MaxWrites /\ lastZxid <= m.zxid /\ m.zxid <= zxid /\ m.zxid > 0
      /\ Ordered(Tail(inbox), m.zxid, zxid)
      /\ \A k \in Kinds, p \in Paths : Waits(k, p) =>
            /\ ~Collecting(m, k, p) =>
                   Safe(Tail(inbox), node, serverData, serverChild, k, p, since[k][p], 0)
            /\ Passed(node, k, p, since[k][p]) => m.zxid < Change(node, k, p)
  BY <1>3, <1>5, PacketFacts
<1>7. /\ inbox' = Tail(inbox) /\ lastZxid' = NewLastZxid(m.zxid)
      /\ stack' = Append(stack, Completions)
      /\ UNCHANGED <<tables, conn, sentRequests, ready, outbox, node, zxid, serverData,
                     serverChild, since, seen, owed, errors, requests>>
  BY <1>4 DEF ProcessSetWatches, ghosts
<1>8. lastZxid' = m.zxid
  BY <1>6, <1>7 DEF NewLastZxid
<1> HIDE DEF m
<1>9. Typed'
  <2>1. stack' \in Seq(Frames)
    BY <1>2, <1>7, FramesMade, AppendProperties
  <2> QED
    BY <1>1, <1>6, <1>7, <1>8, <2>1 DEF Typed, TypeOK
<1>10. Nodes'
  BY <1>1, <1>3, <1>7 DEF Nodes
<1>11. Zxids'
  <2>1. ASSUME NEW k \in Kinds, NEW p \in Paths, Waits(k, p)
        PROVE  since[k][p] <= m.zxid
    <3>1. since[k][p] <= lastZxid /\ since[k][p] \in Nat
      BY <1>1, <1>2, <2>1 DEF Zxids
    <3> QED
      BY <1>2, <1>5, <1>6, <3>1
  <2>2. m.zxid <= zxid /\ Ordered(Tail(inbox), m.zxid, zxid)
    BY <1>6
  <2> QED
    BY <1>7, <1>8, <2>1, <2>2 DEF Zxids, Waits
<1>12. Fresh'
  <2>1. ASSUME NEW k \in Kinds, NEW p \in Paths, Waits(k, p)
        PROVE  /\ Passed(node, k, p, since[k][p]) => m.zxid < Change(node, k, p)
               /\ Kept(node, k, p, since[k][p])
    BY <1>1, <1>6, <2>1 DEF Fresh
  <2> QED
    BY <1>7, <1>8, <2>1 DEF Fresh, Waits
<1>13. Shown'
  <2>1. seen <= m.zxid /\ \A i \in 1 .. Len(ready) : Has(ready[i], "seen") => ready[i].seen <= m.zxid
    <3>1. seen <= lastZxid
      BY <1>1 DEF Shown, Shows
    <3>2. ASSUME NEW i \in 1 .. Len(ready), Has(ready[i], "seen")
          PROVE  ready[i].seen <= m.zxid
      <4>1. ready[i].seen <= lastZxid
        BY <1>1, <3>2 DEF Shown, Shows
      <4>2. ready[i].seen \in Nat
        BY <1>2, <3>2, ReadyKinds, ElementOfSeq
      <4> QED
        BY <1>2, <1>5, <1>6, <4>1, <4>2
    <3> QED
      BY <1>2, <1>5, <1>6, <3>1, <3>2
  <2> QED
    BY <1>1, <1>7, <1>8, <2>1 DEF Shown, Shows
<1>14. Reset'
  <2>1. ASSUME NEW k \in Kinds, NEW p \in Paths, Waits(k, p)
        PROVE  Safe(Tail(inbox), node, serverData, serverChild, k, p, since[k][p], 0)
    <3>1. ~Collecting(m, k, p)
      BY <1>5 DEF Collecting
    <3> QED
      BY <1>6, <2>1, <3>1
  <2> QED
    BY <1>3, <1>6, <1>7, <2>1 DEF Reset, Waits
<1>15. Lined'
  <2>1. PICK n \in 0 .. Len(sentRequests) :
            /\ Queued(outbox, sentRequests, n)
            /\ \E at : Answers(at, n, sentRequests, inbox, node, serverData, serverChild)
    BY <1>1, <1>3 DEF Lined
  <2>2. \E a : Answers(a, n, sentRequests, Tail(inbox), node, serverData, serverChild)
    BY <1>2, <1>3, <1>5, <2>1, AnswersPass DEF m
  <2> QED
    BY <1>7, <2>1, <2>2 DEF Lined
<1>16. Paid'
  BY <1>1, <1>2, <1>7, FramesMade, CoversPush DEF Paid
<1> QED
  BY <1>9, <1>10, <1>11, <1>12, <1>13, <1>14, <1>15, <1>16 DEF WatchesInv

\* A watch event preserves the invariant.
LEMMA ProcessEventStep ==
    ASSUME WatchesInv, ProcessEvent
    PROVE  WatchesInv'
<1> DEFINE m == inbox[1]
           e == m.event
           c == [event |-> e, watchers |-> Collected(e)]
<1>1. Typed /\ Nodes /\ Zxids /\ Fresh /\ Shown /\ Reset /\ Lined /\ Paid
  BY DEF WatchesInv
<1>2. /\ ready \in Seq(Ready) /\ stack \in Seq(Frames) /\ inbox \in Seq(Incoming)
      /\ lastZxid \in Nat /\ seen \in Nat /\ since \in [Kinds -> [Paths -> Nat]]
      /\ tables \in [Kinds -> [Paths -> SUBSET Watchers]] /\ owed \in [Watchers -> Int]
  BY <1>1, WatchesAssumption DEF WatchesAssumption, Typed, TypeOK
<1>3. conn = "up" /\ inbox # <<>> /\ IsEvent(Head(inbox))
  BY DEF ProcessEvent, Received, IsEvent
<1>4. Head(inbox) = m /\ m \in Incoming
  BY <1>2, <1>3, Shorter
<1>5. /\ IsEvent(m) /\ ~IsReply(m) /\ ~IsHeader(m) /\ e \in Events
      /\ e.path \in Paths /\ e.zxid \in Nat /\ Collects(e.type) \in SUBSET Kinds
  <2>1. IsEvent(m) /\ ~IsReply(m) /\ ~IsHeader(m) /\ e \in Events
    BY <1>3, <1>4, IncomingKinds
  <2>2. e.path \in Paths /\ e.zxid \in Nat /\ e.type \in Types
    BY <2>1 DEF Events
  <2> QED
    BY <2>1, <2>2 DEF Collects, Kinds, Types
<1>6. /\ ~Asking(outbox) /\ Tail(inbox) \in Seq(Incoming)
      /\ lastZxid <= zxid /\ lastZxid < e.zxid /\ Ordered(Tail(inbox), lastZxid, zxid)
      /\ \A k \in Kinds, p \in Paths : Waits(k, p) =>
            /\ ~Collecting(m, k, p) =>
                   Safe(Tail(inbox), node, serverData, serverChild, k, p, since[k][p], 0)
            /\ Passed(node, k, p, since[k][p]) => lastZxid < Change(node, k, p)
  BY <1>3, <1>5, PacketFacts
<1>7. /\ inbox' = Tail(inbox) /\ lastZxid' = NewLastZxid(-1) /\ tables' = Remaining(e)
      /\ ready' = Append(ready, c) /\ stack' = Append(stack, Completions)
      /\ UNCHANGED <<conn, sentRequests, outbox, node, zxid, serverData, serverChild, since,
                     seen, owed, errors, requests>>
  BY <1>4 DEF ProcessEvent, ghosts
<1>8. lastZxid' = lastZxid
  BY <1>7 DEF NewLastZxid
<1>9. /\ c \in Ready /\ Has(c, "event") /\ ~Has(c, "seen")
      /\ c.event = e /\ c.watchers = UNION {tables[k][e.path] : k \in Collects(e.type)}
  <2>1. Collected(e) \in SUBSET Watchers
    BY <1>2, <1>5 DEF Collected
  <2> QED
    BY <1>5, <2>1, Made DEF Collected
<1> HIDE DEF m, c
<1>10. \A k \in Kinds, i \in Paths :
           tables'[k][i] = IF k \in Collects(e.type) /\ i = e.path THEN {} ELSE tables[k][i]
  BY <1>7 DEF Remaining
<1>11. tables' \in [Kinds -> [Paths -> SUBSET Watchers]]
  BY <1>2, <1>7 DEF Remaining
<1>12. \A k \in Kinds, p \in Paths : tables'[k][p] # {} => Waits(k, p) /\ ~Collecting(m, k, p)
  BY <1>10 DEF Waits, Collecting
<1>13. Typed'
  <2>1. stack' \in Seq(Frames) /\ ready' \in Seq(Ready)
    BY <1>2, <1>7, <1>9, FramesMade, AppendProperties
  <2> QED
    BY <1>1, <1>6, <1>7, <1>8, <1>11, <2>1 DEF Typed, TypeOK
<1>14. Nodes'
  BY <1>1, <1>3, <1>7 DEF Nodes
<1>15. Zxids'
  BY <1>1, <1>6, <1>7, <1>8, <1>12 DEF Zxids, Waits
<1>16. Fresh'
  <2>1. \A k \in Kinds, p \in Paths : tables'[k][p] # {} =>
            /\ Passed(node, k, p, since[k][p]) => lastZxid < Change(node, k, p)
            /\ Kept(node, k, p, since[k][p])
    BY <1>1, <1>12 DEF Fresh
  <2> QED
    BY <1>7, <1>8, <2>1 DEF Fresh, Waits
<1>17. Shown'
  <2>1. Shows(ready, seen, lastZxid) /\ lastZxid <= lastZxid
    BY <1>1, <1>2 DEF Shown
  <2>2. Shows(Append(ready, c), seen, lastZxid)
    BY <1>2, <1>6, <1>9, <2>1, ShowsAppend
  <2> QED
    BY <1>7, <1>8, <2>2 DEF Shown
<1>18. Reset'
  <2>1. \A k \in Kinds, p \in Paths : tables'[k][p] # {} =>
            Safe(Tail(inbox), node, serverData, serverChild, k, p, since[k][p], 0)
    BY <1>6, <1>12
  <2> QED
    BY <1>3, <1>6, <1>7, <2>1 DEF Reset, Waits
<1>19. Lined'
  <2>1. PICK n \in 0 .. Len(sentRequests) :
            /\ Queued(outbox, sentRequests, n)
            /\ \E at : Answers(at, n, sentRequests, inbox, node, serverData, serverChild)
    BY <1>1, <1>3 DEF Lined
  <2>2. \E a : Answers(a, n, sentRequests, Tail(inbox), node, serverData, serverChild)
    BY <1>2, <1>3, <1>5, <2>1, AnswersPass DEF m
  <2> QED
    BY <1>7, <2>1, <2>2 DEF Lined
<1>20. Paid'
  <2>1. Covers(tables', Append(ready, c), stack, owed)
    <3>1. Moves(tables, tables', Collects(e.type), e.path, c.watchers)
      BY <1>5, <1>9, <1>10 DEF Moves
    <3> QED
      BY <1>1, <1>2, <1>9, <3>1, CoversCollect DEF Paid
  <2>2. Append(ready, c) \in Seq(Ready)
    BY <1>2, <1>9, AppendProperties
  <2>3. Covers(tables', Append(ready, c), Append(stack, Completions), owed)
    BY <1>2, <2>1, <2>2, FramesMade, CoversPush
  <2> QED
    BY <1>7, <2>3 DEF Paid
<1> QED
  BY <1>13, <1>14, <1>15, <1>16, <1>17, <1>18, <1>19, <1>20 DEF WatchesInv

\* The answer to a read preserves the invariant: it shows the last change, and the watch
\* is set with it.
LEMMA ServerReplyStep ==
    ASSUME WatchesInv, ServerReply
    PROVE  WatchesInv'
<1> DEFINE r == outbox[1].request
           rc == IF node[r.path].exists THEN "ZOK" ELSE "ZNONODE"
           m == [reply |-> rc, zxid |-> zxid]
<1>1. Typed /\ Nodes /\ Zxids /\ Fresh /\ Shown /\ Reset /\ Lined /\ Paid
  BY DEF WatchesInv
<1>2. /\ inbox \in Seq(Incoming) /\ outbox \in Seq(Outgoing) /\ sentRequests \in Seq(Requests)
      /\ lastZxid \in Nat /\ zxid \in Nat /\ zxid >= 1 /\ node \in [Paths -> Node]
      /\ serverData \in SUBSET Paths /\ serverChild \in SUBSET Paths
  BY <1>1, WatchesAssumption DEF WatchesAssumption, Typed, TypeOK
<1>3. conn = "up" /\ outbox # <<>> /\ Has(Head(outbox), "request")
  BY DEF ServerReply
<1>4. Head(outbox) = outbox[1] /\ outbox[1] \in Outgoing /\ Tail(outbox) \in Seq(Outgoing)
  BY <1>2, <1>3, Shorter
<1>5. /\ ~IsSet(outbox[1]) /\ r \in Requests /\ r.path \in Paths /\ r.op \in Ops
      /\ r.watcher \in Registrations
  <2>1. ~IsSet(outbox[1]) /\ r \in Requests
    BY <1>3, <1>4, OutgoingKinds
  <2> QED
    BY <2>1 DEF Requests
<1>6. ~Asking(outbox)
  BY <1>5 DEF Asking
<1>7. /\ outbox' = Tail(outbox) /\ inbox' = Append(inbox, m)
      /\ serverData' = IF r.op = "exists" \/ (r.op = "get" /\ rc = "ZOK")
                         THEN serverData \cup (IF r.watcher = {} THEN {} ELSE {r.path})
                         ELSE serverData
      /\ serverChild' = IF r.op = "getChildren" /\ rc = "ZOK"
                          THEN serverChild \cup (IF r.watcher = {} THEN {} ELSE {r.path})
                          ELSE serverChild
      /\ UNCHANGED <<node, zxid, tables, lastZxid, conn, sentRequests, ready, stack, since,
                     seen, owed, errors, requests>>
  BY <1>4 DEF ServerReply, client, ghosts
<1>8. /\ m \in Incoming /\ IsReply(m) /\ IsHeader(m) /\ ~IsEvent(m)
      /\ m.reply = rc /\ m.zxid = zxid
  BY <1>2, Made
<1>9. /\ serverData \subseteq serverData' /\ serverData' \in SUBSET Paths
      /\ serverChild \subseteq serverChild' /\ serverChild' \in SUBSET Paths
  BY <1>2, <1>5, <1>7
<1>10. Append(inbox, m) \in Seq(Incoming) /\ Append(inbox, m)[Len(inbox) + 1] = m
       /\ Len(Append(inbox, m)) = Len(inbox) + 1 /\ Len(inbox) \in Nat
  BY <1>2, <1>8, Longer
<1>11. r.watcher # {} => \A k \in ResultChecker(r.op, rc) :
           /\ Held(serverData', serverChild', k, r.path)
           /\ (k = "exist") # node[r.path].exists /\ k \in Kinds
  <2> SUFFICES ASSUME r.watcher # {}, NEW k \in ResultChecker(r.op, rc)
               PROVE  /\ Held(serverData', serverChild', k, r.path)
                      /\ (k = "exist") # node[r.path].exists /\ k \in Kinds
    OBVIOUS
  <2>1. node[r.path].exists \in BOOLEAN
    BY <1>2, <1>5 DEF Node
  <2>2. CASE r.op = "get"
    BY <1>7, <2>1, <2>2 DEF ResultChecker, Held, Kinds
  <2>3. CASE r.op = "exists"
    BY <1>7, <2>1, <2>3 DEF ResultChecker, Held, Kinds
  <2>4. CASE r.op = "getChildren"
    BY <1>7, <2>1, <2>4 DEF ResultChecker, Held, Kinds
  <2> QED
    BY <1>5, <2>2, <2>3, <2>4 DEF Ops
<1> HIDE DEF m
<1>12. Vouched(Append(inbox, m), node, serverData', serverChild', r, Len(inbox) + 1)
  <2> DEFINE q == Append(inbox, m)
             l == Len(inbox)
  <2> SUFFICES ASSUME r.watcher # {}, NEW k \in ResultChecker(r.op, rc)
               PROVE  /\ Safe(q, node, serverData', serverChild', k, r.path, zxid, l + 1)
                      /\ Kept(node, k, r.path, zxid)
    BY <1>8, <1>10 DEF Vouched
  <2>1. /\ Held(serverData', serverChild', k, r.path)
        /\ (k = "exist") # node[r.path].exists /\ k \in Kinds
    BY <1>11
  <2>2. Change(node, k, r.path) \in 1 .. zxid
    BY <1>1, <1>5, <2>1 DEF Nodes
  <2>3. ~Passed(node, k, r.path, zxid)
    BY <1>2, <2>2 DEF Passed
  <2> QED
    BY <2>1, <2>3 DEF Safe, Kept
<1>13. Typed'
  BY <1>1, <1>4, <1>7, <1>9, <1>10 DEF Typed, TypeOK
<1>14. Nodes'
  <2>1. \A p \in serverChild' : node[p].exists
    BY <1>1, <1>7 DEF Nodes
  <2> QED
    BY <1>1, <1>3, <1>7, <2>1 DEF Nodes
<1>15. Zxids'
  <2>1. Ordered(inbox, lastZxid, zxid) /\ lastZxid <= zxid /\ zxid <= zxid
    BY <1>1, <1>2 DEF Zxids
  <2>2. Ordered(Append(inbox, m), lastZxid, zxid)
    BY <1>2, <1>8, <2>1, OrderedGrows
  <2> QED
    BY <1>1, <1>7, <2>2 DEF Zxids, Waits
<1>16. Fresh' /\ Shown' /\ Paid'
  BY <1>1, <1>7, PartsKept
<1>17. PICK n \in 0 .. Len(sentRequests) :
           /\ Queued(outbox, sentRequests, n)
           /\ \E at : Answers(at, n, sentRequests, inbox, node, serverData, serverChild)
  BY <1>1, <1>3 DEF Lined
<1>18. /\ ~Asking(Tail(outbox)) /\ n + 1 \in 0 .. Len(sentRequests)
       /\ r = sentRequests[n + 1] /\ Queued(Tail(outbox), sentRequests, n + 1)
  BY <1>2, <1>3, <1>6, <1>17, QueuedTail
<1>19. Reset'
  <2>1. ASSUME NEW k \in Kinds, NEW p \in Paths, Waits(k, p)
        PROVE  Safe(Append(inbox, m), node, serverData', serverChild', k, p, since[k][p], 0)
    <3>1. Safe(inbox, node, serverData, serverChild, k, p, since[k][p], 0)
      BY <1>1, <1>3, <1>6, <2>1 DEF Reset
    <3>2. 0 \in 0 .. Len(inbox)
      BY <1>10
    <3> QED
      BY <1>2, <1>8, <1>9, <3>1, <3>2, SafeGrows
  <2> QED
    BY <1>3, <1>7, <1>18, <2>1 DEF Reset, Waits
<1>20. Lined'
  <2>1. PICK at : Answers(at, n, sentRequests, inbox, node, serverData, serverChild)
    BY <1>17
  <2>2. n \in Nat
    BY <1>2, <1>17, LenProperties
  <2>3. \E a : Answers(a, n + 1, sentRequests, Append(inbox, m), node, serverData', serverChild')
    BY <1>2, <1>8, <1>9, <1>12, <1>18, <2>1, <2>2, AnswersReply
  <2> QED
    BY <1>7, <1>18, <2>3 DEF Lined
<1> QED
  BY <1>13, <1>14, <1>15, <1>16, <1>19, <1>20 DEF WatchesInv

\* A finite set as a sequence.
LEMMA SetToSeqFacts ==
    ASSUME NEW T, NEW S \in SUBSET T, IsFiniteSet(S)
    PROVE  /\ SetToSeq(S) \in Seq(T)
           /\ \A i \in 1 .. Len(SetToSeq(S)) : SetToSeq(S)[i] \in S
           /\ \A x \in S : \E i \in 1 .. Len(SetToSeq(S)) : SetToSeq(S)[i] = x
<1> DEFINE n == Cardinality(S)
           f == SetToSeq(S)
<1>1. n \in Nat /\ ExistsBijection(1 .. n, S)
  BY FS_CardinalityType
<1>2. PICK g : g \in Bijection(1 .. n, S)
  BY <1>1 DEF ExistsBijection
<1>3. g \in [1 .. n -> S] /\ IsInjective(g)
  BY <1>2 DEF Bijection, Injection
<1>4. f \in [1 .. n -> S] /\ IsInjective(f)
  BY <1>3 DEF SetToSeq
<1> HIDE DEF f
<1>5. f \in Injection(1 .. n, S)
  BY <1>4 DEF Injection
<1>6. IsFiniteSet(1 .. n) /\ Cardinality(1 .. n) = n
  <2>1. Cardinality(1 .. n) = IF 1 > n THEN 0 ELSE n - 1 + 1
    BY <1>1, FS_Interval
  <2> QED
    BY <1>1, <2>1, FS_Interval
<1>7. f \in Surjection(1 .. n, S)
  BY <1>5, <1>6, FS_Injection
<1> HIDE DEF n
<1>8. \A x \in S : \E i \in 1 .. n : f[i] = x
  BY <1>7 DEF Surjection
<1>9. f \in Seq(S) /\ Len(f) = n
  BY <1>1, <1>4, IsASeq, LenProperties
<1>10. f \in Seq(T)
  BY <1>1, <1>4, IsASeq
<1> QED
  BY <1>4, <1>8, <1>9, <1>10 DEF f

\* The events that answer a request to set the watches.
Fired(s) == UNION {UNION {{WatchEvent(t, p, LastChange(k, p)) : t \in Missed(k, p, s.zxid)} :
                             p \in s.paths[k]} : k \in Kinds}

\* The paths whose watches were not missed.
Set(s, k) == {p \in s.paths[k] : Missed(k, p, s.zxid) = {}}

\* The events are finitely many, each for a watch that was missed, and each such watch has one.
LEMMA FiredFacts ==
    ASSUME Nodes, zxid \in Nat, NEW s \in SetWatches
    PROVE  /\ IsFiniteSet(Fired(s)) /\ Fired(s) \in SUBSET Incoming
           /\ \A m \in Fired(s) :
                 \E k \in Kinds : \E p \in s.paths[k] : \E t \in Missed(k, p, s.zxid) :
                     m = WatchEvent(t, p, Change(node, k, p))
           /\ \A k \in Kinds : \A p \in s.paths[k] : Missed(k, p, s.zxid) # {} =>
                 \E m \in Fired(s) : Collecting(m, k, p)
<1>1. \A k \in Kinds, p \in Paths : LastChange(k, p) = Change(node, k, p)
  BY DEF LastChange, Change
<1>2. \A k \in Kinds : s.paths[k] \in SUBSET Paths
  BY DEF SetWatches
<1>3. \A k, p, z : Missed(k, p, z) \in SUBSET Types
  BY DEF Missed
<1>4. ASSUME NEW m \in Fired(s)
      PROVE  \E k \in Kinds : \E p \in s.paths[k] : \E t \in Missed(k, p, s.zxid) :
                 m = WatchEvent(t, p, Change(node, k, p))
  BY <1>1, <1>2, <1>4 DEF Fired
<1>5. Fired(s) \in SUBSET Incoming
  <2> SUFFICES ASSUME NEW m \in Fired(s)
               PROVE  m \in Incoming
    OBVIOUS
  <2>1. PICK k \in Kinds, p \in Paths, t \in Types : m = WatchEvent(t, p, Change(node, k, p))
    BY <1>2, <1>3, <1>4
  <2>2. Change(node, k, p) \in Nat
    BY DEF Nodes
  <2>3. [type |-> t, path |-> p, zxid |-> Change(node, k, p)] \in Events
    BY <2>2 DEF Events
  <2> QED
    BY <2>1, <2>3, Made DEF WatchEvent
<1>6. IsFiniteSet(Fired(s))
  <2> DEFINE D == Types \X (Kinds \X Paths)
             f == [d \in D |-> WatchEvent(d[1], d[2][2], Change(node, d[2][1], d[2][2]))]
             R == {f[d] : d \in D}
  <2>1. IsFiniteSet(D)
    <3>1. IsFiniteSet(Types)
      <4>1. Types = (({} \cup {"CREATED"}) \cup {"CHANGED"}) \cup {"DELETED"} \cup {"CHILD"}
        BY DEF Types
      <4> QED
        BY <4>1, FS_EmptySet, FS_AddElement
    <3>2. IsFiniteSet(Kinds)
      <4>1. Kinds = ({} \cup {"node"} \cup {"exist"}) \cup {"child"}
        BY DEF Kinds
      <4> QED
        BY <4>1, FS_EmptySet, FS_AddElement
    <3>3. IsFiniteSet(Kinds \X Paths)
      BY <3>2, FS_Product, WatchesAssumption DEF WatchesAssumption
    <3> QED
      BY <3>1, <3>3, FS_Product
  <2>2. Fired(s) \in SUBSET R
    <3> SUFFICES ASSUME NEW m \in Fired(s)
                 PROVE  \E d \in D : m = f[d]
      OBVIOUS
    <3>1. PICK k \in Kinds, p \in Paths, t \in Types : m = WatchEvent(t, p, Change(node, k, p))
      BY <1>2, <1>3, <1>4
    <3>2. <<t, <<k, p>>>> \in D
      OBVIOUS
    <3>3. f[<<t, <<k, p>>>>] = WatchEvent(t, p, Change(node, k, p))
      BY <3>2
    <3> QED
      BY <3>1, <3>2, <3>3
  <2>3. f \in Surjection(D, R)
    <3> HIDE DEF D
    <3>1. f \in [D -> R]
      OBVIOUS
    <3>2. \A x \in R : \E d \in D : f[d] = x
      OBVIOUS
    <3> QED
      BY <3>1, <3>2 DEF Surjection
  <2> HIDE DEF D, f, R
  <2> QED
    BY <2>1, <2>2, <2>3, FS_Surjection, FS_Subset
<1>7. ASSUME NEW k \in Kinds, NEW p \in s.paths[k], Missed(k, p, s.zxid) # {}
      PROVE  \E m \in Fired(s) : Collecting(m, k, p)
  <2>1. PICK t \in Missed(k, p, s.zxid) : TRUE
    BY <1>7
  <2>2. k \in Collects(t) /\ t \in Types
    BY <2>1 DEF Missed, Collects, Kinds
  <2> DEFINE m == WatchEvent(t, p, LastChange(k, p))
  <2>3. m \in Fired(s)
    BY <2>1 DEF Fired
  <2>4. Collecting(m, k, p)
    BY <2>2 DEF Collecting, IsEvent, Has, WatchEvent
  <2> QED
    BY <2>3, <2>4
<1> QED
  BY <1>4, <1>5, <1>6, <1>7

\* A server that has read a request to set the watches preserves the invariant: for each
\* path it has a watch or an event with it, and no event for what was already shown.
LEMMA ServerSetWatchesStep ==
    ASSUME WatchesInv, ServerSetWatches
    PROVE  WatchesInv'
<1> DEFINE s == outbox[1].setWatches
           q == SetToSeq(Fired(s))
           m == [setWatches |-> "ZOK", zxid |-> zxid]
<1>1. Typed /\ Nodes /\ Zxids /\ Fresh /\ Shown /\ Reset /\ Lined /\ Paid
  BY DEF WatchesInv
<1>2. /\ inbox \in Seq(Incoming) /\ outbox \in Seq(Outgoing) /\ sentRequests \in Seq(Requests)
      /\ lastZxid \in Nat /\ zxid \in Nat /\ zxid >= 1 /\ node \in [Paths -> Node]
      /\ serverData \in SUBSET Paths /\ serverChild \in SUBSET Paths
      /\ since \in [Kinds -> [Paths -> Nat]]
  BY <1>1, WatchesAssumption DEF WatchesAssumption, Typed, TypeOK
<1>3. conn = "up" /\ outbox # <<>> /\ IsSet(Head(outbox))
  BY DEF ServerSetWatches, IsSet
<1>4. Head(outbox) = outbox[1] /\ outbox[1] \in Outgoing /\ Tail(outbox) \in Seq(Outgoing)
  BY <1>2, <1>3, Shorter
<1>5. s \in SetWatches /\ Asking(outbox)
  BY <1>3, <1>4, OutgoingKinds DEF Asking
<1>6. /\ inbox = <<>> /\ serverData = {} /\ serverChild = {}
      /\ s = [zxid |-> lastZxid, paths |-> WatchedPaths]
  BY <1>1, <1>3, <1>5 DEF Reset
<1>7. /\ outbox' = Tail(outbox) /\ inbox' = inbox \o q \o <<m>>
      /\ serverData' = serverData \cup Set(s, "node") \cup Set(s, "exist")
      /\ serverChild' = serverChild \cup Set(s, "child")
      /\ UNCHANGED <<node, zxid, tables, lastZxid, conn, sentRequests, ready, stack, since,
                     seen, owed, errors, requests>>
  <2>1. /\ outbox' = Tail(outbox) /\ inbox' = inbox \o SetToSeq(Fired(Head(outbox).setWatches)) \o <<m>>
        /\ serverData' = serverData \cup Set(Head(outbox).setWatches, "node")
                             \cup Set(Head(outbox).setWatches, "exist")
        /\ serverChild' = serverChild \cup Set(Head(outbox).setWatches, "child")
    BY Zenon DEF ServerSetWatches, Fired, Set
  <2>2. UNCHANGED <<node, zxid, tables, lastZxid, conn, sentRequests, ready, stack, since,
                    seen, owed, errors, requests>>
    BY DEF ServerSetWatches, client, ghosts
  <2> QED
    BY <1>4, <2>1, <2>2
<1>8. /\ Fired(s) \in SUBSET Incoming /\ q \in Seq(Incoming)
      /\ \A i \in 1 .. Len(q) : q[i] \in Fired(s)
      /\ \A x \in Fired(s) : \E i \in 1 .. Len(q) : q[i] = x
  BY <1>1, <1>2, <1>5, FiredFacts, SetToSeqFacts
<1>9. m \in Incoming /\ ~IsReply(m) /\ IsHeader(m) /\ ~IsEvent(m) /\ m.zxid = zxid
  BY <1>2, Made
<1> HIDE DEF q, m
<1>10. /\ inbox' = Append(q, m) /\ Append(q, m) \in Seq(Incoming)
       /\ Append(q, m)[Len(q) + 1] = m /\ Len(Append(q, m)) = Len(q) + 1 /\ Len(q) \in Nat
       /\ \A i \in 1 .. Len(q) : Append(q, m)[i] = q[i]
       /\ \A i \in 1 .. Len(q) + 1 : i \in 1 .. Len(q) \/ i = Len(q) + 1
  <2>1. inbox \o q = q
    BY <1>6, <1>8
  <2> QED
    BY <1>7, <1>8, <1>9, <2>1, Longer, AppendIsConcat
<1>11. \A k \in Kinds, p \in Paths : Waits(k, p) <=> p \in s.paths[k]
  BY <1>6 DEF WatchedPaths, Waits
<1>12. s.zxid = lastZxid /\ \A k \in Kinds : s.paths[k] \in SUBSET Paths
  BY <1>6 DEF WatchedPaths
<1>13. \A k \in Kinds, p \in Paths : node[p].exists \in BOOLEAN /\ LastChange(k, p) = Change(node, k, p)
                                    /\ Change(node, k, p) \in Nat
  <2> SUFFICES ASSUME NEW k \in Kinds, NEW p \in Paths
               PROVE  /\ node[p].exists \in BOOLEAN /\ LastChange(k, p) = Change(node, k, p)
                      /\ Change(node, k, p) \in Nat
    OBVIOUS
  <2>1. node[p].exists \in BOOLEAN
    BY <1>2 DEF Node
  <2>2. LastChange(k, p) = Change(node, k, p)
    BY DEF LastChange, Change
  <2>3. Change(node, k, p) \in Nat
    BY <1>1, <1>2 DEF Nodes
  <2> QED
    BY <2>1, <2>2, <2>3
<1>14. \A k \in Kinds, p \in Paths : Waits(k, p) =>
           (Missed(k, p, lastZxid) # {} => lastZxid < Change(node, k, p))
  <2> SUFFICES ASSUME NEW k \in Kinds, NEW p \in Paths, Waits(k, p), NEW t \in Missed(k, p, lastZxid)
               PROVE  lastZxid < Change(node, k, p)
    OBVIOUS
  <2>1. /\ Passed(node, k, p, since[k][p]) => lastZxid < Change(node, k, p)
        /\ Kept(node, k, p, since[k][p])
    BY <1>1 DEF Fresh
  <2>2. CASE k = "exist" /\ node[p].exists
    BY <2>1, <2>2 DEF Passed, Kept
  <2>3. CASE k # "exist" /\ ~node[p].exists
    BY <1>13, <2>1, <2>3 DEF Passed, Kept
  <2>4. CASE LastChange(k, p) > lastZxid
    BY <1>2, <1>13, <2>4
  <2> QED
    BY <2>2, <2>3, <2>4 DEF Missed
<1>15. \A k \in Kinds, p \in Paths : Waits(k, p) =>
           (Missed(k, p, lastZxid) = {} => ~Passed(node, k, p, since[k][p]))
  <2> SUFFICES ASSUME NEW k \in Kinds, NEW p \in Paths, Waits(k, p), Passed(node, k, p, since[k][p])
               PROVE  Missed(k, p, lastZxid) # {}
    OBVIOUS
  <2>1. lastZxid < Change(node, k, p)
    BY <1>1 DEF Fresh
  <2>2. CASE k = "exist"
    <3>1. "CREATED" \in Missed(k, p, lastZxid)
      BY <2>2 DEF Missed, Types, Passed
    <3> QED
      BY <3>1
  <2>3. CASE k # "exist" /\ ~node[p].exists
    <3>1. "DELETED" \in Missed(k, p, lastZxid)
      BY <2>3 DEF Missed, Types
    <3> QED
      BY <3>1
  <2>4. CASE k = "node" /\ node[p].exists
    <3>1. "CHANGED" \in Missed(k, p, lastZxid)
      BY <1>2, <1>13, <2>1, <2>4 DEF Missed, Types
    <3> QED
      BY <3>1
  <2>5. CASE k = "child" /\ node[p].exists
    <3>1. "CHILD" \in Missed(k, p, lastZxid)
      BY <1>2, <1>13, <2>1, <2>5 DEF Missed, Types
    <3> QED
      BY <3>1
  <2> QED
    BY <2>2, <2>3, <2>4, <2>5 DEF Kinds
<1>16. \A i \in 1 .. Len(q) : ~IsReply(q[i]) /\ ~IsHeader(q[i]) /\ lastZxid < q[i].event.zxid
  <2> SUFFICES ASSUME NEW i \in 1 .. Len(q)
               PROVE  ~IsReply(q[i]) /\ ~IsHeader(q[i]) /\ lastZxid < q[i].event.zxid
    OBVIOUS
  <2>1. \E k \in Kinds : \E p \in s.paths[k] : \E t \in Missed(k, p, s.zxid) :
            q[i] = WatchEvent(t, p, Change(node, k, p))
    BY <1>1, <1>2, <1>5, <1>8, FiredFacts
  <2>2. PICK k \in Kinds : \E p \in s.paths[k] : \E t \in Missed(k, p, s.zxid) :
            q[i] = WatchEvent(t, p, Change(node, k, p))
    BY <2>1
  <2>3. PICK p \in s.paths[k] : \E t \in Missed(k, p, s.zxid) :
            q[i] = WatchEvent(t, p, Change(node, k, p))
    BY <2>2
  <2>4. PICK t \in Missed(k, p, s.zxid) : q[i] = WatchEvent(t, p, Change(node, k, p))
    BY <2>3
  <2>5. p \in Paths /\ s.zxid = lastZxid
    BY <1>6, <1>12
  <2>6. lastZxid < Change(node, k, p)
    BY <1>11, <1>14, <2>5
  <2>7. /\ ~IsReply(q[i]) /\ ~IsHeader(q[i])
        /\ q[i].event = [type |-> t, path |-> p, zxid |-> Change(node, k, p)]
    BY <2>4, Made DEF WatchEvent
  <2> QED
    BY <2>6, <2>7
<1>17. Typed'
  <2>1. /\ serverData' \subseteq Paths /\ serverChild' \subseteq Paths
        /\ inbox' \in Seq(Incoming) /\ outbox' \in Seq(Outgoing)
    BY <1>4, <1>6, <1>7, <1>10, <1>12 DEF Kinds, Set
  <2> QED
    BY <1>1, <1>7, <2>1 DEF Typed, TypeOK
<1>18. Nodes'
  <2>1. ASSUME NEW p \in serverChild'
        PROVE  node[p].exists
    <3>1. p \in s.paths["child"] /\ Missed("child", p, s.zxid) = {}
      BY <1>6, <1>7, <2>1 DEF Set
    <3>2. ~node[p].exists => "DELETED" \in Missed("child", p, s.zxid)
      BY DEF Missed, Types
    <3> QED
      BY <3>1, <3>2
  <2> QED
    BY <1>1, <1>3, <1>7, <2>1 DEF Nodes
<1>19. Zxids'
  <2>1. lastZxid <= zxid
    BY <1>1 DEF Zxids
  <2>2. Ordered(q, lastZxid, zxid)
    BY <1>16 DEF Ordered
  <2>3. Ordered(Append(q, m), lastZxid, zxid)
    <3>1. zxid <= zxid
      BY <1>2
    <3> QED
      BY <1>2, <1>8, <1>9, <2>1, <2>2, <3>1, OrderedGrows
  <2> QED
    BY <1>1, <1>7, <1>10, <2>3 DEF Zxids, Waits
<1>20. Fresh' /\ Shown' /\ Paid'
  BY <1>1, <1>7, PartsKept
<1>21. PICK n \in 0 .. Len(sentRequests) :
           /\ Queued(outbox, sentRequests, n)
           /\ \E at : Answers(at, n, sentRequests, inbox, node, serverData, serverChild)
  BY <1>1, <1>3 DEF Lined
<1>22. /\ ~Asking(Tail(outbox)) /\ Queued(Tail(outbox), sentRequests, n)
  BY <1>2, <1>3, <1>5, <1>21, QueuedTail
<1>23. Reset'
  <2>1. ASSUME NEW k \in Kinds, NEW p \in Paths, Waits(k, p)
        PROVE  Safe(Append(q, m), node, serverData', serverChild', k, p, since[k][p], 0)
    <3>1. CASE Missed(k, p, lastZxid) = {}
      <4>1. ~Passed(node, k, p, since[k][p])
        BY <1>15, <2>1, <3>1
      <4>2. p \in Set(s, k)
        BY <1>11, <1>12, <2>1, <3>1 DEF Set
      <4>3. Held(serverData', serverChild', k, p)
        BY <1>7, <4>2 DEF Held, Kinds
      <4> QED
        BY <4>1, <4>3 DEF Safe
    <3>2. CASE Missed(k, p, lastZxid) # {}
      <4>1. PICK x \in Fired(s) : Collecting(x, k, p)
        BY <1>1, <1>2, <1>5, <1>11, <1>12, <2>1, <3>2, FiredFacts
      <4>2. PICK i \in 1 .. Len(q) : q[i] = x
        BY <1>8
      <4>3. Append(q, m)[i] = q[i] /\ i \in 0 + 1 .. Len(q) + 1 /\ i \in 0 + 1 .. Len(q) + 2 - 1
            /\ i \in 0 + 1 .. Len(q) + 1 - 1
        BY <1>10
      <4>4. Told(Append(q, m), k, p, 0, Len(q) + 1) /\ Told(Append(q, m), k, p, 0, Len(q) + 2)
        BY <4>1, <4>2, <4>3 DEF Told
      <4>5. \A h \in 1 .. Len(q) + 1 : IsHeader(Append(q, m)[h]) => h = Len(q) + 1
        BY <1>10, <1>16
      <4>6. Len(Append(q, m)) + 1 = Len(q) + 2 /\ 0 + 1 = 1
        BY <1>10
      <4> QED
        BY <1>10, <4>4, <4>5, <4>6 DEF Safe
    <3> QED
      BY <3>1, <3>2
  <2> QED
    BY <1>3, <1>7, <1>10, <1>22, <2>1 DEF Reset, Waits
<1>24. Lined'
  <2>1. n = 0
    <3>1. PICK at : Positions(at, n, inbox)
      BY <1>21 DEF Answers
    <3>2. \A h \in 1 .. Len(inbox) : ~IsReply(inbox[h])
      BY <1>6
    <3>3. n \in Nat
      BY <1>2, <1>21, LenProperties
    <3> QED
      BY <3>1, <3>2, <3>3, NoReplies
  <2>2. \A h \in 1 .. Len(Append(q, m)) : ~IsReply(Append(q, m)[h])
    BY <1>9, <1>10, <1>16
  <2>3. Positions([j \in 1 .. 0 |-> 1], 0, Append(q, m))
    BY <2>2, NoReplies
  <2>4. Answers([j \in 1 .. 0 |-> 1], 0, sentRequests, Append(q, m), node, serverData', serverChild')
    BY <2>3 DEF Answers
  <2> QED
    BY <1>7, <1>10, <1>21, <1>22, <2>1, <2>4 DEF Lined
<1> QED
  BY <1>17, <1>18, <1>19, <1>20, <1>23, <1>24 DEF WatchesInv

-----------------------------------------------------------------------------
(* A znode changes                                                         *)

\* The znodes nd become nd2 and the watches that see it fire: sd and sc become sd2 and
\* sc2, and the event, if any, follows the packets q in q2.
ByData(sd, p, type) == type # "CHILD" /\ p \in sd
ByChild(sc, p, type) == type \in {"CHILD", "DELETED"} /\ p \in sc
Fires(sd, sc, p, type) == ByData(sd, p, type) \/ ByChild(sc, p, type)

Changes(nd, nd2, p, type, now) ==
    /\ nd[p].exists = (type # "CREATED")
    /\ nd2 = [nd EXCEPT ![p] =
           [exists   |-> type # "DELETED",
            created  |-> IF type = "CREATED" THEN now ELSE nd[p].created,
            data     |-> IF type = "CHILD" THEN nd[p].data ELSE now,
            children |-> IF type = "CHANGED" THEN nd[p].children ELSE now]]
Reports(q, q2, sd, sd2, sc, sc2, p, type, now) ==
    /\ q2 = IF Fires(sd, sc, p, type) THEN Append(q, WatchEvent(type, p, now)) ELSE q
    /\ sd2 = IF ByData(sd, p, type) THEN sd \ {p} ELSE sd
    /\ sc2 = IF ByChild(sc, p, type) THEN sc \ {p} ELSE sc

Earlier(nd, now) == \A k \in Kinds, i \in Paths : Change(nd, k, i) \in Nat /\ Change(nd, k, i) < now

Touches(nd, nd2, p, type, now) ==
    \A k \in Kinds, i \in Paths :
        /\ \/ Change(nd2, k, i) = now
           \/ /\ Change(nd2, k, i) = Change(nd, k, i)
              /\ \A z : Passed(nd2, k, i, z) => Passed(nd, k, i, z)
              /\ \A z : Kept(nd, k, i, z) => Kept(nd2, k, i, z)
        /\ Change(nd2, k, i) = now =>
              i = p /\ (k \in Collects(type) \/ (k = "child" /\ type = "CREATED"))

\* What the change is to a table: the last one that matters to it, or none.
LEMMA ChangesFacts ==
    ASSUME NEW nd \in [Paths -> Node], NEW nd2, NEW p \in Paths, NEW type \in Types,
           NEW now \in Nat, Changes(nd, nd2, p, type, now), Earlier(nd, now)
    PROVE  Touches(nd, nd2, p, type, now)
<1> SUFFICES ASSUME NEW k \in Kinds, NEW i \in Paths
             PROVE  /\ \/ Change(nd2, k, i) = now
                       \/ /\ Change(nd2, k, i) = Change(nd, k, i)
                          /\ \A z : Passed(nd2, k, i, z) => Passed(nd, k, i, z)
                          /\ \A z : Kept(nd, k, i, z) => Kept(nd2, k, i, z)
                    /\ Change(nd2, k, i) = now =>
                          i = p /\ (k \in Collects(type) \/ (k = "child" /\ type = "CREATED"))
  BY DEF Touches
<1>0. Change(nd, k, i) < now /\ Change(nd, k, i) \in Nat
  BY DEF Earlier
<1>1. /\ nd2[p].exists = (type # "DELETED")
      /\ nd2[p].created = IF type = "CREATED" THEN now ELSE nd[p].created
      /\ nd2[p].data = IF type = "CHILD" THEN nd[p].data ELSE now
      /\ nd2[p].children = IF type = "CHANGED" THEN nd[p].children ELSE now
  BY DEF Changes
<1>2. nd[p].exists = (type # "CREATED") /\ nd[p].exists \in BOOLEAN /\ nd[i].exists \in BOOLEAN
  BY DEF Changes, Node
<1>3. CASE i # p
  <2>1. nd2[i] = nd[i]
    BY <1>3 DEF Changes
  <2>2. Change(nd2, k, i) = Change(nd, k, i)
    BY <2>1 DEF Change
  <2>3. Change(nd2, k, i) # now
    BY <1>0, <2>2
  <2> QED
    BY <2>1, <2>2, <2>3 DEF Passed, Kept
<1>4. CASE i = p /\ k = "exist"
  <2>1. CASE type = "CREATED"
    BY <1>1, <1>4, <2>1 DEF Change, Collects
  <2>2. CASE type # "CREATED"
    <3>1. Change(nd2, k, i) = Change(nd, k, i) /\ nd[i].exists
      BY <1>1, <1>2, <1>4, <2>2 DEF Change
    <3>2. nd2[i].exists \/ ~nd2[i].exists
      OBVIOUS
    <3>3. Change(nd2, k, i) # now
      BY <1>0, <3>1
    <3> QED
      BY <1>4, <3>1, <3>2, <3>3 DEF Passed, Kept
  <2> QED
    BY <2>1, <2>2
<1>5. CASE i = p /\ k = "node"
  <2>1. CASE type # "CHILD"
    BY <1>1, <1>5, <2>1 DEF Change, Collects, Types, Kinds
  <2>2. CASE type = "CHILD"
    <3>1. Change(nd2, k, i) = Change(nd, k, i) /\ nd[i].exists /\ nd2[i].exists
      BY <1>1, <1>2, <1>5, <2>2 DEF Change
    <3>2. Change(nd2, k, i) # now
      BY <1>0, <3>1
    <3> QED
      BY <1>5, <3>1, <3>2 DEF Passed, Kept
  <2> QED
    BY <2>1, <2>2
<1>6. CASE i = p /\ k = "child"
  <2>1. CASE type # "CHANGED"
    BY <1>1, <1>6, <2>1 DEF Change, Collects, Types, Kinds
  <2>2. CASE type = "CHANGED"
    <3>1. Change(nd2, k, i) = Change(nd, k, i) /\ nd[i].exists /\ nd2[i].exists
      BY <1>1, <1>2, <1>6, <2>2 DEF Change
    <3>2. Change(nd2, k, i) # now
      BY <1>0, <3>1
    <3> QED
      BY <1>6, <3>1, <3>2 DEF Passed, Kept
  <2> QED
    BY <2>1, <2>2
<1> QED
  BY <1>3, <1>4, <1>5, <1>6 DEF Kinds

\* Packets are added behind the others, watches taken away.
Follows(q, q2, sd, sd2, sc, sc2) ==
    /\ q2 \in Seq(Incoming) /\ sd2 \subseteq sd /\ sc2 \subseteq sc
    /\ q2 = q \/ Len(q2) = Len(q) + 1
    /\ \A h \in 1 .. Len(q) : q2[h] = q[h]
    /\ \A h \in 1 .. Len(q2) : h \in 1 .. Len(q) \/ (~IsHeader(q2[h]) /\ ~IsReply(q2[h]))

\* A watch that goes reports the change.
LEMMA ReportsFacts ==
    ASSUME NEW q \in Seq(Incoming), NEW q2, NEW sd, NEW sd2, NEW sc, NEW sc2,
           NEW p \in Paths, NEW type \in Types, NEW now \in Nat,
           Reports(q, q2, sd, sd2, sc, sc2, p, type, now)
    PROVE  /\ Follows(q, q2, sd, sd2, sc, sc2)
           /\ \A k \in Kinds, i \in Paths, j \in 0 .. Len(q) :
                 /\ \A h \in 1 .. Len(q) : Told(q, k, i, j, h) => Told(q2, k, i, j, h)
                 /\ Told(q, k, i, j, Len(q) + 1) => Told(q2, k, i, j, Len(q2) + 1)
                 /\ Held(sd, sc, k, i) /\ (~Held(sd2, sc2, k, i) \/ (i = p /\ k \in Collects(type))) =>
                       Told(q2, k, i, j, Len(q2) + 1)
<1> DEFINE m == WatchEvent(type, p, now)
<1>1. m \in Incoming /\ IsEvent(m) /\ ~IsHeader(m) /\ ~IsReply(m)
      /\ \A k : k \in Collects(type) => Collecting(m, k, p)
  <2> DEFINE e == [type |-> type, path |-> p, zxid |-> now]
  <2>1. e \in Events /\ e.path = p /\ e.type = type
    BY DEF Events
  <2>2. m = [event |-> e]
    BY DEF WatchEvent
  <2> HIDE DEF e, m
  <2>3. m \in Incoming /\ IsEvent(m) /\ ~IsHeader(m) /\ ~IsReply(m) /\ m.event = e
    BY <2>1, <2>2, Made
  <2> QED
    BY <2>1, <2>3 DEF Collecting
<1>2. /\ q2 = IF Fires(sd, sc, p, type) THEN Append(q, m) ELSE q
      /\ sd2 = IF ByData(sd, p, type) THEN sd \ {p} ELSE sd
      /\ sc2 = IF ByChild(sc, p, type) THEN sc \ {p} ELSE sc
  BY DEF Reports
<1> HIDE DEF m
<1>3. \A k \in Kinds, i \in Paths :
          Held(sd, sc, k, i) /\ (~Held(sd2, sc2, k, i) \/ (i = p /\ k \in Collects(type))) =>
              Fires(sd, sc, p, type) /\ Collecting(m, k, i)
  <2> SUFFICES ASSUME NEW k \in Kinds, NEW i \in Paths, Held(sd, sc, k, i),
                      ~Held(sd2, sc2, k, i) \/ (i = p /\ k \in Collects(type))
               PROVE  Fires(sd, sc, p, type) /\ i = p /\ k \in Collects(type)
    BY <1>1
  <2>1. CASE k = "child"
    <3>1. i \in sc /\ (i \notin sc2 \/ (i = p /\ type \in {"CHILD", "DELETED"}))
      BY <2>1 DEF Held, Collects, Types
    <3>2. i = p /\ ByChild(sc, p, type)
      BY <1>2, <3>1 DEF ByChild
    <3> QED
      BY <2>1, <3>2 DEF ByChild, Fires, Collects, Kinds
  <2>2. CASE k # "child"
    <3>1. i \in sd /\ (i \notin sd2 \/ (i = p /\ type # "CHILD"))
      BY <2>2 DEF Held, Collects, Types
    <3>2. i = p /\ ByData(sd, p, type)
      BY <1>2, <3>1 DEF ByData
    <3> QED
      BY <2>2, <3>2 DEF ByData, Fires, Collects, Kinds, Types
  <2> QED
    BY <2>1, <2>2
<1>4. sd2 \subseteq sd /\ sc2 \subseteq sc
  BY <1>2
<1>5. CASE Fires(sd, sc, p, type)
  <2>1. q2 = Append(q, m)
    BY <1>2, <1>5
  <2>2. /\ q2 \in Seq(Incoming) /\ Len(q2) = Len(q) + 1 /\ Len(q) \in Nat /\ q2[Len(q) + 1] = m
        /\ \A h \in 1 .. Len(q) : q2[h] = q[h]
        /\ \A h \in 1 .. Len(q) + 1 : h \in 1 .. Len(q) \/ h = Len(q) + 1
    BY <1>1, <2>1, Longer
  <2>3. ASSUME NEW k \in Kinds, NEW i \in Paths, NEW j \in 0 .. Len(q)
        PROVE  /\ \A h \in 1 .. Len(q) : Told(q, k, i, j, h) => Told(q2, k, i, j, h)
               /\ Told(q, k, i, j, Len(q) + 1) => Told(q2, k, i, j, Len(q2) + 1)
               /\ Collecting(m, k, i) => Told(q2, k, i, j, Len(q2) + 1)
    <3>1. /\ \A h \in 1 .. Len(q) + 1 : Told(q, k, i, j, h) => Told(Append(q, m), k, i, j, h)
          /\ Told(q, k, i, j, Len(q) + 1) => Told(Append(q, m), k, i, j, Len(q) + 2)
          /\ Collecting(m, k, i) => Told(Append(q, m), k, i, j, Len(q) + 2)
      BY <1>1, ToldGrows
    <3>2. Len(q2) + 1 = Len(q) + 2 /\ \A h \in 1 .. Len(q) : h \in 1 .. Len(q) + 1
      BY <2>2
    <3> QED
      BY <2>1, <3>1, <3>2
  <2>4. Follows(q, q2, sd, sd2, sc, sc2)
    BY <1>1, <1>4, <2>2 DEF Follows
  <2> QED
    BY <1>3, <1>5, <2>3, <2>4
<1>6. CASE ~Fires(sd, sc, p, type)
  <2>1. q2 = q
    BY <1>2, <1>6
  <2>2. Follows(q, q2, sd, sd2, sc, sc2)
    BY <1>4, <2>1 DEF Follows
  <2> QED
    BY <1>3, <1>6, <2>1, <2>2
<1> QED
  BY <1>5, <1>6

\* What is owed to a watcher stays owed to it, with the new change.
LEMMA SafeWrite ==
    ASSUME NEW nd \in [Paths -> Node], NEW nd2, NEW p \in Paths, NEW type \in Types,
           NEW now \in Nat, Changes(nd, nd2, p, type, now),
           NEW q \in Seq(Incoming), NEW q2, NEW sd, NEW sd2, NEW sc, NEW sc2,
           Reports(q, q2, sd, sd2, sc, sc2, p, type, now),
           \A h \in 1 .. Len(q) : IsHeader(q[h]) => q[h].zxid \in Nat /\ q[h].zxid < now,
           \A i \in sc : nd[i].exists, Earlier(nd, now),
           NEW k \in Kinds, NEW i \in Paths, NEW z, NEW j \in 0 .. Len(q), Safe(q, nd, sd, sc, k, i, z, j)
    PROVE  Safe(q2, nd2, sd2, sc2, k, i, z, j)
<1>1. /\ \/ Change(nd2, k, i) = now
         \/ /\ Change(nd2, k, i) = Change(nd, k, i)
            /\ Passed(nd2, k, i, z) => Passed(nd, k, i, z)
      /\ Change(nd2, k, i) = now =>
             i = p /\ (k \in Collects(type) \/ (k = "child" /\ type = "CREATED"))
  <2>1. Touches(nd, nd2, p, type, now)
    BY ChangesFacts
  <2> QED
    BY <2>1 DEF Touches
<1>2. /\ q2 = q \/ Len(q2) = Len(q) + 1
      /\ \A h \in 1 .. Len(q) : q2[h] = q[h]
      /\ \A h \in 1 .. Len(q2) : h \in 1 .. Len(q) \/ ~IsHeader(q2[h])
      /\ \A h \in 1 .. Len(q) : Told(q, k, i, j, h) => Told(q2, k, i, j, h)
      /\ Told(q, k, i, j, Len(q) + 1) => Told(q2, k, i, j, Len(q2) + 1)
      /\ Held(sd, sc, k, i) /\ (~Held(sd2, sc2, k, i) \/ (i = p /\ k \in Collects(type))) =>
             Told(q2, k, i, j, Len(q2) + 1)
  <2>1. Follows(q, q2, sd, sd2, sc, sc2)
    BY ReportsFacts
  <2>2. \A y \in Kinds, x \in Paths, g \in 0 .. Len(q) :
            /\ \A h \in 1 .. Len(q) : Told(q, y, x, g, h) => Told(q2, y, x, g, h)
            /\ Told(q, y, x, g, Len(q) + 1) => Told(q2, y, x, g, Len(q2) + 1)
            /\ Held(sd, sc, y, x) /\ (~Held(sd2, sc2, y, x) \/ (x = p /\ y \in Collects(type))) =>
                   Told(q2, y, x, g, Len(q2) + 1)
    BY ReportsFacts
  <2> QED
    BY <2>1, <2>2 DEF Follows
<1>3. /\ Held(sd, sc, k, i) \/ Told(q, k, i, j, Len(q) + 1)
      /\ Passed(nd, k, i, z) => Told(q, k, i, j, Len(q) + 1)
      /\ \A h \in j + 1 .. Len(q) :
            IsHeader(q[h]) /\ Passed(nd, k, i, z) /\ q[h].zxid >= Change(nd, k, i)
                => Told(q, k, i, j, h)
  BY DEF Safe
<1>4. Held(sd2, sc2, k, i) \/ Told(q2, k, i, j, Len(q2) + 1)
  BY <1>2, <1>3
<1>5. Passed(nd2, k, i, z) => Told(q2, k, i, j, Len(q2) + 1)
  <2>1. CASE Change(nd2, k, i) = now
    <3>1. Held(sd, sc, k, i) /\ k = "child" /\ i = p => type # "CREATED"
      BY DEF Held, Changes
    <3> QED
      BY <1>1, <1>2, <1>3, <2>1, <3>1
  <2>2. CASE Passed(nd2, k, i, z) => Passed(nd, k, i, z)
    BY <1>2, <1>3, <2>2
  <2> QED
    BY <1>1, <2>1, <2>2
<1>6. ASSUME NEW h \in j + 1 .. Len(q2), IsHeader(q2[h]), Passed(nd2, k, i, z),
             q2[h].zxid >= Change(nd2, k, i)
      PROVE  Told(q2, k, i, j, h)
  <2>1. PICK l \in Nat : l = Len(q)
    BY LenProperties
  <2>2. h \in 1 .. Len(q2)
    <3>1. Len(q2) \in Nat
      BY <1>2, <2>1
    <3> QED
      BY <3>1
  <2>3. h \in 1 .. Len(q) /\ q2[h] = q[h]
    BY <1>2, <1>6, <2>2
  <2>4. h \in j + 1 .. Len(q)
    BY <2>1, <2>3
  <2>5. q[h].zxid \in Nat /\ q[h].zxid < now
    BY <1>6, <2>3
  <2>6. Change(nd2, k, i) # now
    BY <1>6, <2>3, <2>5
  <2>7. Change(nd2, k, i) = Change(nd, k, i) /\ Passed(nd, k, i, z)
    BY <1>1, <1>6, <2>6
  <2> QED
    BY <1>2, <1>3, <1>6, <2>3, <2>4, <2>7
<1> QED
  BY <1>4, <1>5, <1>6 DEF Safe

\* The same of what a request on its way registers.
LEMMA VouchedWrite ==
    ASSUME NEW nd \in [Paths -> Node], NEW nd2, NEW p \in Paths, NEW type \in Types,
           NEW now \in Nat, Changes(nd, nd2, p, type, now),
           NEW q \in Seq(Incoming), NEW q2, NEW sd, NEW sd2, NEW sc, NEW sc2,
           Reports(q, q2, sd, sd2, sc, sc2, p, type, now),
           \A h \in 1 .. Len(q) : IsHeader(q[h]) => q[h].zxid \in Nat /\ q[h].zxid < now,
           \A i \in sc : nd[i].exists, Earlier(nd, now),
           NEW r \in Requests, NEW i \in 1 .. Len(q), IsHeader(q[i]),
           Vouched(q, nd, sd, sc, r, i)
    PROVE  Vouched(q2, nd2, sd2, sc2, r, i)
<1> SUFFICES ASSUME r.watcher # {}, NEW k \in ResultChecker(r.op, q2[i].reply)
             PROVE  /\ Safe(q2, nd2, sd2, sc2, k, r.path, q2[i].zxid, i)
                    /\ Kept(nd2, k, r.path, q2[i].zxid)
  BY DEF Vouched
<1>1. q2[i] = q[i]
  <2>1. Follows(q, q2, sd, sd2, sc, sc2)
    BY ReportsFacts
  <2> QED
    BY <2>1 DEF Follows
<1>2. k \in Kinds /\ r.path \in Paths
  BY DEF ResultChecker, Kinds, Requests
<1>3. Safe(q, nd, sd, sc, k, r.path, q[i].zxid, i) /\ Kept(nd, k, r.path, q[i].zxid)
  BY <1>1 DEF Vouched
<1>4. i \in 0 .. Len(q)
  BY LenProperties
<1>5. Safe(q2, nd2, sd2, sc2, k, r.path, q[i].zxid, i)
  BY <1>2, <1>3, <1>4, SafeWrite
<1>6. Kept(nd2, k, r.path, q[i].zxid)
  <2>1. Touches(nd, nd2, p, type, now)
    BY ChangesFacts
  <2>2. CASE Change(nd2, k, r.path) = now
    <3>1. q[i].zxid \in Nat /\ q[i].zxid < now
      OBVIOUS
    <3>2. Change(nd2, k, r.path) > q[i].zxid
      BY <2>2, <3>1
    <3> QED
      BY <3>2 DEF Kept
  <2>3. CASE Change(nd2, k, r.path) # now
    BY <1>2, <1>3, <2>1, <2>3 DEF Touches
  <2> QED
    BY <2>2, <2>3
<1> QED
  BY <1>1, <1>5, <1>6

\* A change on the server preserves the invariant.
LEMMA ServerWriteStep ==
    ASSUME WatchesInv, NEW p \in Paths, NEW type \in Types, ServerWrite(p, type)
    PROVE  WatchesInv'
<1> DEFINE now == zxid + 1
           m == WatchEvent(type, p, now)
           fires == Fires(serverData, serverChild, p, type)
<1>1. Typed /\ Nodes /\ Zxids /\ Fresh /\ Shown /\ Reset /\ Lined /\ Paid
  BY DEF WatchesInv
<1>2. /\ inbox \in Seq(Incoming) /\ sentRequests \in Seq(Requests) /\ lastZxid \in Nat
      /\ zxid \in Nat /\ zxid >= 1 /\ node \in [Paths -> Node]
      /\ serverData \in SUBSET Paths /\ serverChild \in SUBSET Paths
      /\ since \in [Kinds -> [Paths -> Nat]]
  BY <1>1, WatchesAssumption DEF WatchesAssumption, Typed, TypeOK
<1>3. /\ now <= 1 + MaxWrites /\ zxid' = now
      /\ UNCHANGED <<outbox, tables, lastZxid, conn, sentRequests, ready, stack, since, seen,
                     owed, errors, requests>>
  BY DEF ServerWrite, client, ghosts
<1>4. Changes(node, node', p, type, now)
  BY DEF ServerWrite, Changes
<1>5. Reports(inbox, inbox', serverData, serverData', serverChild, serverChild', p, type, now)
  BY DEF ServerWrite, Reports, Fires, ByData, ByChild
<1>6. now \in Nat /\ zxid < now /\ zxid <= now /\ now = zxid + 1
  BY <1>2
<1> HIDE DEF now
<1>7. Ordered(inbox, lastZxid, zxid) /\ lastZxid <= zxid
  BY <1>1 DEF Zxids
<1>8. \A h \in 1 .. Len(inbox) : IsHeader(inbox[h]) =>
          inbox[h].zxid \in Nat /\ inbox[h].zxid < now
  <2> SUFFICES ASSUME NEW h \in 1 .. Len(inbox), IsHeader(inbox[h])
               PROVE  inbox[h].zxid \in Nat /\ inbox[h].zxid < now
    OBVIOUS
  <2>1. inbox[h].zxid \in 1 .. zxid
    BY <1>7 DEF Ordered
  <2> QED
    BY <1>2, <1>6, <2>1
<1>9. Earlier(node, now) /\ \A i \in serverChild : node[i].exists
  <2>1. ASSUME NEW k \in Kinds, NEW i \in Paths
        PROVE  Change(node, k, i) \in Nat /\ Change(node, k, i) < now
    <3>1. Change(node, k, i) \in 1 .. zxid
      BY <1>1 DEF Nodes
    <3> QED
      BY <1>2, <1>6, <3>1
  <2> QED
    BY <1>1, <2>1 DEF Earlier, Nodes
<1>10. Touches(node, node', p, type, now)
  BY <1>2, <1>4, <1>6, <1>9, ChangesFacts
<1>11. /\ inbox' \in Seq(Incoming) /\ serverData' \subseteq serverData
       /\ serverChild' \subseteq serverChild
       /\ inbox' = inbox \/ Len(inbox') = Len(inbox) + 1
       /\ \A h \in 1 .. Len(inbox) : inbox'[h] = inbox[h]
       /\ \A h \in 1 .. Len(inbox') :
              h \in 1 .. Len(inbox) \/ (~IsHeader(inbox'[h]) /\ ~IsReply(inbox'[h]))
  <2>1. Follows(inbox, inbox', serverData, serverData', serverChild, serverChild')
    BY <1>2, <1>5, <1>6, ReportsFacts
  <2> QED
    BY <2>1 DEF Follows
<1>12. /\ fires => inbox' = Append(inbox, m)
       /\ ~fires => inbox' = inbox /\ serverData' = serverData /\ serverChild' = serverChild
  BY <1>5 DEF Reports, Fires
<1>13. Typed'
  <2>1. node' \in [Paths -> Node]
    <3> DEFINE v == [exists   |-> type # "DELETED",
                     created  |-> IF type = "CREATED" THEN now ELSE node[p].created,
                     data     |-> IF type = "CHILD" THEN node[p].data ELSE now,
                     children |-> IF type = "CHANGED" THEN node[p].children ELSE now]
    <3>1. node[p] \in Node
      BY <1>2
    <3>2. v \in Node
      BY <1>6, <3>1 DEF Node
    <3>3. node' = [node EXCEPT ![p] = v]
      BY <1>4 DEF Changes
    <3> HIDE DEF v
    <3> QED
      BY <1>2, <3>2, <3>3
  <2>2. zxid' \in 1 .. 1 + MaxWrites
    BY <1>2, <1>3, <1>6, WatchesAssumption DEF WatchesAssumption
  <2> QED
    BY <1>1, <1>3, <1>11, <2>1, <2>2 DEF Typed, TypeOK
<1>14. Nodes'
  <2>1. ASSUME NEW k \in Kinds, NEW i \in Paths
        PROVE  Change(node', k, i) \in 1 .. now
    <3>1. CASE Change(node', k, i) = now
      BY <1>2, <1>6, <3>1
    <3>2. CASE Change(node', k, i) = Change(node, k, i)
      <4>1. Change(node, k, i) \in 1 .. zxid
        BY <1>1 DEF Nodes
      <4> QED
        BY <1>2, <1>6, <3>2, <4>1
    <3> QED
      BY <1>10, <3>1, <3>2 DEF Touches
  <2>2. ASSUME NEW i \in serverChild'
        PROVE  node'[i].exists
    <3>1. i \in serverChild /\ node[i].exists /\ i \in Paths
      BY <1>2, <1>9, <1>11
    <3>2. CASE i # p
      BY <1>4, <3>1, <3>2 DEF Changes
    <3>3. CASE i = p
      <4>1. type # "DELETED"
        BY <1>5, <2>2, <3>1, <3>3 DEF Reports, ByChild
      <4> QED
        BY <1>2, <1>4, <3>3, <4>1 DEF Changes
    <3> QED
      BY <3>2, <3>3
  <2>3. conn # "up" => inbox' = <<>> /\ serverData' = {} /\ serverChild' = {}
    <3>1. conn # "up" => ~fires
      BY <1>1 DEF Nodes, Fires, ByData, ByChild
    <3> QED
      BY <1>1, <1>12, <3>1 DEF Nodes
  <2> QED
    BY <1>3, <2>1, <2>2, <2>3 DEF Nodes
<1>15. Zxids'
  <2>1. lastZxid <= now
    BY <1>2, <1>6, <1>7
  <2>2. Ordered(inbox', lastZxid, now)
    <3>1. CASE fires
      <4>1. m \in Incoming /\ ~IsHeader(m) /\ IsEvent(m) /\ m.event.zxid = now
        <5> DEFINE e == [type |-> type, path |-> p, zxid |-> now]
        <5>1. e \in Events /\ e.zxid = now
          BY <1>6 DEF Events
        <5>2. m = [event |-> e]
          BY DEF WatchEvent
        <5> HIDE DEF e, m
        <5> QED
          BY <5>1, <5>2, Made
      <4> HIDE DEF m
      <4>2. /\ 1 <= now
            /\ IsHeader(m) => m.zxid = now
            /\ IsEvent(m) => zxid < m.event.zxid /\ m.event.zxid \in Nat
        BY <1>2, <1>6, <4>1
      <4>3. Ordered(Append(inbox, m), lastZxid, now)
        BY <1>2, <1>6, <1>7, <4>1, <4>2, OrderedGrows
      <4> QED
        BY <1>12, <3>1, <4>3
    <3>2. CASE ~fires
      <4>1. \A z \in 1 .. zxid : z \in 1 .. now
        BY <1>2, <1>6
      <4>2. Ordered(inbox, lastZxid, now)
        BY <1>7, <4>1 DEF Ordered
      <4> QED
        BY <1>12, <3>2, <4>2
    <3> QED
      BY <3>1, <3>2
  <2> QED
    BY <1>1, <1>3, <2>1, <2>2 DEF Zxids, Waits
<1>16. Fresh'
  <2>1. ASSUME NEW k \in Kinds, NEW i \in Paths, Waits(k, i)
        PROVE  /\ Passed(node', k, i, since[k][i]) => lastZxid < Change(node', k, i)
               /\ Kept(node', k, i, since[k][i])
    <3>1. /\ Passed(node, k, i, since[k][i]) => lastZxid < Change(node, k, i)
          /\ Kept(node, k, i, since[k][i])
      BY <1>1, <2>1 DEF Fresh
    <3>2. since[k][i] \in Nat /\ since[k][i] <= lastZxid
      BY <1>1, <1>2, <2>1 DEF Zxids
    <3>3. CASE Change(node', k, i) = now
      <4>1. Change(node', k, i) > since[k][i] /\ lastZxid < Change(node', k, i)
        BY <1>2, <1>6, <1>7, <3>2, <3>3
      <4> QED
        BY <4>1 DEF Kept
    <3>4. CASE Change(node', k, i) # now
      BY <1>10, <3>1, <3>4 DEF Touches
    <3> QED
      BY <3>3, <3>4
  <2> QED
    BY <1>3, <2>1 DEF Fresh, Waits
<1>17. Shown' /\ Paid'
  BY <1>1, <1>3, PartsKept
<1>18. Reset'
  <2>1. CASE conn = "up" /\ Asking(outbox)
    <3>1. inbox = <<>> /\ serverData = {} /\ serverChild = {}
      BY <1>1, <2>1 DEF Reset
    <3>2. ~fires
      BY <3>1 DEF Fires, ByData, ByChild
    <3> QED
      BY <1>1, <1>3, <1>12, <2>1, <3>1, <3>2 DEF Reset, WatchedPaths
  <2>2. CASE conn = "up" /\ ~Asking(outbox)
    <3>1. ASSUME NEW k \in Kinds, NEW i \in Paths, Waits(k, i)
          PROVE  Safe(inbox', node', serverData', serverChild', k, i, since[k][i], 0)
      <4>1. Safe(inbox, node, serverData, serverChild, k, i, since[k][i], 0)
        BY <1>1, <2>2, <3>1 DEF Reset
      <4>2. 0 \in 0 .. Len(inbox)
        BY <1>2, LenProperties
      <4> QED
        BY <1>2, <1>4, <1>5, <1>6, <1>8, <1>9, <4>1, <4>2, SafeWrite
    <3> QED
      BY <1>3, <2>2, <3>1 DEF Reset, Waits
  <2>3. CASE conn # "up"
    BY <1>1, <1>3, <2>3 DEF Reset
  <2> QED
    BY <2>1, <2>2, <2>3
<1>19. Lined'
  <2> SUFFICES ASSUME conn # "failed"
               PROVE  \E n \in 0 .. Len(sentRequests) :
                          /\ Queued(outbox, sentRequests, n)
                          /\ \E at : Answers(at, n, sentRequests, inbox', node', serverData',
                                             serverChild')
    BY <1>3 DEF Lined
  <2>1. PICK n \in 0 .. Len(sentRequests) :
            /\ Queued(outbox, sentRequests, n)
            /\ \E at : Answers(at, n, sentRequests, inbox, node, serverData, serverChild)
    BY <1>1 DEF Lined
  <2>2. PICK at : Answers(at, n, sentRequests, inbox, node, serverData, serverChild)
    BY <2>1
  <2>3. n \in Nat /\ \A j \in 1 .. n : j \in 1 .. Len(sentRequests)
    BY <1>2, <2>1, LenProperties
  <2>4. /\ Positions(at, n, inbox)
        /\ \A j \in 1 .. n : Vouched(inbox, node, serverData, serverChild, sentRequests[j], at[j])
    BY <2>2 DEF Answers
  <2>5. /\ at \in [1 .. n -> 1 .. Len(inbox)]
        /\ \A i, j \in 1 .. n : i < j => at[i] < at[j]
        /\ \A h \in 1 .. Len(inbox) : IsReply(inbox[h]) <=> \E j \in 1 .. n : at[j] = h
    BY <2>4 DEF Positions
  <2>6. PICK l \in Nat : l = Len(inbox)
    BY <1>2, LenProperties
  <2>7. \A h \in 1 .. l : h \in 1 .. Len(inbox')
    BY <1>11, <2>6
  <2>8. Positions(at, n, inbox')
    <3>1. at \in [1 .. n -> 1 .. Len(inbox')]
      BY <2>5, <2>6, <2>7
    <3>2. ASSUME NEW h \in 1 .. Len(inbox')
          PROVE  IsReply(inbox'[h]) <=> \E j \in 1 .. n : at[j] = h
      <4>1. CASE h \in 1 .. Len(inbox)
        BY <1>11, <2>5, <4>1
      <4>2. CASE h \notin 1 .. Len(inbox)
        <5>1. ~IsReply(inbox'[h])
          BY <1>11, <4>2
        <5>2. \A j \in 1 .. n : at[j] # h
          BY <2>5, <4>2
        <5> QED
          BY <5>1, <5>2
      <4> QED
        BY <4>1, <4>2
    <3> QED
      BY <2>5, <3>1, <3>2 DEF Positions
  <2>9. ASSUME NEW j \in 1 .. n
        PROVE  Vouched(inbox', node', serverData', serverChild', sentRequests[j], at[j])
    <3>1. at[j] \in 1 .. Len(inbox) /\ IsReply(inbox[at[j]])
      BY <2>5
    <3>2. IsHeader(inbox[at[j]])
      <4>1. inbox[at[j]] \in Incoming
        BY <1>2, <3>1, ElementOfSeq
      <4> QED
        BY <3>1, <4>1, IncomingKinds
    <3>3. sentRequests[j] \in Requests
      BY <1>2, <2>3, ElementOfSeq
    <3>4. Vouched(inbox, node, serverData, serverChild, sentRequests[j], at[j])
      BY <2>4
    <3> QED
      BY <1>2, <1>4, <1>5, <1>6, <1>8, <1>9, <3>1, <3>2, <3>3, <3>4, VouchedWrite
  <2> QED
    BY <2>1, <2>8, <2>9 DEF Answers
<1> QED
  BY <1>13, <1>14, <1>15, <1>16, <1>17, <1>18, <1>19 DEF WatchesInv

\* So does every step.
LEMMA WatchesStep ==
    ASSUME WatchesInv, [Next]_vars
    PROVE  WatchesInv'
<1>1. CASE Request
  BY <1>1, RequestStep
<1>2. CASE Establish
  BY <1>2, EstablishStep
<1>3. CASE HandleError
  BY <1>3, HandleErrorStep
<1>4. CASE HandleErrorTail
  BY <1>4, HandleErrorTailStep
<1>5. CASE ProcessReply
  BY <1>5, ProcessReplyStep
<1>6. CASE ProcessSetWatches
  BY <1>6, ProcessSetWatchesStep
<1>7. CASE ProcessEvent
  BY <1>7, ProcessEventStep
<1>8. CASE RunCompletion
  BY <1>8, RunCompletionStep
<1>9. CASE DeliverWatchers
  BY <1>9, DeliverWatchersStep
<1>10. CASE NextWatcher
  BY <1>10, NextWatcherStep
<1>11. CASE Return
  BY <1>11, ReturnStep
<1>12. CASE ServerReply
  BY <1>12, ServerReplyStep
<1>13. CASE ServerSetWatches
  BY <1>13, ServerSetWatchesStep
<1>14. CASE \E p \in Paths, type \in Types : ServerWrite(p, type)
  BY <1>14, ServerWriteStep
<1>15. CASE UNCHANGED vars
  <2>1. UNCHANGED <<tables, lastZxid, conn, sentRequests, ready, stack, outbox, inbox, node,
                    zxid, serverData, serverChild, since, seen, owed, errors, requests>>
    BY <1>15 DEF vars, client, server, ghosts
  <2>2. Typed /\ Nodes /\ Zxids /\ Fresh /\ Shown /\ Reset /\ Lined /\ Paid
    BY DEF WatchesInv
  <2>3. Typed'
    BY <2>1, <2>2 DEF Typed, TypeOK
  <2> QED
    BY <2>1, <2>2, <2>3, PartsKept DEF WatchesInv
<1> QED
  BY <1>1, <1>2, <1>3, <1>4, <1>5, <1>6, <1>7, <1>8, <1>9, <1>10, <1>11, <1>12, <1>13, <1>14,
     <1>15 DEF Next, Progress

\* A handle that was just initialized satisfies the invariant.
LEMMA WatchesInit ==
    ASSUME Init
    PROVE  WatchesInv
<1>1. /\ tables = [k \in Kinds |-> [p \in Paths |-> {}]]
      /\ lastZxid = 0 /\ conn = "down" /\ sentRequests = <<>> /\ ready = <<>> /\ stack = <<>>
      /\ outbox = <<>> /\ inbox = <<>>
      /\ node \in [Paths -> [exists : BOOLEAN, created : {1}, data : {1}, children : {1}]]
      /\ zxid = 1 /\ serverData = {} /\ serverChild = {}
      /\ since = [k \in Kinds |-> [p \in Paths |-> 0]]
      /\ seen = 0 /\ owed = [w \in Watchers |-> 0] /\ errors = 0 /\ requests = 0
  BY DEF Init
<1>2. \A k \in Kinds, p \in Paths : ~Waits(k, p)
  BY <1>1 DEF Waits
<1>3. Typed
  <2>1. /\ tables \in [Kinds -> [Paths -> SUBSET Watchers]] /\ since \in [Kinds -> [Paths -> Nat]]
        /\ owed \in [Watchers -> Int]
    BY <1>1
  <2>2. /\ lastZxid \in 0 .. 1 + MaxWrites /\ zxid \in 1 .. 1 + MaxWrites
        /\ errors \in 0 .. MaxErrors /\ requests \in 0 .. MaxRequests
    BY <1>1, WatchesAssumption DEF WatchesAssumption
  <2>3. node \in [Paths -> Node]
    BY <1>1 DEF Node
  <2> QED
    BY <1>1, <2>1, <2>2, <2>3 DEF Typed, TypeOK
<1>4. Nodes
  <2>1. ASSUME NEW k \in Kinds, NEW p \in Paths
        PROVE  Change(node, k, p) = 1
    <3>1. node[p] \in [exists : BOOLEAN, created : {1}, data : {1}, children : {1}]
      BY <1>1
    <3> QED
      BY <3>1 DEF Change, Kinds
  <2>2. 1 \in 1 .. zxid
    BY <1>1
  <2> QED
    BY <1>1, <2>1, <2>2 DEF Nodes
<1>5. Zxids /\ Fresh
  <2>1. lastZxid <= zxid /\ Ordered(inbox, lastZxid, zxid)
    BY <1>1 DEF Ordered
  <2> QED
    BY <1>2, <2>1 DEF Zxids, Fresh
<1>6. Shown
  BY <1>1 DEF Shown, Shows
<1>7. Reset
  BY <1>1, <1>2 DEF Reset, Asking
<1>8. Lined
  <2>1. Queued(<<>>, <<>>, 0) /\ 0 \in 0 .. Len(<<>>)
    BY DEF Queued, Skipped, Asking
  <2>2. Answers([j \in 1 .. 0 |-> 1], 0, <<>>, <<>>, node, {}, {})
    <3>1. Positions([j \in 1 .. 0 |-> 1], 0, <<>>)
      BY NoReplies
    <3> QED
      BY <3>1 DEF Answers
  <2> QED
    BY <1>1, <2>1, <2>2 DEF Lined
<1>9. Paid
  <2>1. ASSUME NEW w \in Watchers
        PROVE  Cardinality(Entries(tables, w)) + Count(ready, Lists(w)) + Count(stack, Deliveries(w)) <= owed[w]
    <3>1. Entries(tables, w) = {}
      BY <1>1 DEF Entries
    <3>2. Cardinality(Entries(tables, w)) = 0
      BY <3>1, FS_EmptySet
    <3>3. Count(ready, Lists(w)) = 0 /\ Count(stack, Deliveries(w)) = 0
      BY <1>1, CountNone
    <3> QED
      BY <1>1, <3>2, <3>3
  <2> QED
    BY <2>1 DEF Paid, Covers
<1> QED
  BY <1>3, <1>4, <1>5, <1>6, <1>7, <1>8, <1>9 DEF WatchesInv

\* WatchesInv is an inductive invariant.
THEOREM WatchesInvariant == Spec => []WatchesInv
<1>1. Init => WatchesInv
  BY WatchesInit
<1>2. WatchesInv /\ [Next]_vars => WatchesInv'
  BY WatchesStep
<1> QED
  BY <1>1, <1>2, PTL DEF Spec

-----------------------------------------------------------------------------
(* What it says                                                            *)

\* Every variable has its type.
THEOREM TypeCorrect == Spec => []TypeOK
<1>1. WatchesInv => TypeOK
  BY DEF WatchesInv, Typed
<1> QED
  BY <1>1, WatchesInvariant, PTL

\* While a session is connected, each watcher in a table has its watch on the server, or
\* the event or the request that sets it again is under way: whatever requests, replies,
\* writes and failures came in between.
THEOREM NoWatcherForgotten == Spec => []WatchCovered
<1>1. WatchesInv => WatchCovered
  <2> SUFFICES ASSUME WatchesInv, conn = "up", NEW k \in Kinds, NEW p \in Paths, tables[k][p] # {}
               PROVE  \/ p \in IF k = "child" THEN serverChild ELSE serverData
                      \/ \E i \in DOMAIN inbox : /\ Has(inbox[i], "event")
                                                 /\ inbox[i].event.path = p
                                                 /\ k \in Collects(inbox[i].event.type)
                      \/ \E i \in DOMAIN outbox : /\ Has(outbox[i], "setWatches")
                                                  /\ p \in outbox[i].setWatches.paths[k]
    BY DEF WatchCovered
  <2>1. Reset /\ inbox \in Seq(Incoming) /\ outbox \in Seq(Outgoing)
    BY DEF WatchesInv, Typed, TypeOK
  <2>2. DOMAIN inbox = 1 .. Len(inbox) /\ DOMAIN outbox = 1 .. Len(outbox)
        /\ Len(inbox) \in Nat /\ Len(outbox) \in Nat
    BY <2>1, LenProperties
  <2>3. CASE Asking(outbox)
    <3>1. outbox[1].setWatches.paths = WatchedPaths /\ Has(outbox[1], "setWatches")
      BY <2>1, <2>3 DEF Reset, Asking, IsSet
    <3>2. p \in WatchedPaths[k]
      BY DEF WatchedPaths
    <3>3. 1 \in DOMAIN outbox
      BY <2>1, <2>2, <2>3, EmptySeq DEF Asking
    <3> QED
      BY <3>1, <3>2, <3>3
  <2>4. CASE ~Asking(outbox)
    <3>1. Safe(inbox, node, serverData, serverChild, k, p, since[k][p], 0)
      BY <2>1, <2>4 DEF Reset, Waits
    <3>2. Held(serverData, serverChild, k, p) \/ Told(inbox, k, p, 0, Len(inbox) + 1)
      BY <3>1 DEF Safe
    <3>3. CASE Held(serverData, serverChild, k, p)
      BY <3>3 DEF Held
    <3>4. CASE Told(inbox, k, p, 0, Len(inbox) + 1)
      <4>1. PICK j \in 0 + 1 .. Len(inbox) + 1 - 1 : Collecting(inbox[j], k, p)
        BY <3>4 DEF Told
      <4>2. j \in DOMAIN inbox
        BY <2>2, <4>1
      <4> QED
        BY <4>1, <4>2 DEF Collecting, IsEvent
    <3> QED
      BY <3>2, <3>3, <3>4
  <2> QED
    BY <2>3, <2>4
<1> QED
  BY <1>1, WatchesInvariant, PTL

\* The application is told of a change before it is shown its effect, across reconnects too.
THEOREM EventsFirst == Spec => []EventBeforeData
<1>1. WatchesInv => EventBeforeData
  <2> SUFFICES ASSUME WatchesInv
               PROVE  EventBeforeData
    OBVIOUS
  <2>1. /\ Nodes /\ Fresh /\ Shows(ready, seen, lastZxid) /\ seen \in Nat /\ lastZxid \in Nat
        /\ ready \in Seq(Ready)
    BY WatchesAssumption DEF WatchesAssumption, WatchesInv, Shown, Typed, TypeOK
  <2>2. ASSUME NEW k \in Kinds, NEW p \in Paths, tables[k][p] # {}, Outdated(k, p)
        PROVE  seen < LastChange(k, p)
    <3>1. LastChange(k, p) = Change(node, k, p)
      BY DEF LastChange, Change
    <3>2. lastZxid < Change(node, k, p) /\ Change(node, k, p) \in 1 .. zxid
      BY <2>1, <2>2, <3>1 DEF Fresh, Waits, Outdated, Passed, Nodes
    <3>3. seen <= lastZxid /\ zxid \in Nat
      BY <2>1 DEF Shows, WatchesInv, Typed, TypeOK
    <3> QED
      BY <2>1, <3>1, <3>2, <3>3
  <2>3. ASSUME NEW i \in DOMAIN ready, Has(ready[i], "event"), ready[i].watchers # {}
        PROVE  seen < ready[i].event.zxid
    <3>1. i \in 1 .. Len(ready)
      BY <2>1, LenProperties
    <3> QED
      BY <2>1, <2>3, <3>1 DEF Shows
  <2> QED
    BY <2>2, <2>3 DEF EventBeforeData
<1> QED
  BY <1>1, WatchesInvariant, PTL

\* No watcher is called for events more often than replies have registered it, also when a
\* watcher polls the handle while others of its list wait.
THEOREM NoCallTwice == Spec => []OneShot
<1>1. WatchesInv => OneShot
  <2> SUFFICES ASSUME WatchesInv, NEW w \in Watchers
               PROVE  owed[w] >= 0
    BY DEF OneShot
  <2>1. Covers(tables, ready, stack, owed) /\ ready \in Seq(Ready) /\ stack \in Seq(Frames)
        /\ owed \in [Watchers -> Int]
    BY DEF WatchesInv, Paid, Typed, TypeOK
  <2>2. PICK e \in Nat : e = Cardinality(Entries(tables, w))
    BY <2>1, PlacesCounted
  <2>3. PICK l \in Nat : l = Count(ready, Lists(w))
    BY <2>1, PlacesCounted
  <2>4. PICK d \in Nat : d = Count(stack, Deliveries(w))
    BY <2>1, PlacesCounted
  <2>5. e + l + d <= owed[w]
    BY <2>1, <2>2, <2>3, <2>4 DEF Covers
  <2> QED
    BY <2>1, <2>5
<1> QED
  BY <1>1, WatchesInvariant, PTL

\* No event that is under way is older than the read that set the watchers it collects.
THEOREM NoOldNews == Spec => []OnlyNewChanges
<1>1. WatchesInv => OnlyNewChanges
  <2> SUFFICES ASSUME WatchesInv, NEW i \in DOMAIN inbox, Has(inbox[i], "event"),
                      NEW k \in Collects(inbox[i].event.type),
                      tables[k][inbox[i].event.path] # {}
               PROVE  inbox[i].event.zxid > since[k][inbox[i].event.path]
    BY DEF OnlyNewChanges
  <2> DEFINE e == inbox[i].event
  <2>1. /\ Zxids /\ inbox \in Seq(Incoming) /\ lastZxid \in Nat
        /\ since \in [Kinds -> [Paths -> Nat]]
    BY WatchesAssumption DEF WatchesAssumption, WatchesInv, Typed, TypeOK
  <2>2. i \in 1 .. Len(inbox) /\ inbox[i] \in Incoming
    BY <2>1, LenProperties, ElementOfSeq
  <2>3. e \in Events
    BY <2>2, IncomingKinds DEF IsEvent
  <2>4. e.path \in Paths /\ e.zxid \in Nat /\ k \in Kinds
    BY <2>3 DEF Events, Collects, Kinds, Types
  <2>5. lastZxid < e.zxid
    BY <2>1, <2>2 DEF Zxids, Ordered, IsEvent
  <2>6. since[k][e.path] <= lastZxid /\ since[k][e.path] \in Nat
    BY <2>1, <2>4 DEF Zxids, Waits
  <2> QED
    BY <2>1, <2>4, <2>5, <2>6
<1> QED
  BY <1>1, WatchesInvariant, PTL
=============================================================================
