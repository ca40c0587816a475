--------------------------- MODULE ZkCalls_proof ---------------------------
(***************************************************************************)
(* The calls of ZkCalls, for every list of hosts, every connect string,    *)
(* every path and every number of operations: the array of addresses is    *)
(* complete and never overrun, a path is refused exactly when it is        *)
(* malformed and arrives as it was passed, a completion reads the record   *)
(* its operation is answered with, and a multi request tells each          *)
(* operation its own outcome.                                              *)
(*                                                                         *)
(* Recursive lists are followed step by step (Recursion, Climb); queues    *)
(* are what is behind, or before, a number in a list that never changes;   *)
(* a path is judged by its slashes: two that are neighbours, and what      *)
(* stands between them.                                                    *)
(***************************************************************************)
EXTENDS ZkCalls, ZkSequences

-----------------------------------------------------------------------------
(* Addresses                                                               *)

\* The hosts of all lists and the addresses of all hosts.
ListHosts == UNION {{list[i] : i \in DOMAIN list} : list \in HostLists}
Addresses == UNION {{host.addresses[k] : k \in DOMAIN host.addresses} : host \in ListHosts}

\* Lists are sequences of hosts, hosts have sequences of addresses.
LEMMA Lists ==
    ASSUME NEW list \in HostLists
    PROVE  /\ list \in Seq(ListHosts) /\ Len(list) \in Nat /\ DOMAIN list = 1 .. Len(list)
           /\ \A i \in 1 .. Len(list) :
                 /\ list[i].addresses \in Seq(Addresses) /\ Len(list[i].addresses) \in Nat
                 /\ DOMAIN list[i].addresses = 1 .. Len(list[i].addresses)
<1>1. list \in Seq({list[i] : i \in DOMAIN list})
  BY ListsAssumption DEF ListsAssumption
<1>2. Len(list) \in Nat /\ DOMAIN list = 1 .. Len(list) /\ list = [i \in 1 .. Len(list) |-> list[i]]
  BY <1>1, LenProperties
<1>3. \A i \in 1 .. Len(list) : list[i] \in ListHosts
  BY <1>2 DEF ListHosts
<1>4. list \in Seq(ListHosts)
  <2>1. [i \in 1 .. Len(list) |-> list[i]] \in Seq(ListHosts)
    BY <1>2, <1>3, IsASeq
  <2> QED
    BY <1>2, <2>1
<1>5. ASSUME NEW i \in 1 .. Len(list)
      PROVE  /\ list[i].addresses \in Seq(Addresses) /\ Len(list[i].addresses) \in Nat
             /\ DOMAIN list[i].addresses = 1 .. Len(list[i].addresses)
  <2> DEFINE s == list[i].addresses
  <2>1. s \in Seq({s[k] : k \in DOMAIN s})
    BY <1>2, ListsAssumption DEF ListsAssumption
  <2>2. \A k \in DOMAIN s : s[k] \in Addresses
    BY <1>3 DEF Addresses
  <2> HIDE DEF s
  <2>3. Len(s) \in Nat /\ DOMAIN s = 1 .. Len(s) /\ s = [k \in 1 .. Len(s) |-> s[k]]
    BY <2>1, LenProperties
  <2>4. [k \in 1 .. Len(s) |-> s[k]] \in Seq(Addresses)
    BY <2>2, <2>3, IsASeq
  <2>5. s \in Seq(Addresses)
    BY <2>3, <2>4
  <2> QED
    BY <2>3, <2>5 DEF s
<1> QED
  BY <1>2, <1>4, <1>5

\* No address stands twice.
Distinct(q) == \A i, j \in 1 .. Len(q) : q[i] = q[j] => i = j

\* The array, and what becomes of it with one more address.
Array == [addrs : Seq(Addresses), alen : Nat]
Taken(s, a) == [addrs |-> IF a.family \in Families THEN Append(s.addrs, a) ELSE s.addrs,
                alen |-> Grown(s.alen, Len(s.addrs))]
Known(a) == a.family \in Families

\* One more address.
LEMMA TakenFacts ==
    ASSUME NEW s \in Array, NEW a \in Addresses
    PROVE  /\ Taken(s, a) \in Array
           /\ Len(s.addrs) <= s.alen => Len(Taken(s, a).addrs) <= Taken(s, a).alen
           /\ \A x : Among(x, Taken(s, a).addrs) <=> Among(x, s.addrs) \/ (x = a /\ Known(a))
           /\ Distinct(s.addrs) /\ ~Among(a, s.addrs) => Distinct(Taken(s, a).addrs)
<1>1. PICK q \in Seq(Addresses), n \in Nat, m \in Nat : q = s.addrs /\ n = Len(q) /\ m = s.alen
  BY LenProperties DEF Array
<1>2. PICK r : r = Append(q, a)
  OBVIOUS
<1>3. /\ r \in Seq(Addresses) /\ Len(r) = n + 1 /\ r[n + 1] = a
      /\ \A i \in 1 .. n : r[i] = q[i]
  BY <1>1, <1>2, AppendProperties
<1>4. Grown(m, n) \in Nat /\ (n <= m => n + 1 <= Grown(m, n))
  BY HostsAssumption DEF Grown, HostsAssumption
<1>5. \A x : Among(x, r) <=> Among(x, q) \/ x = a
  BY <1>2, AmongFacts
<1>6. Distinct(q) /\ ~Among(a, q) => Distinct(r)
  BY <1>1, <1>3 DEF Distinct, Among
<1>7. CASE Known(a)
  <2>1. Taken(s, a) = [addrs |-> r, alen |-> Grown(m, n)]
    BY <1>1, <1>2, <1>7 DEF Taken, Known
  <2> QED
    BY <1>1, <1>3, <1>4, <1>5, <1>6, <1>7, <2>1 DEF Array
<1>8. CASE ~Known(a)
  <2>1. Taken(s, a) = [addrs |-> q, alen |-> Grown(m, n)]
    BY <1>1, <1>8 DEF Taken, Known
  <2> QED
    BY <1>1, <1>4, <1>8, <2>1 DEF Array
<1> QED
  BY <1>7, <1>8

\* What Collect() makes of the array: it has room, and the addresses of a known family are
\* behind those that were there.
LEMMA Collected ==
    ASSUME addrs \in Seq(Addresses), alen \in Nat, Len(addrs) <= alen, NEW found \in Seq(Addresses)
    PROVE  \E c \in Array :
              /\ c = Collect(found) /\ Len(c.addrs) <= c.alen
              /\ \A x : Among(x, c.addrs) <=> Among(x, addrs) \/ (Among(x, found) /\ Known(x))
              /\ Distinct(addrs) /\ Distinct(found)
                 /\ (\A k \in 1 .. Len(found) : ~Among(found[k], addrs)) => Distinct(c.addrs)
<1>1. PICK n \in Nat : n = Len(found) /\ \A i \in 1 .. n : found[i] \in Addresses
  BY LenProperties, ElementOfSeq
<1>2. PICK b \in Array : b = [addrs |-> addrs, alen |-> alen]
  BY DEF Array
<1> DEFINE F == [x \in Array \X (1 .. n) |-> Taken(x[1], found[x[2]])]
<1>3. /\ F \in [Array \X (1 .. n) -> Array]
      /\ \A s \in Array, i \in 1 .. n : F[<<s, i>>] = Taken(s, found[i])
  <2>1. \A s \in Array, i \in 1 .. n : Taken(s, found[i]) \in Array
    BY <1>1, TakenFacts
  <2> QED
    BY <2>1
<1> HIDE DEF F
<1>4. PICK g \in [0 .. n -> Array] : Unrolls(g, b, F, n)
  BY <1>3, Recursion
<1> DEFINE Body(h, i) == IF i = 0 THEN [addrs |-> addrs, alen |-> alen]
               ELSE LET s == h[i - 1] IN
                    [addrs |-> IF found[i].family \in Families THEN Append(s.addrs, found[i]) ELSE s.addrs,
                     alen |-> Grown(s.alen, Len(s.addrs))]
<1>5. ASSUME NEW i \in 0 .. n PROVE g[i] = Body(g, i)
  <2>1. i # 0 => i \in 1 .. n /\ g[i - 1] \in Array
    BY <1>4
  <2>2. i # 0 => g[i] = Taken(g[i - 1], found[i])
    BY <1>3, <1>4, <2>1 DEF Unrolls
  <2> QED
    BY <1>2, <1>4, <2>2 DEF Unrolls, Taken
<1>6. g = [i \in 0 .. Len(found) |-> Body(g, i)]
  BY <1>1, <1>4, <1>5
<1>7. PICK h : h = [i \in 0 .. Len(found) |-> Body(h, i)] /\ Collect(found) = h[Len(found)]
  BY <1>6 DEF Collect
<1>8. h[0] = b /\ \A i \in 1 .. n : h[i] = Taken(h[i - 1], found[i])
  <2>1. \A i \in 0 .. n : h[i] = Body(h, i)
    <3> HIDE DEF Body
    <3> QED
      BY <1>1, <1>7
  <2>2. h[0] = b
    <3>1. 0 \in 0 .. n /\ Body(h, 0) = b
      BY <1>2
    <3> HIDE DEF Body
    <3> QED
      BY <2>1, <3>1
  <2>3. ASSUME NEW i \in 1 .. n PROVE h[i] = Taken(h[i - 1], found[i])
    <3>1. h[i] = Body(h, i) /\ i # 0
      BY <2>1
    <3>2. Body(h, i) = Taken(h[i - 1], found[i])
      BY <3>1 DEF Taken
    <3> HIDE DEF Body
    <3> QED
      BY <3>1, <3>2
  <2> QED
    BY <2>2, <2>3
<1> HIDE DEF Body
<1> DEFINE Fresh == /\ Distinct(addrs) /\ Distinct(found)
                    /\ \A k \in 1 .. n : ~Among(found[k], addrs)
           Upto(x, i) == \E k \in 1 .. i : x = found[k]
           Good(i) == /\ h[i] \in Array /\ Len(h[i].addrs) <= h[i].alen
                      /\ \A x : Among(x, h[i].addrs) <=> Among(x, addrs) \/ (Upto(x, i) /\ Known(x))
                      /\ Fresh => Distinct(h[i].addrs)
           T == {i \in 0 .. n : Good(i)}
<1>9. Good(0)
  BY <1>2, <1>8
<1>10. ASSUME NEW i \in 1 .. n, Good(i - 1) PROVE Good(i)
  <2>1. PICK s \in Array, a \in Addresses : s = h[i - 1] /\ a = found[i]
    BY <1>1, <1>10
  <2>2. h[i] = Taken(s, a)
    BY <1>8, <2>1
  <2>3. /\ Taken(s, a) \in Array
        /\ Len(Taken(s, a).addrs) <= Taken(s, a).alen
        /\ \A x : Among(x, Taken(s, a).addrs) <=> Among(x, s.addrs) \/ (x = a /\ Known(a))
        /\ Distinct(s.addrs) /\ ~Among(a, s.addrs) => Distinct(Taken(s, a).addrs)
    BY <1>10, <2>1, TakenFacts
  <2>4. \A x : Upto(x, i) <=> Upto(x, i - 1) \/ x = a
    BY <2>1
  <2>5. \A x : Among(x, h[i].addrs) <=> Among(x, addrs) \/ (Upto(x, i) /\ Known(x))
    BY <1>10, <2>1, <2>2, <2>3, <2>4
  <2>6. Fresh => ~Among(a, s.addrs)
    <3>1. SUFFICES ASSUME Fresh, Among(a, s.addrs) PROVE FALSE
      OBVIOUS
    <3>2. Upto(a, i - 1)
      BY <1>10, <2>1, <3>1
    <3>3. PICK k \in 1 .. i - 1 : a = found[k]
      BY <3>2
    <3>4. k \in 1 .. Len(found) /\ i \in 1 .. Len(found) /\ k # i /\ found[k] = found[i]
      BY <1>1, <2>1, <3>3
    <3>5. Distinct(found) /\ ~Among(found[i], addrs)
      BY <1>1, <3>1
    <3> HIDE DEF Fresh, Upto, Good
    <3> QED
      BY <3>4, <3>5 DEF Distinct
  <2> QED
    BY <1>10, <2>1, <2>2, <2>3, <2>5, <2>6
<1>11. 0 .. n \subseteq T
  <2>1. 0 \in T
    BY <1>9
  <2>2. ASSUME NEW i \in 1 .. n, i - 1 \in T PROVE i \in T
    BY <1>10, <2>2
  <2> HIDE DEF T
  <2> QED
    BY <2>1, <2>2, Climb
<1>12. Good(n)
  BY <1>11
<1>13. \A x : Upto(x, n) <=> Among(x, found)
  BY <1>1 DEF Among
<1> QED
  BY <1>1, <1>7, <1>12, <1>13

-----------------------------------------------------------------------------
(* The array of addresses                                                  *)

\* a is a usable address of the first d hosts of a list, and q has them all, once each.
Found(list, d, a) ==
    \E i \in 1 .. d : list[i].port = "good" /\ Among(a, list[i].addresses) /\ Known(a)
Complete(q, list, d) == Distinct(q) /\ \A a : Among(a, q) <=> Found(list, d, a)

\* The hosts left are those behind the first d.
Rest(d) == /\ d \in 0 .. Len(hostlist)
           /\ hosts \in Seq(ListHosts) /\ Len(hosts) = Len(hostlist) - d
           /\ \A i \in 1 .. Len(hosts) : hosts[i] = hostlist[d + i]

HostsInv ==
    /\ hostlist \in HostLists /\ addrs \in Seq(Addresses) /\ alen \in Nat /\ Len(addrs) <= alen
    /\ chroot = NoPath => resolving = "no"
    /\ resolving \in {"no", "failed"} => addrs = <<>>
    /\ resolving = "yes" => \E d \in Nat : Rest(d) /\ Complete(addrs, hostlist, d)
    /\ resolving \in {"shuffle", "ok"} => Complete(addrs, hostlist, Len(hostlist))
    /\ resolving = "shuffle" => shuffle \in 0 .. Len(addrs)

\* Nothing is in an empty array.
LEMMA NoAddress == /\ <<>> \in Seq(Addresses) /\ Len(<<>>) = 0
                   /\ \A a : ~Among(a, <<>>)
                   /\ \A list : Complete(<<>>, list, 0)
<1>1. <<>> \in Seq(Addresses) /\ Len(<<>>) = 0
  OBVIOUS
<1>2. \A a : ~Among(a, <<>>)
  BY <1>1 DEF Among
<1>3. \A list : Complete(<<>>, list, 0)
  BY <1>1, <1>2 DEF Complete, Found, Distinct
<1> QED
  BY <1>1, <1>2, <1>3

\* The chroot of a handle is one that is not NoPath.
LEMMA ChrootIsPath == \A s \in Suffixes : ChrootOf(s) # NoPath
<1> SUFFICES ASSUME NEW s \in Suffixes, ChrootOf(s) = NoPath PROVE FALSE
  OBVIOUS
<1>1. s \in Seq(STRING)
  BY CallsAssumption DEF CallsAssumption
<1>2. Len(s) \in Nat /\ Len(NoPath) = 1 /\ Len(<<>>) = 0
  BY <1>1, LenProperties DEF NoPath
<1> QED
  BY <1>2 DEF ChrootOf, NoChroot

\* A host more.
LEMMA FoundMore ==
    ASSUME NEW list, NEW d \in Nat, NEW a
    PROVE  Found(list, d + 1, a) <=> \/ Found(list, d, a)
                                     \/ /\ list[d + 1].port = "good" /\ Known(a)
                                        /\ Among(a, list[d + 1].addresses)
<1>1. \A i : i \in 1 .. d + 1 <=> i \in 1 .. d \/ i = d + 1
  OBVIOUS
<1> QED
  BY <1>1 DEF Found

\* The next host, if there is one.
LEMMA NextHost ==
    ASSUME hostlist \in HostLists, NEW d \in Nat, Rest(d), hosts # <<>>
    PROVE  /\ Head(hosts) = hostlist[d + 1] /\ d + 1 \in 1 .. Len(hostlist)
           /\ hosts' = Tail(hosts) /\ hostlist' = hostlist => Rest(d + 1)'
<1>1. Len(hostlist) \in Nat
  BY Lists
<1>2. PICK t \in Seq(ListHosts) :
          /\ t = Tail(hosts) /\ Head(hosts) = hosts[1] /\ Len(hosts) \in Nat \ {0}
          /\ Len(t) = Len(hosts) - 1 /\ \A i \in 1 .. Len(hosts) - 1 : t[i] = hosts[i + 1]
  <2>1. hosts \in Seq(ListHosts)
    BY DEF Rest
  <2>2. Tail(hosts) \in Seq(ListHosts)
    BY <2>1, TailFacts
  <2> QED
    BY <2>1, <2>2, TailFacts
<1>3. Len(hosts) = Len(hostlist) - d /\ \A i \in 1 .. Len(hosts) : hosts[i] = hostlist[d + i]
  BY DEF Rest
<1>4. Head(hosts) = hostlist[d + 1] /\ d + 1 \in 1 .. Len(hostlist)
  BY <1>1, <1>2, <1>3
<1>5. Len(t) = Len(hostlist) - (d + 1) /\ d + 1 \in 0 .. Len(hostlist)
  BY <1>1, <1>2, <1>3
<1>6. ASSUME NEW i \in 1 .. Len(t) PROVE t[i] = hostlist[(d + 1) + i]
  <2>1. i \in 1 .. Len(hosts) - 1 /\ i + 1 \in 1 .. Len(hosts) /\ d + (i + 1) = (d + 1) + i
    BY <1>2
  <2> QED
    BY <1>2, <1>3, <2>1
<1> QED
  BY <1>2, <1>4, <1>5, <1>6 DEF Rest

\* Two elements change places.
LEMMA SwapFacts ==
    ASSUME NEW S, NEW s \in Seq(S), NEW i \in 1 .. Len(s), NEW j \in 1 .. Len(s)
    PROVE  /\ Swapped(s, i, j) \in Seq(S) /\ Len(Swapped(s, i, j)) = Len(s)
           /\ \A x : Among(x, Swapped(s, i, j)) <=> Among(x, s)
           /\ Distinct(s) => Distinct(Swapped(s, i, j))
<1>1. PICK n \in Nat : /\ n = Len(s) /\ DOMAIN s = 1 .. n /\ \A k \in 1 .. n : s[k] \in S
                       /\ s = [k \in 1 .. n |-> s[k]]
  BY LenProperties, ElementOfSeq
<1>2. PICK t : t = Swapped(s, i, j)
  OBVIOUS
<1>3. t = [k \in 1 .. n |-> t[k]]
      /\ \A k \in 1 .. n : t[k] = IF k = j THEN s[i] ELSE IF k = i THEN s[j] ELSE s[k]
  BY <1>1, <1>2 DEF Swapped
<1>4. \A k \in 1 .. n : t[k] \in S
  BY <1>1, <1>3
<1>5. t \in Seq(S)
  <2>1. [k \in 1 .. n |-> t[k]] \in Seq(S)
    BY <1>1, <1>4, IsASeq
  <2> QED
    BY <1>3, <2>1
<1>6. Len(t) = n
  <2>1. DOMAIN t = 1 .. n
    BY <1>3
  <2> QED
    BY <1>1, <1>5, <2>1, LenProperties
<1>7. ASSUME NEW x PROVE Among(x, t) <=> Among(x, s)
  <2>1. ASSUME NEW k \in 1 .. n, t[k] = x PROVE \E l \in 1 .. n : s[l] = x
    BY <1>1, <1>3, <2>1
  <2>2. ASSUME NEW k \in 1 .. n, s[k] = x PROVE \E l \in 1 .. n : t[l] = x
    <3>1. CASE k = i
      BY <1>1, <1>3, <2>2, <3>1
    <3>2. CASE k = j
      BY <1>1, <1>3, <2>2, <3>2
    <3>3. CASE k # i /\ k # j
      BY <1>1, <1>3, <2>2, <3>3
    <3> QED
      BY <3>1, <3>2, <3>3
  <2> QED
    BY <1>1, <1>6, <2>1, <2>2 DEF Among
<1>8. ASSUME Distinct(s) PROVE Distinct(t)
  <2> SUFFICES ASSUME NEW k \in 1 .. n, NEW l \in 1 .. n, t[k] = t[l] PROVE k = l
    BY <1>1, <1>6 DEF Distinct
  <2>1. PICK a \in 1 .. n : a = IF k = j THEN i ELSE IF k = i THEN j ELSE k
    BY <1>1
  <2>2. PICK b \in 1 .. n : b = IF l = j THEN i ELSE IF l = i THEN j ELSE l
    BY <1>1
  <2>3. t[k] = s[a] /\ t[l] = s[b]
    BY <1>3, <2>1, <2>2
  <2>4. a = b
    BY <1>1, <1>8, <2>3 DEF Distinct
  <2> QED
    BY <2>1, <2>2, <2>4
<1> QED
  BY <1>1, <1>2, <1>5, <1>6, <1>7, <1>8

\* The array and the chroot at the start.
LEMMA InitHosts == Init => HostsInv
BY NoAddress DEF Init, HostsInit, HostsInv

\* A handle is made.
LEMMA MakeHosts == HostsInv /\ zookeeper_init => HostsInv'
<1> SUFFICES ASSUME HostsInv, zookeeper_init PROVE HostsInv'
  OBVIOUS
<1>1. resolving = "no" /\ addrs = <<>>
  BY DEF HostsInv, zookeeper_init
<1>2. chroot' # NoPath
  BY ChrootIsPath DEF zookeeper_init
<1>3. CASE StartResolving
  <2>1. /\ hostlist' = hostlist /\ hosts' = hostlist /\ addrs' = addrs /\ alen' = alen
        /\ resolving' = "yes"
    BY <1>3 DEF StartResolving
  <2>2. hostlist \in Seq(ListHosts) /\ Len(hostlist) \in Nat /\ hostlist \in HostLists
    BY Lists DEF HostsInv
  <2>3. Rest(0)'
    BY <2>1, <2>2 DEF Rest
  <2>4. Complete(addrs', hostlist', 0)
    BY <1>1, <2>1, NoAddress
  <2> QED
    BY <1>2, <2>1, <2>3, <2>4 DEF HostsInv
<1>4. CASE resolving' = "failed" /\ UNCHANGED <<hostlist, hosts, addrs, alen, shuffle>>
  BY <1>1, <1>2, <1>4 DEF HostsInv
<1> QED
  BY <1>3, <1>4 DEF zookeeper_init

\* An address stands for one place in one list.
LEMMA OnePlace ==
    ASSUME NEW list \in HostLists, NEW i \in 1 .. Len(list), NEW j \in 1 .. Len(list),
           NEW k \in 1 .. Len(list[i].addresses), NEW l \in 1 .. Len(list[j].addresses),
           list[i].addresses[k] = list[j].addresses[l]
    PROVE  i = j /\ k = l
<1>1. i \in DOMAIN list /\ j \in DOMAIN list
  BY Lists
<1>2. k \in DOMAIN list[i].addresses /\ l \in DOMAIN list[j].addresses
  BY Lists
<1> QED
  BY <1>1, <1>2, ListsAssumption DEF ListsAssumption

\* The addresses of a host are appended.
LEMMA LookupHosts == HostsInv /\ Lookup /\ UNCHANGED chroot => HostsInv'
<1> SUFFICES ASSUME HostsInv, Lookup, UNCHANGED chroot PROVE HostsInv'
  OBVIOUS
<1>1. PICK d \in Nat : Rest(d) /\ Complete(addrs, hostlist, d)
  BY DEF HostsInv, Lookup
<1>2. /\ Head(hosts) = hostlist[d + 1] /\ d + 1 \in 1 .. Len(hostlist)
      /\ hosts' = Tail(hosts) /\ hostlist' = hostlist /\ Rest(d + 1)'
  BY <1>1, NextHost DEF Lookup, HostsInv
<1>3. PICK found \in Seq(Addresses) : found = hostlist[d + 1].addresses
  BY <1>2, Lists DEF HostsInv
<1>4. PICK c \in Array :
          /\ c = Collect(found) /\ Len(c.addrs) <= c.alen
          /\ \A x : Among(x, c.addrs) <=> Among(x, addrs) \/ (Among(x, found) /\ Known(x))
          /\ Distinct(addrs) /\ Distinct(found)
             /\ (\A k \in 1 .. Len(found) : ~Among(found[k], addrs)) => Distinct(c.addrs)
  BY Collected DEF HostsInv
<1>5. addrs' = c.addrs /\ alen' = c.alen /\ resolving' = "yes" /\ hostlist[d + 1].port = "good"
  BY <1>2, <1>3, <1>4 DEF Lookup
<1>6. Distinct(found)
  BY <1>2, <1>3, OnePlace DEF Distinct, HostsInv
<1>7. ASSUME NEW k \in 1 .. Len(found), Among(found[k], addrs) PROVE FALSE
  <2>1. Found(hostlist, d, found[k])
    BY <1>1, <1>7 DEF Complete
  <2>2. PICK i \in 1 .. d : Among(found[k], hostlist[i].addresses)
    BY <2>1 DEF Found
  <2>3. PICK l \in 1 .. Len(hostlist[i].addresses) : hostlist[i].addresses[l] = found[k]
    BY <2>2 DEF Among
  <2>4. i \in 1 .. Len(hostlist) /\ i # d + 1
    BY <1>2, Lists DEF HostsInv
  <2> QED
    BY <1>2, <1>3, <2>3, <2>4, OnePlace DEF HostsInv
<1>8. Distinct(addrs')
  BY <1>1, <1>4, <1>5, <1>6, <1>7 DEF Complete
<1>9. \A x : Among(x, addrs') <=> Found(hostlist, d + 1, x)
  BY <1>1, <1>3, <1>4, <1>5, FoundMore DEF Complete
<1>10. Complete(addrs', hostlist', d + 1)
  BY <1>2, <1>8, <1>9 DEF Complete
<1>11. addrs' \in Seq(Addresses) /\ alen' \in Nat /\ Len(addrs') <= alen'
  BY <1>4, <1>5 DEF Array
<1>12. d + 1 \in Nat /\ resolving = "yes"
  BY DEF Lookup
<1>13. chroot' # NoPath
  BY <1>12 DEF HostsInv
<1> QED
  BY <1>2, <1>5, <1>10, <1>11, <1>12, <1>13 DEF HostsInv

\* The other steps of getaddrs().
LEMMA ResolveHosts == HostsInv /\ Resolve /\ UNCHANGED chroot => HostsInv'
<1> SUFFICES ASSUME HostsInv, Resolve, UNCHANGED chroot PROVE HostsInv'
  OBVIOUS
<1>1. resolving \in {"yes", "shuffle"} /\ chroot' # NoPath
  BY DEF HostsInv, Resolve, EmptyHost, BadPort, LookupFails, Lookup, StartShuffle, Shuffle
<1>2. CASE EmptyHost
  <2>1. PICK d \in Nat : Rest(d) /\ Complete(addrs, hostlist, d)
    BY <1>2 DEF HostsInv, EmptyHost
  <2>2. Head(hosts) = hostlist[d + 1] /\ hostlist' = hostlist /\ Rest(d + 1)'
    BY <1>2, <2>1, NextHost DEF EmptyHost, HostsInv
  <2>3. hostlist[d + 1].port # "good"
    BY <1>2, <2>2 DEF EmptyHost
  <2>4. Complete(addrs, hostlist, d + 1)
    BY <2>1, <2>3, FoundMore DEF Complete
  <2>5. d + 1 \in Nat
    OBVIOUS
  <2> QED
    BY <1>1, <1>2, <2>2, <2>4, <2>5 DEF EmptyHost, HostsInv
<1>3. CASE BadPort \/ LookupFails
  <2>1. GiveUp
    BY <1>3 DEF BadPort, LookupFails
  <2> QED
    BY <1>1, <2>1, NoAddress DEF GiveUp, HostsInv
<1>4. CASE Lookup
  BY <1>4, LookupHosts
<1>5. CASE StartShuffle
  <2>1. PICK d \in Nat : Rest(d) /\ Complete(addrs, hostlist, d)
    BY <1>5 DEF HostsInv, StartShuffle
  <2>2. d = Len(hostlist)
    <3>1. Len(hostlist) \in Nat /\ Len(hosts) = 0
      BY <1>5, Lists DEF HostsInv, StartShuffle
    <3> QED
      BY <2>1, <3>1 DEF Rest
  <2>3. Len(addrs) \in 0 .. Len(addrs)
    BY LenProperties DEF HostsInv
  <2> QED
    BY <1>1, <1>5, <2>1, <2>2, <2>3 DEF StartShuffle, HostsInv
<1>6. CASE Shuffle
  <2>1. /\ resolving = "shuffle" /\ hostlist' = hostlist /\ alen' = alen /\ Len(addrs) \in Nat
        /\ shuffle \in 0 .. Len(addrs) /\ Complete(addrs, hostlist, Len(hostlist))
    BY <1>6, LenProperties DEF Shuffle, HostsInv
  <2>2. CASE shuffle > 1
    <3>1. PICK j \in 1 .. shuffle : addrs' = Swapped(addrs, shuffle, j)
      BY <1>6, <2>2 DEF Shuffle
    <3>2. shuffle \in 1 .. Len(addrs) /\ j \in 1 .. Len(addrs) /\ shuffle - 1 \in 0 .. Len(addrs)
      BY <2>1, <2>2
    <3>3. /\ addrs' \in Seq(Addresses) /\ Len(addrs') = Len(addrs)
          /\ \A x : Among(x, addrs') <=> Among(x, addrs)
          /\ Distinct(addrs) => Distinct(addrs')
      BY <3>1, <3>2, SwapFacts DEF HostsInv
    <3>4. Complete(addrs', hostlist, Len(hostlist))
      BY <2>1, <3>3 DEF Complete
    <3>5. shuffle' = shuffle - 1 /\ resolving' = resolving
      BY <1>6, <2>2 DEF Shuffle
    <3> QED
      BY <1>1, <2>1, <3>2, <3>3, <3>4, <3>5 DEF HostsInv
  <2>3. CASE ~(shuffle > 1)
    <3>1. resolving' = "ok" /\ addrs' = addrs
      BY <1>6, <2>3 DEF Shuffle
    <3> QED
      BY <1>1, <2>1, <3>1 DEF HostsInv
  <2> QED
    BY <2>2, <2>3
<1> QED
  BY <1>2, <1>3, <1>4, <1>5, <1>6 DEF Resolve

\* Every step.
LEMMA NextHosts == HostsInv /\ [Next]_vars => HostsInv'
<1> SUFFICES ASSUME HostsInv, [Next]_vars PROVE HostsInv'
  OBVIOUS
<1>1. CASE zookeeper_init
  BY <1>1, MakeHosts
<1>2. CASE getaddrs
  BY <1>2, ResolveHosts DEF getaddrs
<1>3. ASSUME UNCHANGED <<hostVars, chroot>> PROVE HostsInv'
  <2>1. UNCHANGED <<hostlist, hosts, addrs, alen, shuffle, resolving, chroot>>
    BY <1>3 DEF hostVars
  <2> QED
    BY <2>1 DEF HostsInv, Rest
<1>4. ASSUME NEW fn, NEW path, NEW sequence, NEW state, NEW array,
             Submit(fn, path, sequence, state, array)
      PROVE  UNCHANGED <<hostVars, chroot>>
  BY <1>4 DEF Submit
<1>5. CASE Call \/ setAcl
  BY <1>3, <1>4, <1>5 DEF Call, setAcl
<1>6. CASE zoo_amulti
  BY <1>3, <1>6 DEF zoo_amulti
<1>7. CASE ServerAnswers \/ ServerAnswersMulti \/ ConnectionLost
  BY <1>3, <1>7 DEF ServerAnswers, ServerAnswersMulti, ConnectionLost, Answer
<1>8. CASE \/ UnknownOp \/ deserialize_response \/ StartMulti \/ TakeEntry \/ NoEntry \/ EndMulti
           \/ UNCHANGED vars
  BY <1>3, <1>8 DEF UnknownOp, deserialize_response, StartMulti, TakeEntry, NoEntry, EndMulti, vars
<1> QED
  BY <1>1, <1>2, <1>5, <1>6, <1>7, <1>8 DEF Next

(* The array of addresses has room for what is written to it, and what is left in
   it is each usable address of the hosts of the list, once, or after a failure
   nothing (getaddrs()). *)
THEOREM AddressesComplete == Spec => []AddressesKept
<1>1. HostsInv => AddressesKept
  <2> SUFFICES ASSUME HostsInv PROVE AddressesKept
    OBVIOUS
  <2>1. DOMAIN addrs = 1 .. Len(addrs)
    BY LenProperties DEF HostsInv
  <2>2. /\ DOMAIN hostlist = 1 .. Len(hostlist)
        /\ \A i \in 1 .. Len(hostlist) :
              DOMAIN hostlist[i].addresses = 1 .. Len(hostlist[i].addresses)
    BY Lists DEF HostsInv
  <2>3. ASSUME resolving = "ok", NEW a
        PROVE  Among(a, addrs) <=> a \in Resolved(hostlist) /\ a.family \in Families
    <3>1. Among(a, addrs) <=> Found(hostlist, Len(hostlist), a)
      BY <2>3 DEF HostsInv, Complete
    <3>2. ASSUME NEW i \in 1 .. Len(hostlist)
          PROVE  Among(a, hostlist[i].addresses) <=>
                     a \in {hostlist[i].addresses[k] : k \in DOMAIN hostlist[i].addresses}
      BY <2>2 DEF Among
    <3>3. a \in Resolved(hostlist) <=>
              \E i \in 1 .. Len(hostlist) :
                  hostlist[i].port = "good" /\ Among(a, hostlist[i].addresses)
      BY <2>2, <3>2 DEF Resolved
    <3> QED
      BY <3>1, <3>3 DEF Found, Known
  <2>4. ASSUME resolving = "ok"
        PROVE  \A i, j \in DOMAIN addrs : addrs[i] = addrs[j] => i = j
    BY <2>1, <2>4 DEF HostsInv, Complete, Distinct
  <2>5. ASSUME resolving = "ok"
        PROVE  {addrs[i] : i \in DOMAIN addrs} =
                   {a \in Resolved(hostlist) : a.family \in Families}
    BY <2>1, <2>3, <2>5 DEF Among
  <2> QED
    BY <2>4, <2>5 DEF HostsInv, AddressesKept
<1> QED
  BY InitHosts, NextHosts, <1>1, PTL DEF Spec

-----------------------------------------------------------------------------
(* Lists that are taken from the front and built at the end                *)

\* Of a list g of n elements, those behind the first k, and the first k.
Behind(g, k, n) == [i \in 1 .. n - k |-> g[k + i]]
First(g, k) == [i \in 1 .. k |-> g[i]]

\* A function on 1 .. n is a list of n elements.
LEMMA ListOf ==
    ASSUME NEW n \in Nat, NEW g, NEW S, \A i \in 1 .. n : g[i] \in S
    PROVE  /\ First(g, n) \in Seq(S) /\ Len(First(g, n)) = n /\ DOMAIN First(g, n) = 1 .. n
           /\ \A i \in 1 .. n : First(g, n)[i] = g[i]
           /\ n = 0 <=> First(g, n) = <<>>
<1>1. First(g, n) \in Seq(S)
  BY IsASeq DEF First
<1>2. DOMAIN First(g, n) = 1 .. n
  BY DEF First
<1>3. Len(First(g, n)) = n
  BY <1>1, <1>2, LenProperties
<1>4. n = 0 <=> First(g, n) = <<>>
  BY <1>1, <1>3, EmptySeq
<1> QED
  BY <1>1, <1>2, <1>3, <1>4 DEF First

\* One element is taken from the front.
LEMMA TakeOne ==
    ASSUME NEW n \in Nat, NEW k \in 0 .. n, NEW g
    PROVE  /\ k = n => Behind(g, k, n) = <<>>
           /\ k < n => /\ Behind(g, k, n) # <<>> /\ Head(Behind(g, k, n)) = g[k + 1]
                       /\ Tail(Behind(g, k, n)) = Behind(g, k + 1, n)
<1> DEFINE S == {g[k + i] : i \in 1 .. n - k}
           h == [i \in 1 .. n - k |-> g[k + i]]
           s == Behind(g, k, n)
<1>1. n - k \in Nat /\ \A i \in 1 .. n - k : h[i] \in S
  OBVIOUS
<1>2. s = First(h, n - k)
  BY DEF Behind, First
<1> HIDE DEF S, h, s
<1>3. /\ First(h, n - k) \in Seq(S) /\ Len(First(h, n - k)) = n - k
      /\ DOMAIN First(h, n - k) = 1 .. n - k
      /\ \A i \in 1 .. n - k : First(h, n - k)[i] = h[i]
      /\ n - k = 0 <=> First(h, n - k) = <<>>
  BY <1>1, ListOf
<1>4. s \in Seq(S) /\ Len(s) = n - k /\ (n - k = 0 <=> s = <<>>)
  BY <1>2, <1>3
<1>5. \A i \in 1 .. n - k : s[i] = g[k + i]
  BY DEF s, Behind
<1>6. k = n => s = <<>>
  BY <1>4
<1>7. ASSUME k < n
      PROVE  s # <<>> /\ Head(s) = g[k + 1] /\ Tail(s) = Behind(g, k + 1, n)
  <2>1. s # <<>> /\ 1 \in 1 .. n - k
    BY <1>4, <1>7
  <2>2. PICK t : t = Tail(s)
    OBVIOUS
  <2>3. /\ t \in Seq(S) /\ Head(s) = s[1] /\ Len(t) = n - k - 1 /\ DOMAIN t = 1 .. n - k - 1
        /\ \A i \in 1 .. n - k - 1 : t[i] = s[i + 1]
    BY <1>4, <2>1, <2>2, TailFacts
  <2>4. t = [i \in 1 .. n - k - 1 |-> t[i]]
    BY <2>3, LenProperties
  <2>5. ASSUME NEW i \in 1 .. n - k - 1 PROVE t[i] = g[(k + 1) + i]
    <3>1. i + 1 \in 1 .. n - k /\ k + (i + 1) = (k + 1) + i
      OBVIOUS
    <3> QED
      BY <1>5, <2>3, <3>1
  <2>6. n - (k + 1) = n - k - 1
    OBVIOUS
  <2>7. t = Behind(g, k + 1, n)
    BY <2>4, <2>5, <2>6 DEF Behind
  <2> QED
    BY <1>5, <2>1, <2>2, <2>3, <2>7
<1> QED
  BY <1>6, <1>7 DEF s

\* One element is put at the end.
LEMMA PutOne ==
    ASSUME NEW k \in Nat, NEW g
    PROVE  First(g, 0) = <<>> /\ Append(First(g, k), g[k + 1]) = First(g, k + 1)
<1> DEFINE S == {g[i] : i \in 1 .. k + 1}
<1>1. \A i \in 1 .. k + 1 : g[i] \in S
  OBVIOUS
<1> HIDE DEF S
<1>2. First(g, k) \in Seq(S) /\ Len(First(g, k)) = k /\ \A i \in 1 .. k : First(g, k)[i] = g[i]
  <2>1. \A i \in 1 .. k : g[i] \in S
    BY <1>1
  <2> QED
    BY <2>1, ListOf
<1>3. PICK t : t = Append(First(g, k), g[k + 1])
  OBVIOUS
<1>4. /\ t \in Seq(S) /\ Len(t) = k + 1 /\ t[k + 1] = g[k + 1]
      /\ \A i \in 1 .. k : t[i] = First(g, k)[i]
  <2>1. g[k + 1] \in S
    BY <1>1
  <2> QED
    BY <1>2, <1>3, <2>1, AppendProperties
<1>5. t = [i \in 1 .. k + 1 |-> t[i]]
  BY <1>4, LenProperties
<1>6. \A i \in 1 .. k + 1 : t[i] = g[i]
  BY <1>2, <1>4
<1>7. t = First(g, k + 1)
  BY <1>5, <1>6 DEF First
<1>8. First(g, 0) = <<>>
  <2>1. \A i \in 1 .. 0 : g[i] \in {}
    OBVIOUS
  <2> QED
    BY <2>1, ListOf
<1> QED
  BY <1>3, <1>7, <1>8

-----------------------------------------------------------------------------
(* What a completion reads                                                 *)

SingleCalls == Functions \cup {zoo_aset_acl}

\* The completion of a function reads the record its operation is answered with.
LEMMA ReadsRight ==
    \A fn \in SingleCalls \cup OpFunctions :
        fn.completion # "COMPLETION_VOID" => RecordRead(fn.completion) = Response(fn.op)
BY DEF SingleCalls, Functions, OpFunctions, Function, RecordRead, Response, zoo_awget, zoo_aset,
   zoo_acreate, zoo_adelete, zoo_awexists, zoo_awget_children, zoo_awget_children2, zoo_async,
   zoo_aget_acl, zoo_aset_acl, zoo_check, SetDataResponse, ExistsResponse, CreateResponse, SyncResponse

\* What an operation of a multi request is called.
LEMMA NotError ==
    \A fn \in OpFunctions : fn.op # "-1"
BY DEF OpFunctions, Function, zoo_aset, zoo_acreate, zoo_adelete, zoo_check

\* No single call has the completion of a multi request.
LEMMA NotMulti ==
    \A fn \in SingleCalls : fn.completion # "COMPLETION_MULTI"
BY DEF SingleCalls, Functions, Function, zoo_awget, zoo_aset, zoo_acreate, zoo_adelete,
   zoo_awexists, zoo_awget_children, zoo_awget_children2, zoo_async, zoo_aget_acl, zoo_aset_acl

\* The entry of each operation.
Entry(ops, i) == [index |-> i, type |-> ops[i].fn.completion]
EntryList(ops, n) == [i \in 1 .. n |-> Entry(ops, i)]

\* The entries are queued in the order of the operations.
LEMMA EntriesInOrder ==
    ASSUME NEW n \in Nat, NEW ops \in [1 .. n -> Operation]
    PROVE  Entries(ops) = Behind(EntryList(ops, n), 0, n)
<1>1. Len(ops) = n
  <2>1. ops = First(ops, n) /\ \A i \in 1 .. n : ops[i] \in Operation
    BY DEF First
  <2> QED
    BY <2>1, ListOf
<1> DEFINE E == {Entry(ops, i) : i \in 1 .. n}
           F == [x \in Seq(E) \X (1 .. n) |-> Queued(x[1], Entry(ops, x[2]))]
           Body(h, i) == IF i = 0 THEN <<>>
                         ELSE Queued(h[i - 1], [index |-> i, type |-> ops[i].fn.completion])
<1>2. \A i \in 1 .. n : Entry(ops, i) \in E
  OBVIOUS
<1>3. <<>> \in Seq(E)
  OBVIOUS
<1>4. /\ F \in [Seq(E) \X (1 .. n) -> Seq(E)]
      /\ \A s \in Seq(E), i \in 1 .. n : F[<<s, i>>] = Queued(s, Entry(ops, i))
  <2> HIDE DEF E
  <2>1. \A s \in Seq(E), i \in 1 .. n : Queued(s, Entry(ops, i)) \in Seq(E)
    BY <1>2, AppendProperties DEF Queued
  <2> QED
    BY <2>1
<1> HIDE DEF F, E
<1>5. PICK g \in [0 .. n -> Seq(E)] : Unrolls(g, <<>>, F, n)
  BY <1>3, <1>4, Recursion
<1>6. ASSUME NEW i \in 0 .. n PROVE g[i] = Body(g, i)
  <2>1. CASE i = 0
    BY <1>5, <2>1 DEF Unrolls
  <2>2. CASE i # 0
    <3>1. i \in 1 .. n /\ g[i - 1] \in Seq(E)
      BY <1>5, <2>2
    <3>2. g[i] = Queued(g[i - 1], Entry(ops, i))
      BY <1>4, <1>5, <3>1 DEF Unrolls
    <3> QED
      BY <2>2, <3>2 DEF Entry
  <2> QED
    BY <2>1, <2>2
<1>7. g = [i \in 0 .. Len(ops) |-> Body(g, i)]
  <2> HIDE DEF Body
  <2> QED
    BY <1>1, <1>5, <1>6
<1>8. PICK h : h = [i \in 0 .. Len(ops) |-> Body(h, i)] /\ Entries(ops) = h[Len(ops)]
  BY <1>7 DEF Entries
<1>9. h[0] = <<>> /\ \A i \in 1 .. n : h[i] = Append(h[i - 1], Entry(ops, i))
  <2>1. \A i \in 0 .. n : h[i] = Body(h, i)
    <3> HIDE DEF Body
    <3> QED
      BY <1>1, <1>8
  <2>2. 0 \in 0 .. n /\ Body(h, 0) = <<>>
    OBVIOUS
  <2>3. ASSUME NEW i \in 1 .. n PROVE i \in 0 .. n /\ Body(h, i) = Append(h[i - 1], Entry(ops, i))
    BY DEF Queued, Entry
  <2> HIDE DEF Body
  <2> QED
    BY <2>1, <2>2, <2>3
<1> HIDE DEF Body
<1> DEFINE G == EntryList(ops, n)
           T == {i \in 0 .. n : h[i] = First(G, i)}
<1> HIDE DEF G
<1>10. 0 \in T
  <2>1. 0 \in 0 .. n /\ First(G, 0) = <<>>
    BY PutOne
  <2> QED
    BY <1>9, <2>1
<1>11. ASSUME NEW i \in 1 .. n, i - 1 \in T PROVE i \in T
  <2>1. PICK k \in Nat : k = i - 1 /\ k + 1 = i
    OBVIOUS
  <2>2. h[k] = First(G, k)
    BY <1>11, <2>1
  <2>3. Append(First(G, k), G[k + 1]) = First(G, k + 1)
    BY PutOne
  <2>4. G[i] = Entry(ops, i)
    BY DEF G, EntryList
  <2>5. h[i] = Append(h[k], Entry(ops, i))
    BY <1>9, <2>1
  <2>6. h[i] = First(G, i)
    BY <2>1, <2>2, <2>3, <2>4, <2>5
  <2> QED
    BY <2>6
<1> HIDE DEF T
<1>12. n \in T
  <2>1. \A i \in 1 .. n : i - 1 \in T => i \in T
    BY <1>11
  <2>2. 0 .. n \subseteq T
    BY <1>10, <2>1, Climb
  <2> QED
    BY <2>2
<1>13. First(EntryList(ops, n), n) = Behind(EntryList(ops, n), 0, n)
  BY DEF First, Behind, EntryList
<1> QED
  BY <1>1, <1>8, <1>12, <1>13 DEF G, T

-----------------------------------------------------------------------------
(* The answer of a multi request                                           *)

\* Operation f has failed, or none if f is 0: the code of each, the records of the answer,
\* what the completions are told, and the code of the request after k of them.
Error(f, i) == IF f = 0 \/ i < f THEN "ZOK"
               ELSE IF i = f THEN "ZNODEEXISTS" ELSE "ZRUNTIMEINCONSISTENCY"
ItemOf(ops, f, i) == IF f = 0 THEN Item(ops[i].fn.op) ELSE ErrorItem(Error(f, i))
Items(ops, n, f) == [i \in 1 .. n + 1 |-> IF i = n + 1 THEN End ELSE ItemOf(ops, f, i)]
Outcome(ops, f, i) ==
    [index |-> i, err |-> Error(f, i),
     read |-> IF f = 0 THEN RecordRead(ops[i].fn.completion) ELSE <<>>,
     there |-> IF f = 0 THEN Response(ops[i].fn.op) ELSE <<>>]
Outcomes(ops, n, f) == [i \in 1 .. n |-> Outcome(ops, f, i)]
CodeAfter(f, k) == IF f # 0 /\ f <= k THEN "ZNODEEXISTS" ELSE "ZOK"
HeaderOf(item) == [type |-> item.type, done |-> item.done, err |-> item.err]

\* The n operations of the request that is out.
Asked(n) ==
    /\ call.ops \in [1 .. n -> Operation]
    /\ Len(sent) = n /\ DOMAIN sent = 1 .. n
    /\ \A i \in 1 .. n : sent[i].op = call.ops[i].fn.op

\* The first k entries have been told their outcomes.
ToldSoFar(n, f, k) ==
    /\ wire = Behind(Items(call.ops, n, f), k, n + 1)
    /\ clist = Behind(EntryList(call.ops, n), k, n)
    /\ results = First(Outcomes(call.ops, n, f), k) /\ rc = CodeAfter(f, k)

Multi == call.type = "COMPLETION_MULTI"
Lost == wire = <<>> /\ ~mhdr.done

Waiting(n) ==
    /\ Asked(n) /\ clist = Behind(EntryList(call.ops, n), 0, n) /\ results = <<>> /\ ~mhdr.done
    /\ stage = "answered" => \/ wire = <<>>
                             \/ \E f \in 0 .. n : wire = Behind(Items(call.ops, n, f), 0, n + 1)
Reading(n) ==
    /\ Asked(n)
    /\ \/ Lost
       \/ \E f \in 0 .. n, k \in 0 .. n :
             ToldSoFar(n, f, k) /\ mhdr = HeaderOf(Items(call.ops, n, f)[k + 1])

CallsInv ==
    /\ stage = "idle" => results = <<>> /\ ~mhdr.done
    /\ stage \in {"asked", "answered"} /\ ~Multi =>
           \E fn \in SingleCalls : call.fn = fn.op /\ call.type = fn.completion
    /\ stage = "answered" /\ ~Multi /\ rc = "ZOK" => wire = <<[record |-> Response(call.fn)]>>
    /\ ReplyReadable
    /\ stage \in {"asked", "answered"} /\ Multi => \E n \in Nat : Waiting(n)
    /\ stage = "multi" => Multi /\ \E n \in Nat : Reading(n)
    /\ stage = "told" /\ Multi =>
           \E n \in Nat : Asked(n) /\ \E f \in 0 .. n : ToldSoFar(n, f, n)

\* No call has been made.
LEMMA InitCalls == Init => CallsInv
BY DEF Init, CallsInv, ReplyReadable, ZeroHeader, Multi

\* A call of one operation.
LEMMA SubmitCalls ==
    ASSUME CallsInv, stage = "idle", NEW fn \in SingleCalls,
           NEW path, NEW sequence, NEW state, NEW array, Submit(fn, path, sequence, state, array)
    PROVE  CallsInv'
<1>1. /\ call'.fn = fn.op /\ call'.type = fn.completion /\ stage' \in {"asked", "refused"}
      /\ ~Multi'
  BY NotMulti DEF Submit, Multi
<1> QED
  BY <1>1 DEF CallsInv, ReplyReadable

\* A multi request of n operations, with the code the caller is told.
Requested(n, ops, code) ==
    /\ call' = [fn |-> "ZOO_MULTI_OP", ops |-> ops, type |-> "COMPLETION_MULTI"]
    /\ stage' \in IF code = "ZOK" THEN {"asked"} ELSE {"refused", "undefined"}
    /\ code = "ZOK" => \A i \in 1 .. n : isValidPath(prepend_string(chroot, ops[i].path), ops[i].sequence)
    /\ clist' = IF code = "ZOK" THEN Entries(ops) ELSE <<>>
    /\ sent' = IF code # "ZOK" THEN <<>>
               ELSE [i \in 1 .. n |-> [op |-> ops[i].fn.op, request |-> ops[i].fn.request,
                                      path |-> prepend_string(chroot, ops[i].path), acl |-> <<>>]]
    /\ UNCHANGED <<wire, mhdr, results>>

\* What zoo_amulti() makes of them.
Made(n, state, ops) ==
    LET bad == {i \in 1 .. n : OpError(ops[i], state) # "ZOK"}
        code == IF bad # {} THEN "ZMARSHALLINGERROR" ELSE Added(state)
        wild == \E i \in bad : chroot # NoChroot \/ i < n
    IN  /\ call' = [fn |-> "ZOO_MULTI_OP", ops |-> ops, type |-> "COMPLETION_MULTI"]
        /\ stage' \in IF code = "ZOK" THEN {"asked"}
                     ELSE IF wild THEN {"refused", "undefined"} ELSE {"refused"}
        /\ clist' = IF code = "ZOK" THEN Entries(ops) ELSE <<>>
        /\ sent' = IF code # "ZOK" THEN <<>>
                   ELSE [i \in 1 .. n |-> [op |-> ops[i].fn.op, request |-> ops[i].fn.request,
                                          path |-> prepend_string(chroot, ops[i].path), acl |-> <<>>]]
        /\ UNCHANGED <<wire, mhdr, results>>

\* They are sent only if the paths of all of them are valid.
LEMMA MultiRequested ==
    ASSUME zoo_amulti
    PROVE  \E n \in 0 .. MaxOps : \E ops \in [1 .. n -> Operation] : \E code : Requested(n, ops, code)
<1>1. PICK n \in 0 .. MaxOps : \E state \in States : \E ops \in [1 .. n -> Operation] : Made(n, state, ops)
  BY DEF zoo_amulti, Made
<1>2. PICK state \in States : \E ops \in [1 .. n -> Operation] : Made(n, state, ops)
  BY <1>1
<1>3. PICK ops \in [1 .. n -> Operation] : Made(n, state, ops)
  BY <1>2
<1> DEFINE bad == {i \in 1 .. n : OpError(ops[i], state) # "ZOK"}
           code == IF bad # {} THEN "ZMARSHALLINGERROR" ELSE Added(state)
<1>4. ASSUME code = "ZOK", NEW i \in 1 .. n
      PROVE  isValidPath(prepend_string(chroot, ops[i].path), ops[i].sequence)
  <2>1. OpError(ops[i], state) = "ZOK"
    BY <1>4
  <2> QED
    BY <2>1 DEF OpError, PathError
<1>5. Requested(n, ops, code)
  BY <1>3, <1>4 DEF Made, Requested
<1> QED
  BY <1>5

\* A multi request is made.
LEMMA MultiCalls == CallsInv /\ zoo_amulti => CallsInv'
<1> SUFFICES ASSUME CallsInv, zoo_amulti PROVE CallsInv'
  OBVIOUS
<1>1. PICK n \in 0 .. MaxOps : \E ops \in [1 .. n -> Operation] : \E code : Requested(n, ops, code)
  BY MultiRequested
<1>2. n \in Nat
  BY CallsAssumption DEF CallsAssumption
<1>3. PICK ops \in [1 .. n -> Operation] : \E code : Requested(n, ops, code)
  BY <1>1
<1>4. PICK code : Requested(n, ops, code)
  BY <1>3
<1>5. stage = "idle" /\ results = <<>> /\ ~mhdr.done
  BY DEF zoo_amulti, Ready, CallsInv
<1>6. CASE stage' \in {"refused", "undefined"}
  BY <1>6 DEF CallsInv, ReplyReadable
<1>7. CASE stage' = "asked"
  <2> DEFINE g == [i \in 1 .. n |-> [op |-> ops[i].fn.op, request |-> ops[i].fn.request,
                                     path |-> prepend_string(chroot, ops[i].path), acl |-> <<>>]]
  <2>1. clist' = Entries(ops) /\ sent' = g /\ call'.ops = ops /\ Multi'
    BY <1>4, <1>7 DEF Multi, Requested
  <2>2. g = First(g, n) /\ \A i \in 1 .. n : g[i] \in {g[j] : j \in 1 .. n}
    BY DEF First
  <2>3. \A i \in 1 .. n : g[i].op = ops[i].fn.op
    OBVIOUS
  <2> HIDE DEF g
  <2>4. Len(g) = n /\ DOMAIN g = 1 .. n
    BY <1>2, <2>2, ListOf
  <2>5. clist' = Behind(EntryList(ops, n), 0, n)
    BY <1>2, <2>1, EntriesInOrder
  <2>6. Asked(n)'
    BY <2>1, <2>3, <2>4 DEF Asked
  <2>7. Waiting(n)'
    BY <1>4, <1>5, <1>7, <2>1, <2>5, <2>6 DEF Waiting, Requested
  <2> QED
    BY <1>2, <1>7, <2>1, <2>7 DEF CallsInv, ReplyReadable
<1> QED
  BY <1>4, <1>6, <1>7 DEF Requested

\* The server answers, or the connection is lost.
LEMMA AnswerCalls ==
    CallsInv /\ (ServerAnswers \/ ServerAnswersMulti \/ ConnectionLost) => CallsInv'
<1> SUFFICES ASSUME CallsInv, ServerAnswers \/ ServerAnswersMulti \/ ConnectionLost PROVE CallsInv'
  OBVIOUS
<1>1. PICK records, code : Answer(records, code)
  BY DEF ServerAnswers, ServerAnswersMulti, ConnectionLost
<1>2. /\ stage = "asked" /\ stage' = "answered" /\ wire' = records /\ rc' = code
      /\ call' = call /\ sent' = sent /\ clist' = clist /\ mhdr' = mhdr /\ results' = results
      /\ Multi' = Multi
  BY <1>1 DEF Answer, Multi
<1>3. CASE ~Multi
  <2>1. rc' = "ZOK" => wire' = <<[record |-> Response(call.fn)]>>
    BY <1>3 DEF ServerAnswers, ServerAnswersMulti, ConnectionLost, Answer, Multi
  <2>2. \E fn \in SingleCalls : call.fn = fn.op /\ call.type = fn.completion
    BY <1>2, <1>3 DEF CallsInv
  <2> QED
    BY <1>2, <1>3, <2>1, <2>2 DEF CallsInv, ReplyReadable
<1>4. CASE Multi
  <2>1. PICK n \in Nat : Waiting(n)
    BY <1>2, <1>4 DEF CallsInv
  <2>2. Asked(n)'
    BY <1>2, <2>1 DEF Waiting, Asked
  <2>3. wire' = <<>> \/ \E f \in 0 .. n : wire' = Behind(Items(call.ops, n, f), 0, n + 1)
    <3>1. CASE ConnectionLost
      BY <3>1 DEF ConnectionLost, Answer
    <3>2. ASSUME NEW f \in 0 .. n, NEW c,
                 wire' = [i \in 1 .. n |-> c[i]] \o <<End>>,
                 \A i \in 1 .. n : c[i] = ItemOf(call.ops, f, i)
          PROVE  wire' = Behind(Items(call.ops, n, f), 0, n + 1)
      <4> DEFINE G == Items(call.ops, n, f)
                 S == {G[i] : i \in 1 .. n + 1}
      <4>1. \A i \in 1 .. n : c[i] = G[i]
        BY <3>2 DEF Items
      <4>2. G[n + 1] = End
        BY DEF Items
      <4>3. [i \in 1 .. n |-> c[i]] = First(G, n)
        <5> HIDE DEF G
        <5> QED
          BY <4>1 DEF First
      <4>4. First(G, n) \in Seq(S) /\ G[n + 1] \in S
        <5>1. \A i \in 1 .. n + 1 : G[i] \in S
          OBVIOUS
        <5> HIDE DEF G, S
        <5>2. \A i \in 1 .. n : G[i] \in S
          BY <5>1
        <5>3. First(G, n) \in Seq(S)
          BY <5>2, ListOf
        <5> QED
          BY <5>1, <5>3
      <4> HIDE DEF S, G
      <4>5. First(G, n) \o <<End>> = Append(First(G, n), End)
        BY <4>2, <4>4
      <4>6. wire' = First(G, n + 1)
        BY <3>2, <4>2, <4>3, <4>5, PutOne
      <4>7. First(G, n + 1) = Behind(G, 0, n + 1)
        BY DEF First, Behind
      <4> QED
        BY <4>6, <4>7 DEF G
    <3>3. CASE ServerAnswersMulti
      <4>1. Len(sent) = n /\ \A i \in 1 .. n : sent[i].op = call.ops[i].fn.op
        BY <2>1 DEF Waiting, Asked
      <4>2. CASE wire' = [i \in 1 .. n |-> Item(sent[i].op)] \o <<End>>
        <5> DEFINE c == [i \in 1 .. n |-> Item(sent[i].op)]
        <5>1. \A i \in 1 .. n : c[i] = ItemOf(call.ops, 0, i)
          BY <4>1 DEF ItemOf
        <5>2. wire' = [i \in 1 .. n |-> c[i]] \o <<End>> /\ 0 \in 0 .. n
          BY <4>2
        <5> HIDE DEF c
        <5> QED
          BY <3>2, <5>1, <5>2
      <4>3. ASSUME NEW f \in 1 .. n,
                   wire' = [i \in 1 .. n |-> ErrorItem(IF i < f THEN "ZOK" ELSE IF i = f THEN "ZNODEEXISTS"
                                             ELSE "ZRUNTIMEINCONSISTENCY")] \o <<End>>
            PROVE  \E g \in 0 .. n : wire' = Behind(Items(call.ops, n, g), 0, n + 1)
        <5> DEFINE c == [i \in 1 .. n |-> ErrorItem(IF i < f THEN "ZOK" ELSE IF i = f THEN "ZNODEEXISTS"
                                             ELSE "ZRUNTIMEINCONSISTENCY")]
        <5>1. \A i \in 1 .. n : c[i] = ItemOf(call.ops, f, i)
          BY DEF ItemOf, Error
        <5>2. wire' = [i \in 1 .. n |-> c[i]] \o <<End>> /\ f \in 0 .. n
          BY <4>3
        <5> HIDE DEF c
        <5> QED
          BY <3>2, <5>1, <5>2
      <4> QED
        BY <3>3, <4>1, <4>2, <4>3 DEF ServerAnswersMulti, Answer
    <3> QED
      BY <1>4, <3>1, <3>3 DEF ServerAnswers, Multi
  <2>4. Waiting(n)'
    BY <1>2, <2>1, <2>2, <2>3 DEF Waiting
  <2> QED
    BY <1>2, <1>4, <2>4 DEF CallsInv, ReplyReadable
<1> QED
  BY <1>3, <1>4

\* The completion of one operation.
LEMMA TellCalls == CallsInv /\ deserialize_response => CallsInv'
<1> SUFFICES ASSUME CallsInv, deserialize_response PROVE CallsInv'
  OBVIOUS
<1>1. /\ stage = "answered" /\ ~Multi /\ stage' = "told" /\ ~Multi' /\ call' = call
      /\ results' = <<Told(1, call.type, rc, wire)>>
  BY DEF deserialize_response, Multi
<1>2. PICK fn \in SingleCalls : call.fn = fn.op /\ call.type = fn.completion
  BY <1>1 DEF CallsInv
<1>3. results'[1] = Told(1, call.type, rc, wire)
  BY <1>1
<1>4. ReadsWhatIsThere(call.type, Told(1, call.type, rc, wire))
  <2>1. CASE rc = "ZOK"
    <3>1. wire = <<[record |-> Response(call.fn)]>>
      BY <1>1, <2>1 DEF CallsInv
    <3>2. wire # <<>> /\ Head(wire).record = Response(call.fn)
      BY <3>1
    <3>3. call.type # "COMPLETION_VOID" => RecordRead(call.type) = Response(call.fn)
      BY <1>2, ReadsRight
    <3> QED
      BY <2>1, <3>2, <3>3 DEF Told, ReadsWhatIsThere
  <2>2. CASE rc # "ZOK"
    BY <2>2 DEF Told, ReadsWhatIsThere
  <2> QED
    BY <2>1, <2>2
<1>5. ReplyReadable'
  BY <1>1, <1>3, <1>4 DEF ReplyReadable
<1> QED
  BY <1>1, <1>5 DEF CallsInv

\* The records of an answer.
LEMMA ItemFacts ==
    ASSUME NEW n \in Nat, NEW k \in 0 .. n, NEW f \in 0 .. n, Asked(n)
    PROVE  LET m == HeaderOf(Items(call.ops, n, f)[k + 1]) IN
           /\ m.done <=> k = n
           /\ k < n => /\ m.type = "-1" <=> f # 0
                       /\ m.err = Error(f, k + 1)
                       /\ Items(call.ops, n, f)[k + 1] = ItemOf(call.ops, f, k + 1)
<1>1. k + 1 \in 1 .. n + 1
  OBVIOUS
<1>2. CASE k = n
  BY <1>1, <1>2 DEF Items, HeaderOf, End
<1>3. CASE k < n
  <2>1. Items(call.ops, n, f)[k + 1] = ItemOf(call.ops, f, k + 1)
    BY <1>1, <1>3 DEF Items
  <2>2. call.ops[k + 1].fn.op # "-1"
    BY <1>3, NotError DEF Asked, Operation
  <2>3. CASE f = 0
    BY <1>3, <2>1, <2>2, <2>3 DEF ItemOf, Item, HeaderOf, Error
  <2>4. CASE f # 0
    BY <1>3, <2>1, <2>4 DEF ItemOf, ErrorItem, HeaderOf
  <2> QED
    BY <2>1, <2>3, <2>4
<1> QED
  BY <1>2, <1>3

\* The answer of a multi request is begun.
LEMMA StartCalls == CallsInv /\ StartMulti => CallsInv'
<1> SUFFICES ASSUME CallsInv, StartMulti PROVE CallsInv'
  OBVIOUS
<1>1. /\ stage = "answered" /\ Multi /\ stage' = "multi" /\ Multi'
      /\ rc' = "ZOK" /\ mhdr' = HeaderIn(wire)
      /\ call' = call /\ sent' = sent /\ wire' = wire /\ clist' = clist /\ results' = results
  BY DEF StartMulti, Multi
<1>2. PICK n \in Nat : Waiting(n)
  BY <1>1 DEF CallsInv
<1>3. Asked(n)'
  BY <1>1, <1>2 DEF Waiting, Asked
<1>4. CASE wire = <<>>
  <2>1. Lost'
    BY <1>1, <1>2, <1>4 DEF Waiting, HeaderIn, Lost
  <2> QED
    BY <1>1, <1>3, <2>1 DEF CallsInv, Reading, ReplyReadable
<1>5. CASE wire # <<>>
  <2>1. PICK f \in 0 .. n : wire = Behind(Items(call.ops, n, f), 0, n + 1)
    BY <1>1, <1>2, <1>5 DEF Waiting
  <2>2. Head(wire) = Items(call.ops, n, f)[0 + 1]
    BY <2>1, TakeOne
  <2>3. mhdr' = HeaderOf(Items(call.ops, n, f)[0 + 1])
    BY <1>1, <1>5, <2>2 DEF HeaderIn, HeaderOf
  <2>4. First(Outcomes(call.ops, n, f), 0) = <<>> /\ CodeAfter(f, 0) = "ZOK"
    BY PutOne DEF CodeAfter
  <2>5. ToldSoFar(n, f, 0)'
    BY <1>1, <1>2, <2>1, <2>4 DEF ToldSoFar, Waiting
  <2>6. 0 \in 0 .. n
    OBVIOUS
  <2>7. Reading(n)'
    BY <1>1, <1>3, <2>3, <2>5, <2>6 DEF Reading
  <2> QED
    BY <1>1, <2>7 DEF CallsInv, ReplyReadable
<1> QED
  BY <1>4, <1>5

\* The outcome of one operation is appended.
LEMMA NextOutcome ==
    ASSUME NEW n \in Nat, NEW k \in 0 .. n, k < n, NEW f \in 0 .. n, Asked(n),
           ToldSoFar(n, f, k), mhdr = HeaderOf(Items(call.ops, n, f)[k + 1]), TakeEntry
    PROVE  results' = First(Outcomes(call.ops, n, f), k + 1) /\ rc' = CodeAfter(f, k + 1)
<1>1. /\ mhdr.type = "-1" <=> f # 0
      /\ mhdr.err = Error(f, k + 1)
      /\ Items(call.ops, n, f)[k + 1] = ItemOf(call.ops, f, k + 1)
  BY ItemFacts
<1>2. wire # <<>> /\ Head(wire) = ItemOf(call.ops, f, k + 1)
  <2>1. k \in 0 .. n + 1 /\ k < n + 1 /\ n + 1 \in Nat
    OBVIOUS
  <2> QED
    BY <1>1, <2>1, TakeOne DEF ToldSoFar
<1>3. Head(clist) = Entry(call.ops, k + 1)
  <2>1. Head(clist) = EntryList(call.ops, n)[k + 1]
    BY TakeOne DEF ToldSoFar
  <2> QED
    BY <2>1 DEF EntryList
<1>4. Append(results, Outcome(call.ops, f, k + 1)) = First(Outcomes(call.ops, n, f), k + 1)
  <2>1. Outcomes(call.ops, n, f)[k + 1] = Outcome(call.ops, f, k + 1)
    BY DEF Outcomes
  <2>2. k \in Nat
    OBVIOUS
  <2>3. Append(First(Outcomes(call.ops, n, f), k), Outcomes(call.ops, n, f)[k + 1])
            = First(Outcomes(call.ops, n, f), k + 1)
    BY <2>2, PutOne
  <2>4. results = First(Outcomes(call.ops, n, f), k)
    BY DEF ToldSoFar
  <2> QED
    BY <2>1, <2>3, <2>4
<1>5. CASE f # 0
  <2>1. /\ rc' = Worse(rc, mhdr.err)
        /\ results' = Append(results, [index |-> Head(clist).index, err |-> mhdr.err,
                                       read |-> <<>>, there |-> <<>>])
    BY <1>1, <1>5 DEF TakeEntry
  <2>2. [index |-> Head(clist).index, err |-> mhdr.err, read |-> <<>>, there |-> <<>>]
            = Outcome(call.ops, f, k + 1)
    BY <1>1, <1>3, <1>5 DEF Outcome, Entry
  <2>3. rc' = CodeAfter(f, k + 1)
    BY <1>1, <1>5, <2>1 DEF Worse, CodeAfter, Error, ToldSoFar
  <2> QED
    BY <1>4, <2>1, <2>2, <2>3
<1>6. CASE f = 0
  <2>1. rc' = rc /\ results' = Append(results, Told(Head(clist).index, Head(clist).type, mhdr.err, wire))
    BY <1>1, <1>6 DEF TakeEntry
  <2>2. mhdr.err = "ZOK" /\ Head(wire).record = Response(call.ops[k + 1].fn.op)
    BY <1>1, <1>2, <1>6 DEF Error, ItemOf, Item
  <2>3. Told(Head(clist).index, Head(clist).type, mhdr.err, wire) = Outcome(call.ops, f, k + 1)
    BY <1>2, <1>3, <1>6, <2>2 DEF Told, Outcome, Entry, Error
  <2>4. rc' = CodeAfter(f, k + 1)
    BY <1>6, <2>1 DEF CodeAfter, ToldSoFar
  <2> QED
    BY <1>4, <2>1, <2>3, <2>4
<1> QED
  BY <1>5, <1>6

\* One turn of the loop.
LEMMA TakeCalls == CallsInv /\ TakeEntry => CallsInv'
<1> SUFFICES ASSUME CallsInv, TakeEntry PROVE CallsInv'
  OBVIOUS
<1>1. /\ stage = "multi" /\ stage' = "multi" /\ call' = call /\ sent' = sent
      /\ ~mhdr.done /\ clist # <<>> /\ clist' = Tail(clist)
      /\ wire' = IF wire = <<>> THEN <<>> ELSE Tail(wire)
      /\ mhdr' = HeaderIn(wire')
  BY DEF TakeEntry
<1>2. PICK n \in Nat : Reading(n)
  BY <1>1 DEF CallsInv
<1>3. Asked(n) /\ Asked(n)' /\ Multi /\ Multi'
  BY <1>1, <1>2 DEF Reading, Asked, CallsInv, Multi
<1>4. CASE Lost
  <2>1. Lost'
    BY <1>1, <1>4 DEF Lost, HeaderIn
  <2> QED
    BY <1>1, <1>3, <2>1 DEF CallsInv, Reading, ReplyReadable
<1>5. ASSUME NEW f \in 0 .. n, NEW k \in 0 .. n,
             ToldSoFar(n, f, k), mhdr = HeaderOf(Items(call.ops, n, f)[k + 1])
      PROVE  CallsInv'
  <2>1. k < n /\ k + 1 \in 0 .. n /\ k + 1 \in 0 .. n + 1
    <3>1. k # n
      BY <1>1, <1>3, <1>5, ItemFacts
    <3> QED
      BY <3>1
  <2>2. results' = First(Outcomes(call.ops, n, f), k + 1) /\ rc' = CodeAfter(f, k + 1)
    BY <1>3, <1>5, <2>1, NextOutcome
  <2>3. clist' = Behind(EntryList(call.ops, n), k + 1, n)
    BY <1>1, <1>5, <2>1, TakeOne DEF ToldSoFar
  <2>4. /\ wire' = Behind(Items(call.ops, n, f), k + 1, n + 1)
        /\ wire' # <<>> /\ Head(wire') = Items(call.ops, n, f)[(k + 1) + 1]
    <3>1. k \in 0 .. n + 1 /\ k < n + 1 /\ k + 1 < n + 1 /\ n + 1 \in Nat
      BY <2>1
    <3>2. wire # <<>> /\ Tail(wire) = Behind(Items(call.ops, n, f), k + 1, n + 1)
      BY <1>5, <3>1, TakeOne DEF ToldSoFar
    <3> QED
      BY <1>1, <2>1, <3>1, <3>2, TakeOne
  <2>5. mhdr' = HeaderOf(Items(call.ops, n, f)[(k + 1) + 1])
    BY <1>1, <2>4 DEF HeaderIn, HeaderOf
  <2>6. ToldSoFar(n, f, k + 1)'
    BY <1>1, <2>2, <2>3, <2>4 DEF ToldSoFar
  <2>7. Reading(n)'
    BY <1>1, <1>3, <2>1, <2>5, <2>6 DEF Reading
  <2> QED
    BY <1>1, <1>3, <2>7 DEF CallsInv, ReplyReadable
<1> QED
  BY <1>2, <1>4, <1>5 DEF Reading

\* The end of the answer.
LEMMA EndCalls == CallsInv /\ EndMulti => CallsInv'
<1> SUFFICES ASSUME CallsInv, EndMulti PROVE CallsInv'
  OBVIOUS
<1>1. /\ stage = "multi" /\ stage' = "told" /\ mhdr.done /\ call' = call /\ sent' = sent
      /\ wire' = wire /\ clist' = clist /\ results' = results /\ rc' = rc
  BY DEF EndMulti
<1>2. PICK n \in Nat : Reading(n)
  BY <1>1 DEF CallsInv
<1>3. Asked(n) /\ Asked(n)' /\ Multi /\ Multi'
  BY <1>1, <1>2 DEF Reading, Asked, CallsInv, Multi
<1>4. PICK f \in 0 .. n, k \in 0 .. n :
          ToldSoFar(n, f, k) /\ mhdr = HeaderOf(Items(call.ops, n, f)[k + 1])
  BY <1>1, <1>2 DEF Reading, Lost
<1>5. k = n
  BY <1>1, <1>3, <1>4, ItemFacts
<1>6. ToldSoFar(n, f, n)'
  BY <1>1, <1>4, <1>5 DEF ToldSoFar
<1> QED
  BY <1>1, <1>3, <1>6 DEF CallsInv, ReplyReadable, Multi

\* Every step.
LEMMA NextCalls == CallsInv /\ [Next]_vars => CallsInv'
<1> SUFFICES ASSUME CallsInv, [Next]_vars PROVE CallsInv'
  OBVIOUS
<1>1. ASSUME UNCHANGED callVars PROVE CallsInv'
  <2>1. /\ call' = call /\ stage' = stage /\ rc' = rc /\ sent' = sent /\ wire' = wire
        /\ clist' = clist /\ mhdr' = mhdr /\ results' = results
    BY <1>1 DEF callVars
  <2>2. Multi' = Multi /\ Lost' = Lost /\ ReplyReadable' = ReplyReadable
    BY <2>1 DEF Multi, Lost, ReplyReadable
  <2>3. \A n : Asked(n)' = Asked(n) /\ Waiting(n)' = Waiting(n) /\ Reading(n)' = Reading(n)
               /\ \A f, k : ToldSoFar(n, f, k)' = ToldSoFar(n, f, k)
    BY <2>1 DEF Asked, Waiting, Reading, ToldSoFar, Lost
  <2> QED
    BY <2>1, <2>2, <2>3 DEF CallsInv
<1>2. CASE zookeeper_init \/ getaddrs \/ UNCHANGED vars
  BY <1>1, <1>2 DEF zookeeper_init, getaddrs, vars
<1>3. CASE Call
  <2>1. PICK fn \in Functions, path \in ClientPaths, state \in States, sequence \in BOOLEAN :
            Submit(fn, path, sequence, state, <<>>)
    BY <1>3 DEF Call
  <2>2. stage = "idle" /\ fn \in SingleCalls
    BY <1>3 DEF Call, Ready, SingleCalls
  <2> QED
    BY <2>1, <2>2, SubmitCalls
<1>4. CASE setAcl
  <2>1. PICK path \in ClientPaths, array \in Arrays, state \in States :
            Submit(zoo_aset_acl, path, FALSE, state, array)
    BY <1>4 DEF setAcl
  <2>2. stage = "idle" /\ zoo_aset_acl \in SingleCalls
    BY <1>4 DEF setAcl, Ready, SingleCalls
  <2> QED
    BY <2>1, <2>2, SubmitCalls
<1>5. CASE zoo_amulti
  BY <1>5, MultiCalls
<1>6. CASE UnknownOp \/ NoEntry
  BY <1>6 DEF UnknownOp, NoEntry, CallsInv, ReplyReadable
<1>7. CASE ServerAnswers \/ ServerAnswersMulti \/ ConnectionLost
  BY <1>7, AnswerCalls
<1>8. CASE deserialize_response
  BY <1>8, TellCalls
<1>9. CASE StartMulti
  BY <1>9, StartCalls
<1>10. CASE TakeEntry
  BY <1>10, TakeCalls
<1>11. CASE EndMulti
  BY <1>11, EndCalls
<1> QED
  BY <1>2, <1>3, <1>4, <1>5, <1>6, <1>7, <1>8, <1>9, <1>10, <1>11 DEF Next

(* The completion of each function reads the record the server answers its
   operation with (deserialize_response()). *)
THEOREM RightRecord == Spec => []ReplyReadable
<1>1. CallsInv => ReplyReadable
  BY DEF CallsInv
<1> QED
  BY InitCalls, NextCalls, <1>1, PTL DEF Spec

\* What has been told when all has been read.
LEMMA AllTold ==
    ASSUME NEW n \in Nat, NEW f \in 0 .. n, Asked(n), ToldSoFar(n, f, n)
    PROVE  /\ Len(results) = Len(sent)
           /\ \A i \in DOMAIN results :
                /\ results[i].index = i
                /\ ReadsWhatIsThere(call.ops[i].fn.completion, results[i])
           /\ rc = "ZOK" <=> \A i \in DOMAIN results : results[i].err = "ZOK"
           /\ rc # "ZOK" => rc # "ZRUNTIMEINCONSISTENCY" /\ \E i \in DOMAIN results : results[i].err = rc
<1> DEFINE g == Outcomes(call.ops, n, f)
<1>1. \A i \in 1 .. n : g[i] = Outcome(call.ops, f, i)
  BY DEF Outcomes
<1>2. \A i \in 1 .. n : g[i] \in {g[j] : j \in 1 .. n}
  OBVIOUS
<1>3. results = First(g, n) /\ rc = CodeAfter(f, n)
  BY DEF ToldSoFar
<1> HIDE DEF g
<1>4. Len(results) = n /\ DOMAIN results = 1 .. n /\ \A i \in 1 .. n : results[i] = g[i]
  BY <1>2, <1>3, ListOf
<1>5. Len(sent) = n
  BY DEF Asked
<1>6. ASSUME NEW i \in 1 .. n
      PROVE  /\ results[i].index = i /\ results[i].err = Error(f, i)
             /\ ReadsWhatIsThere(call.ops[i].fn.completion, results[i])
  <2>1. results[i] = Outcome(call.ops, f, i)
    BY <1>1, <1>4
  <2>2. call.ops[i].fn \in OpFunctions
    BY DEF Asked, Operation
  <2>3. call.ops[i].fn.completion # "COMPLETION_VOID" =>
            RecordRead(call.ops[i].fn.completion) = Response(call.ops[i].fn.op)
    BY <2>2, ReadsRight
  <2>4. /\ results[i].index = i /\ results[i].err = Error(f, i)
        /\ results[i].read = IF f = 0 THEN RecordRead(call.ops[i].fn.completion) ELSE <<>>
        /\ results[i].there = IF f = 0 THEN Response(call.ops[i].fn.op) ELSE <<>>
    BY <2>1 DEF Outcome
  <2> QED
    BY <2>3, <2>4 DEF ReadsWhatIsThere
<1>7. rc = "ZOK" <=> \A i \in 1 .. n : results[i].err = "ZOK"
  <2>1. CASE f = 0
    BY <1>3, <1>6, <2>1 DEF CodeAfter, Error
  <2>2. CASE f # 0
    <3>1. f \in 1 .. n /\ results[f].err = "ZNODEEXISTS" /\ rc = "ZNODEEXISTS"
      BY <1>3, <1>6, <2>2 DEF CodeAfter, Error
    <3> QED
      BY <3>1
  <2> QED
    BY <2>1, <2>2
<1>8. rc # "ZOK" => rc # "ZRUNTIMEINCONSISTENCY" /\ \E i \in 1 .. n : results[i].err = rc
  <2> SUFFICES ASSUME rc # "ZOK" PROVE rc # "ZRUNTIMEINCONSISTENCY" /\ \E i \in 1 .. n : results[i].err = rc
    OBVIOUS
  <2>1. f \in 1 .. n /\ rc = "ZNODEEXISTS"
    BY <1>3 DEF CodeAfter
  <2>2. results[f].err = "ZNODEEXISTS"
    BY <1>6, <2>1 DEF Error
  <2> QED
    BY <2>1, <2>2
<1> QED
  BY <1>4, <1>5, <1>6, <1>7, <1>8

(* When a multi request has been answered by the server, each completion has been
   told its own operation's outcome, in the order of the operations, and the
   caller the code of the one that failed (deserialize_multi()). *)
THEOREM InOrderOfOperations == Spec => []MultiInOrder
<1>1. CallsInv => MultiInOrder
  <2> SUFFICES ASSUME CallsInv, stage = "told", Multi PROVE MultiInOrder
    BY DEF MultiInOrder, Multi
  <2>1. PICK n \in Nat : Asked(n) /\ \E f \in 0 .. n : ToldSoFar(n, f, n)
    BY DEF CallsInv
  <2>2. PICK f \in 0 .. n : ToldSoFar(n, f, n)
    BY <2>1
  <2> QED
    BY <2>1, <2>2, AllTold DEF MultiInOrder
<1> QED
  BY InitCalls, NextCalls, <1>1, PTL DEF Spec

-----------------------------------------------------------------------------
(* Valid paths                                                             *)

\* The provers do not know of a literal that it is a string.
Chars == STRING \cup {"/", ".", "1"}
Texts == Seq(Chars)

\* The literals are characters.
LEMMA CharFacts == "/" \in Chars /\ "." \in Chars /\ "1" \in Chars
  BY DEF Chars

\* Character strings are texts.
LEMMA TextsFacts == Seq(STRING) \subseteq Texts
<1> SUFFICES ASSUME NEW p \in Seq(STRING) PROVE p \in Texts
  OBVIOUS
<1>1. Len(p) \in Nat /\ p \in [1 .. Len(p) -> STRING]
  BY LenProperties
<1>2. p \in [1 .. Len(p) -> Chars]
  BY <1>1 DEF Chars
<1> QED
  BY <1>1, <1>2 DEF Texts

\* A text of one and of two characters.
LEMMA ShortText ==
    ASSUME NEW S, NEW x \in S, NEW y \in S
    PROVE  /\ <<x>> \in Seq(S) /\ Len(<<x>>) = 1 /\ <<x>>[1] = x
           /\ <<x, y>> \in Seq(S) /\ Len(<<x, y>>) = 2 /\ <<x, y>>[1] = x /\ <<x, y>>[2] = y
  OBVIOUS

\* The slashes at a and b are neighbours, behind p a slash is thought.
Slash(p, i) == i = Len(p) + 1 \/ p[i] = "/"
Neighbours(p, a, b) ==
    /\ a \in 1 .. Len(p) + 1 /\ b \in 1 .. Len(p) + 1 /\ a < b
    /\ Slash(p, a) /\ Slash(p, b) /\ \A i \in a + 1 .. b - 1 : ~Slash(p, i)

\* What stands between them must not.
Faulty(p, a, b) ==
    \/ b = a + 1
    \/ b = a + 2 /\ p[a + 1] = "."
    \/ b = a + 3 /\ p[a + 1] = "." /\ p[a + 2] = "."
    \/ \E i \in a + 1 .. b - 1 : p[i] = Control

\* A component.
LEMMA ComponentFacts ==
    ASSUME NEW p \in Texts, NEW a \in 1 .. Len(p) + 1, NEW b \in 1 .. Len(p) + 1, a < b
    PROVE  LET c == SubSeq(p, a + 1, b - 1) IN
           /\ c \in Texts /\ Len(c) = b - a - 1 /\ DOMAIN c = 1 .. b - a - 1
           /\ \A i \in 1 .. b - a - 1 : c[i] = p[a + i]
<1>1. PICK c : c = SubSeq(p, a + 1, b - 1)
  OBVIOUS
<1>2. PICK n \in Nat : n = Len(p) /\ \A i \in 1 .. n : p[i] \in Chars
  BY LenProperties, ElementOfSeq DEF Texts
<1>3. PICK m \in Nat : m = b - a - 1
  BY <1>2
<1>4. /\ \A i \in a + 1 .. b - 1 : p[i] \in Chars
      /\ a + 1 \in Int /\ b - 1 \in Int
  BY <1>2
<1>5. /\ c \in Seq(Chars)
      /\ Len(c) = IF a + 1 <= b - 1 THEN b - 1 - (a + 1) + 1 ELSE 0
      /\ \A i \in 1 .. b - 1 - (a + 1) + 1 : c[i] = p[a + 1 + i - 1]
  BY <1>1, <1>4, SubSeqProperties
<1>6. b - 1 - (a + 1) + 1 = m /\ (~(a + 1 <= b - 1) => m = 0)
      /\ \A i \in 1 .. m : a + 1 + i - 1 = a + i
  BY <1>2, <1>3
<1>7. Len(c) = m /\ \A i \in 1 .. m : c[i] = p[a + i]
  BY <1>5, <1>6
<1>8. DOMAIN c = 1 .. m
  BY <1>5, <1>7, LenProperties
<1> QED
  BY <1>1, <1>3, <1>5, <1>7, <1>8 DEF Texts

\* Which components are no names.
LEMMA FaultyFacts ==
    ASSUME NEW p \in Texts, NEW a \in 1 .. Len(p) + 1, NEW b \in 1 .. Len(p) + 1, a < b
    PROVE  LET c == SubSeq(p, a + 1, b - 1) IN
           ~Faulty(p, a, b) <=> /\ c \notin {<<>>, <<".">>, <<".", ".">>}
                                /\ \A i \in DOMAIN c : c[i] # Control
<1>1. PICK c : c = SubSeq(p, a + 1, b - 1)
  OBVIOUS
<1>2. PICK n \in Nat : n = Len(p)
  BY LenProperties DEF Texts
<1>3. PICK m \in Nat : m = b - a - 1
  BY <1>2
<1>4. /\ c \in Texts /\ Len(c) = m /\ DOMAIN c = 1 .. m
      /\ \A i \in 1 .. m : c[i] = p[a + i]
  BY <1>1, <1>3, ComponentFacts
<1>5. c = <<>> <=> b = a + 1
  BY <1>2, <1>3, <1>4, EmptySeq DEF Texts
<1>6. c = <<".">> <=> b = a + 2 /\ p[a + 1] = "."
  <2>1. <<".">> \in Seq(Chars) /\ Len(<<".">>) = 1 /\ <<".">>[1] = "."
    BY CharFacts, ShortText
  <2>2. ASSUME c = <<".">> PROVE b = a + 2 /\ p[a + 1] = "."
    <3>1. m = 1 /\ c[1] = "."
      BY <1>4, <2>1, <2>2
    <3> QED
      BY <1>2, <1>3, <1>4, <3>1
  <2>3. ASSUME b = a + 2, p[a + 1] = "." PROVE c = <<".">>
    <3>1. m = 1
      BY <1>2, <1>3, <2>3
    <3>2. c[1] = "."
      BY <1>4, <2>3, <3>1
    <3>3. Len(c) = Len(<<".">>) /\ \A i \in 1 .. Len(c) : c[i] = <<".">>[i]
      BY <1>4, <2>1, <3>1, <3>2
    <3> QED
      BY <1>4, <2>1, <3>3, SeqEqual DEF Texts
  <2> QED
    BY <2>2, <2>3
<1>7. c = <<".", ".">> <=> b = a + 3 /\ p[a + 1] = "." /\ p[a + 2] = "."
  <2>1. <<".", ".">> \in Seq(Chars) /\ Len(<<".", ".">>) = 2
        /\ <<".", ".">>[1] = "." /\ <<".", ".">>[2] = "."
    BY CharFacts, ShortText
  <2>2. ASSUME c = <<".", ".">> PROVE b = a + 3 /\ p[a + 1] = "." /\ p[a + 2] = "."
    <3>1. m = 2 /\ c[1] = "." /\ c[2] = "."
      BY <1>4, <2>1, <2>2
    <3> QED
      BY <1>2, <1>3, <1>4, <3>1
  <2>3. ASSUME b = a + 3, p[a + 1] = ".", p[a + 2] = "." PROVE c = <<".", ".">>
    <3>1. m = 2
      BY <1>2, <1>3, <2>3
    <3>2. c[1] = "." /\ c[2] = "."
      BY <1>4, <2>3, <3>1
    <3>3. \A i \in 1 .. 2 : i = 1 \/ i = 2
      OBVIOUS
    <3>4. Len(c) = Len(<<".", ".">>) /\ \A i \in 1 .. Len(c) : c[i] = <<".", ".">>[i]
      BY <1>4, <2>1, <3>1, <3>2, <3>3
    <3> QED
      BY <1>4, <2>1, <3>4, SeqEqual DEF Texts
  <2> QED
    BY <2>2, <2>3
<1>8. (\E i \in DOMAIN c : c[i] = Control) <=> \E i \in a + 1 .. b - 1 : p[i] = Control
  <2>1. ASSUME NEW i \in 1 .. m, c[i] = Control PROVE \E j \in a + 1 .. b - 1 : p[j] = Control
    <3>1. a + i \in a + 1 .. b - 1
      BY <1>2, <1>3
    <3> QED
      BY <1>4, <2>1, <3>1
  <2>2. ASSUME NEW j \in a + 1 .. b - 1, p[j] = Control PROVE \E i \in 1 .. m : c[i] = Control
    <3>1. j - a \in 1 .. m /\ a + (j - a) = j
      BY <1>2, <1>3
    <3> QED
      BY <1>4, <2>2, <3>1
  <2> QED
    BY <1>4, <2>1, <2>2
<1> QED
  BY <1>1, <1>5, <1>6, <1>7, <1>8 DEF Faulty

\* What a well-formed path is, by its slashes.
LEMMA WellFormedFacts ==
    ASSUME NEW p \in Texts
    PROVE  WellFormed(p) <=>
              /\ p # <<>> /\ p[1] = "/"
              /\ p = <<"/">> \/ \A a, b \in 1 .. Len(p) + 1 : Neighbours(p, a, b) => ~Faulty(p, a, b)
<1>1. PICK n \in Nat, q \in Texts :
          /\ n = Len(p) /\ q = Append(p, "/") /\ Len(q) = n + 1 /\ q[n + 1] = "/"
          /\ \A i \in 1 .. n : q[i] = p[i]
  <2>1. "/" \in Chars /\ Len(p) \in Nat
    BY CharFacts, LenProperties DEF Texts
  <2>2. Append(p, "/") \in Texts
    BY <2>1, AppendProperties DEF Texts
  <2>3. /\ Len(Append(p, "/")) = Len(p) + 1 /\ Append(p, "/")[Len(p) + 1] = "/"
        /\ \A i \in 1 .. Len(p) : Append(p, "/")[i] = p[i]
    BY <2>1, AppendProperties DEF Texts
  <2> QED
    BY <2>1, <2>2, <2>3
<1>2. \A i \in 1 .. n + 1 : q[i] = "/" <=> Slash(p, i)
  BY <1>1 DEF Slash
<1>3. ASSUME NEW a \in 1 .. n + 1, NEW b \in 1 .. n + 1
      PROVE  Neighbours(p, a, b) <=> /\ a < b /\ q[a] = "/" /\ q[b] = "/"
                                     /\ \A i \in (a + 1) .. (b - 1) : ~(q[i] = "/")
  <2>1. \A i \in a + 1 .. b - 1 : i \in 1 .. n + 1
    BY <1>1
  <2> QED
    BY <1>1, <1>2, <2>1 DEF Neighbours
<1>4. \A c : c \in Components(p) <=>
              \E a, b \in 1 .. n + 1 : Neighbours(p, a, b) /\ c = SubSeq(p, a + 1, b - 1)
  <2>1. Components(p) = {SubSeq(p, x[1] + 1, x[2] - 1) :
            x \in {x \in (1 .. n + 1) \X (1 .. n + 1) :
                    /\ x[1] < x[2] /\ q[x[1]] = "/" /\ q[x[2]] = "/"
                    /\ \A i \in (x[1] + 1) .. (x[2] - 1) : ~(q[i] = "/")}}
    BY <1>1 DEF Components
  <2>2. {x \in (1 .. n + 1) \X (1 .. n + 1) :
                    /\ x[1] < x[2] /\ q[x[1]] = "/" /\ q[x[2]] = "/"
                    /\ \A i \in (x[1] + 1) .. (x[2] - 1) : ~(q[i] = "/")}
          = {x \in (1 .. n + 1) \X (1 .. n + 1) : Neighbours(p, x[1], x[2])}
    BY <1>3
  <2> DEFINE Ends == (1 .. n + 1) \X (1 .. n + 1)
             Near(x) == Neighbours(p, x[1], x[2])
             Cut(x) == SubSeq(p, x[1] + 1, x[2] - 1)
  <2>3. Components(p) = {Cut(x) : x \in {x \in Ends : Near(x)}}
    BY <2>1, <2>2
  <2>4. \A x \in Ends : /\ x[1] \in 1 .. n + 1 /\ x[2] \in 1 .. n + 1
                        /\ Near(x) <=> Neighbours(p, x[1], x[2])
    OBVIOUS
  <2>5. \A a, b \in 1 .. n + 1 : /\ <<a, b>> \in Ends
                                 /\ Near(<<a, b>>) <=> Neighbours(p, a, b)
                                 /\ Cut(<<a, b>>) = SubSeq(p, a + 1, b - 1)
    OBVIOUS
  <2>6. \A x : Cut(x) = SubSeq(p, x[1] + 1, x[2] - 1)
    OBVIOUS
  <2> HIDE DEF Near, Cut, Ends
  <2>7. ASSUME NEW c, c \in Components(p)
        PROVE  \E a, b \in 1 .. n + 1 : Neighbours(p, a, b) /\ c = SubSeq(p, a + 1, b - 1)
    <3>1. PICK x \in Ends : Near(x) /\ c = Cut(x)
      BY <2>3, <2>7
    <3>2. /\ x[1] \in 1 .. n + 1 /\ x[2] \in 1 .. n + 1 /\ Neighbours(p, x[1], x[2])
          /\ c = SubSeq(p, x[1] + 1, x[2] - 1)
      BY <2>4, <2>6, <3>1
    <3> QED
      BY <3>2
  <2>8. ASSUME NEW c, NEW a \in 1 .. n + 1, NEW b \in 1 .. n + 1,
               Neighbours(p, a, b), c = SubSeq(p, a + 1, b - 1)
        PROVE  c \in Components(p)
    BY <2>3, <2>5, <2>8
  <2> QED
    BY <2>7, <2>8
<1>5. \A a, b \in 1 .. n + 1 : Neighbours(p, a, b) => a < b
  BY DEF Neighbours
<1> DEFINE Name(c) == /\ c \notin {<<>>, <<".">>, <<".", ".">>}
                      /\ \A i \in DOMAIN c : c[i] # Control
<1>6. ASSUME NEW a \in 1 .. n + 1, NEW b \in 1 .. n + 1, Neighbours(p, a, b)
      PROVE  ~Faulty(p, a, b) <=> Name(SubSeq(p, a + 1, b - 1))
  BY <1>1, <1>5, <1>6, FaultyFacts
<1>7. WellFormed(p) <=> /\ p # <<>> /\ p[1] = "/"
                        /\ p = <<"/">> \/ \A c \in Components(p) : Name(c)
  BY DEF WellFormed
<1> HIDE DEF Name
<1>8. (\A c \in Components(p) : Name(c))
         <=> \A a, b \in 1 .. n + 1 : Neighbours(p, a, b) => ~Faulty(p, a, b)
  <2>1. ASSUME \A c \in Components(p) : Name(c),
               NEW a \in 1 .. n + 1, NEW b \in 1 .. n + 1, Neighbours(p, a, b)
        PROVE  ~Faulty(p, a, b)
    <3>1. PICK c : c = SubSeq(p, a + 1, b - 1)
      OBVIOUS
    <3>2. c \in Components(p)
      BY <1>4, <2>1, <3>1
    <3> QED
      BY <1>6, <2>1, <3>1, <3>2
  <2>2. ASSUME \A a, b \in 1 .. n + 1 : Neighbours(p, a, b) => ~Faulty(p, a, b),
               NEW c \in Components(p)
        PROVE  Name(c)
    <3>1. PICK a \in 1 .. n + 1, b \in 1 .. n + 1 : Neighbours(p, a, b) /\ c = SubSeq(p, a + 1, b - 1)
      BY <1>4
    <3> QED
      BY <1>6, <2>2, <3>1
  <2> QED
    BY <2>1, <2>2
<1> QED
  BY <1>1, <1>7, <1>8

\* A character that is no slash stands between two slashes.
LEMMA Around ==
    ASSUME NEW p \in Texts, NEW i \in 1 .. Len(p), p[1] = "/", p[i] # "/"
    PROVE  \E a, b \in 1 .. Len(p) + 1 : Neighbours(p, a, b) /\ a < i /\ i < b
<1>1. PICK n \in Nat : n = Len(p)
  BY LenProperties DEF Texts
<1>2. i \in 2 .. n
  BY <1>1
<1> DEFINE Left == {x \in 1 .. i - 1 : p[i - x] = "/"}
           Right == {x \in i + 1 .. n + 1 : Slash(p, x)}
<1>3. PICK x \in Left : \A y \in Left : x <= y
  <2>1. i - 1 \in 1 .. i - 1 /\ i - (i - 1) = 1
    BY <1>2
  <2>2. i - 1 \in Left
    BY <2>1
  <2>3. Left \in SUBSET Nat
    BY <1>2
  <2> HIDE DEF Left
  <2> QED
    BY <2>2, <2>3, Least
<1>4. PICK b \in Right : \A y \in Right : b <= y
  <2>1. n + 1 \in Right
    BY <1>1, <1>2 DEF Slash
  <2>2. Right \in SUBSET Nat
    BY <1>1, <1>2
  <2> HIDE DEF Right
  <2> QED
    BY <2>1, <2>2, Least
<1>5. PICK a \in 1 .. n : a = i - x /\ a < i /\ p[a] = "/"
  <2>1. x \in 1 .. i - 1 /\ p[i - x] = "/"
    OBVIOUS
  <2>2. i - x \in 1 .. n /\ i - x < i
    BY <1>2, <2>1
  <2> QED
    BY <2>1, <2>2
<1>6. b \in i + 1 .. n + 1 /\ Slash(p, b)
  OBVIOUS
<1>7. ASSUME NEW j \in a + 1 .. b - 1, Slash(p, j) PROVE FALSE
  <2>1. j \in 1 .. n /\ p[j] = "/"
    BY <1>1, <1>2, <1>5, <1>6, <1>7 DEF Slash
  <2>2. CASE j < i
    <3>1. i - j \in 1 .. i - 1 /\ i - (i - j) = j
      BY <1>2, <2>1, <2>2
    <3>2. i - j \in Left
      BY <2>1, <3>1
    <3> QED
      BY <1>2, <1>3, <1>5, <2>1, <3>2
  <2>3. CASE i < j
    <3>1. j \in Right
      BY <1>7, <2>1, <2>3, <1>2
    <3> QED
      BY <1>4, <1>6, <2>1, <3>1
  <2> QED
    BY <1>2, <2>1, <2>2, <2>3
<1>8. a \in 1 .. Len(p) + 1 /\ b \in 1 .. Len(p) + 1 /\ a < b /\ Slash(p, a)
  BY <1>1, <1>2, <1>5, <1>6 DEF Slash
<1>9. Neighbours(p, a, b)
  BY <1>6, <1>7, <1>8 DEF Neighbours
<1> QED
  BY <1>5, <1>6, <1>8, <1>9

\* The checks of isValidPath(), of a path that begins with a slash.
Passes(p, sequence) ==
    /\ p[Len(p)] = "/" => sequence
    /\ \A i \in 2 .. Len(p) : ~Rejects(p, i, sequence)

\* A fault between two neighbours makes a check fail.
LEMMA FaultFound ==
    ASSUME NEW p \in Texts, Len(p) > 1, p[1] = "/",
           NEW a \in 1 .. Len(p) + 1, NEW b \in 1 .. Len(p) + 1, Neighbours(p, a, b), Faulty(p, a, b)
    PROVE  ~Passes(p, FALSE)
<1>1. PICK n \in Nat : n = Len(p) /\ n > 1
  BY LenProperties DEF Texts
<1>2. a < b /\ a \in 1 .. n /\ p[a] = "/" /\ Slash(p, b) /\ \A i \in a + 1 .. b - 1 : p[i] # "/"
  BY <1>1 DEF Neighbours, Slash
<1>3. CASE b = a + 1
  <2>1. CASE b = n + 1
    <3>1. a = n
      BY <1>2, <1>3, <2>1
    <3> QED
      BY <1>1, <1>2, <3>1 DEF Passes
  <2>2. CASE b # n + 1
    <3>1. b \in 2 .. n /\ b - 1 = a /\ p[b] = "/"
      BY <1>1, <1>2, <1>3, <2>2 DEF Slash
    <3>2. Rejects(p, b, FALSE)
      BY <1>2, <3>1 DEF Rejects
    <3> QED
      BY <1>1, <3>1, <3>2 DEF Passes
  <2> QED
    BY <2>1, <2>2
<1>4. CASE b = a + 2 /\ p[a + 1] = "."
  <2>1. PICK i \in 2 .. n : i = a + 1 /\ i - 1 = a /\ i + 1 = b
    BY <1>1, <1>2, <1>4
  <2>2. EndsComponent(p, i, FALSE)
    BY <1>1, <1>2, <2>1 DEF EndsComponent, Slash
  <2>3. Rejects(p, i, FALSE)
    BY <1>2, <1>4, <2>1, <2>2 DEF Rejects
  <2> QED
    BY <1>1, <2>3 DEF Passes
<1>5. CASE b = a + 3 /\ p[a + 1] = "." /\ p[a + 2] = "."
  <2>1. PICK i \in 2 .. n : i = a + 2 /\ i - 1 = a + 1 /\ i - 2 = a /\ i + 1 = b
    BY <1>1, <1>2, <1>5
  <2>2. EndsComponent(p, i, FALSE)
    BY <1>1, <1>2, <2>1 DEF EndsComponent, Slash
  <2>3. Rejects(p, i, FALSE)
    BY <1>2, <1>5, <2>1, <2>2 DEF Rejects
  <2> QED
    BY <1>1, <2>3 DEF Passes
<1>6. ASSUME NEW i \in a + 1 .. b - 1, p[i] = Control PROVE ~Passes(p, FALSE)
  <2>1. i \in 2 .. n
    BY <1>1, <1>2
  <2>2. Rejects(p, i, FALSE)
    BY <1>6 DEF Rejects
  <2> QED
    BY <1>1, <2>1, <2>2 DEF Passes
<1> QED
  BY <1>3, <1>4, <1>5, <1>6 DEF Faulty

\* A check that fails finds a fault between two neighbours.
LEMMA CheckFails ==
    ASSUME NEW p \in Texts, Len(p) > 1, p[1] = "/", ~Passes(p, FALSE)
    PROVE  \E a, b \in 1 .. Len(p) + 1 : Neighbours(p, a, b) /\ Faulty(p, a, b)
<1>1. PICK n \in Nat : n = Len(p) /\ n > 1
  BY LenProperties DEF Texts
<1>2. CASE p[n] = "/"
  <2>1. n \in 1 .. n + 1 /\ n + 1 \in 1 .. n + 1 /\ n < n + 1 /\ n + 1 .. (n + 1) - 1 = {}
    BY <1>1
  <2>2. Neighbours(p, n, n + 1) /\ Faulty(p, n, n + 1)
    BY <1>1, <1>2, <2>1 DEF Neighbours, Faulty, Slash
  <2> QED
    BY <1>1, <2>1, <2>2
<1>3. CASE p[n] # "/"
  <2>1. PICK i \in 2 .. n : Rejects(p, i, FALSE)
    BY <1>1, <1>3 DEF Passes
  <2>2. i - 1 \in 1 .. n /\ i \in 1 .. n /\ i + 1 \in 1 .. n + 1
    BY <1>1
  <2>3. CASE p[i] = "/" /\ p[i - 1] = "/"
    <3>1. /\ (i - 1) + 1 .. i - 1 = {} /\ i - 1 < i /\ i = (i - 1) + 1
          /\ i \in 1 .. n + 1 /\ i - 1 \in 1 .. n + 1
      BY <1>1
    <3>2. Neighbours(p, i - 1, i) /\ Faulty(p, i - 1, i)
      BY <1>1, <2>2, <2>3, <3>1 DEF Neighbours, Faulty, Slash
    <3> QED
      BY <1>1, <3>1, <3>2
  <2>4. CASE p[i] = "." /\ p[i - 1] = "/" /\ EndsComponent(p, i, FALSE)
    <3>1. PICK a \in 1 .. n, b \in 1 .. n + 1 :
              a = i - 1 /\ b = i + 1 /\ a < b /\ b = a + 2 /\ a + 1 = i /\ \A j \in a + 1 .. b - 1 : j = i
      BY <1>1, <2>2
    <3>2. Slash(p, b)
      BY <1>1, <2>4, <3>1 DEF EndsComponent, Slash
    <3>3. Slash(p, a) /\ ~Slash(p, i)
      BY <1>1, <2>2, <2>4, <3>1 DEF Slash
    <3>4. Neighbours(p, a, b) /\ Faulty(p, a, b) /\ a \in 1 .. n + 1
      BY <1>1, <2>4, <3>1, <3>2, <3>3 DEF Neighbours, Faulty
    <3> QED
      BY <1>1, <3>4
  <2>5. CASE p[i] = "." /\ p[i - 1] = "." /\ p[i - 2] = "/" /\ EndsComponent(p, i, FALSE)
    <3>1. i # 2
      BY <2>5
    <3>2. PICK a \in 1 .. n, b \in 1 .. n + 1 :
              /\ a = i - 2 /\ b = i + 1 /\ a < b /\ b = a + 3 /\ a + 1 = i - 1 /\ a + 2 = i
              /\ \A j \in a + 1 .. b - 1 : j = i \/ j = i - 1
      BY <1>1, <2>2, <3>1
    <3>3. Slash(p, b)
      BY <1>1, <2>5, <3>2 DEF EndsComponent, Slash
    <3>4. Slash(p, a) /\ ~Slash(p, i) /\ ~Slash(p, i - 1)
      BY <1>1, <2>2, <2>5, <3>2 DEF Slash
    <3>5. Neighbours(p, a, b) /\ Faulty(p, a, b) /\ a \in 1 .. n + 1
      BY <1>1, <2>5, <3>2, <3>3, <3>4 DEF Neighbours, Faulty
    <3> QED
      BY <1>1, <3>5
  <2>6. CASE p[i] = Control
    <3>1. p[i] # "/"
      BY <2>6, ControlAssumption DEF ControlAssumption
    <3>2. PICK a \in 1 .. n + 1, b \in 1 .. n + 1 : Neighbours(p, a, b) /\ a < i /\ i < b
      BY <1>1, <2>2, <3>1, Around
    <3>3. i \in a + 1 .. b - 1
      BY <2>2, <3>2
    <3>4. Faulty(p, a, b)
      BY <2>6, <3>3 DEF Faulty
    <3> QED
      BY <1>1, <3>2, <3>4
  <2> QED
    BY <2>1, <2>3, <2>4, <2>5, <2>6 DEF Rejects
<1> QED
  BY <1>2, <1>3

\* isValidPath() accepts the well-formed paths.
LEMMA PlainPaths == ASSUME NEW p \in Texts PROVE isValidPath(p, FALSE) <=> WellFormed(p)
<1>1. PICK n \in Nat : n = Len(p)
  BY LenProperties DEF Texts
<1>2. CASE p = <<>> \/ p[1] # "/"
  BY <1>2 DEF isValidPath, WellFormed
<1>3. CASE p # <<>> /\ p[1] = "/" /\ n > 1
  <2>1. p # <<"/">>
    BY <1>1, <1>3
  <2>2. isValidPath(p, FALSE) <=> Passes(p, FALSE)
    BY <1>1, <1>3 DEF isValidPath, Passes
  <2>3. Passes(p, FALSE) <=> \A a, b \in 1 .. Len(p) + 1 : Neighbours(p, a, b) => ~Faulty(p, a, b)
    BY <1>1, <1>3, FaultFound, CheckFails
  <2> QED
    BY <1>3, <2>1, <2>2, <2>3, WellFormedFacts
<1>4. CASE p # <<>> /\ p[1] = "/" /\ n <= 1
  <2>1. n = 1
    BY <1>1, <1>4, EmptySeq DEF Texts
  <2>2. <<"/">> \in Seq(Chars) /\ Len(<<"/">>) = 1 /\ <<"/">>[1] = "/"
    BY CharFacts, ShortText
  <2>3. \A i \in 1 .. Len(p) : p[i] = <<"/">>[i]
    BY <1>1, <1>4, <2>1, <2>2
  <2>4. p = <<"/">>
    BY <1>1, <2>1, <2>2, <2>3, SeqEqual DEF Texts
  <2>5. WellFormed(p)
    BY <1>4, <2>4 DEF WellFormed
  <2>6. ~(Len(p) > 1)
    BY <1>1, <2>1
  <2>7. isValidPath(p, FALSE)
    BY <1>4, <2>6 DEF isValidPath
  <2> QED
    BY <2>5, <2>7
<1>5. n > 1 \/ n <= 1
  BY <1>1
<1> QED
  BY <1>2, <1>3, <1>4, <1>5, Zenon

\* A path and the number that the server appends to it.
LEMMA NumberedPaths ==
    ASSUME NEW p \in Texts, Absolute(p)
    PROVE  isValidPath(p, TRUE) <=> isValidPath(Append(p, "1"), FALSE)
<1>1. PICK n \in Nat : n = Len(p) /\ n >= 1
  BY LenProperties, EmptySeq DEF Texts, Absolute
<1>2. PICK q \in Texts :
          /\ q = Append(p, "1") /\ Len(q) = n + 1 /\ q[n + 1] = "1"
          /\ \A i \in 1 .. n : q[i] = p[i]
  <2>1. "1" \in Chars
    BY CharFacts
  <2>2. Append(p, "1") \in Texts /\ Len(Append(p, "1")) = Len(p) + 1
        /\ Append(p, "1")[Len(p) + 1] = "1" /\ \A i \in 1 .. Len(p) : Append(p, "1")[i] = p[i]
    BY <2>1, AppendProperties DEF Texts
  <2> QED
    BY <1>1, <2>2
<1>3. p # <<>> /\ p[1] = "/" /\ q # <<>> /\ q[1] = "/"
  BY <1>1, <1>2, EmptySeq DEF Texts, Absolute
<1>4. ASSUME NEW i \in 2 .. n PROVE Rejects(q, i, FALSE) <=> Rejects(p, i, TRUE)
  <2>1. i \in 1 .. n /\ i - 1 \in 1 .. n /\ i # n + 1 /\ i - 2 \in 0 .. n
    BY <1>1
  <2>2. q[i] = p[i] /\ q[i - 1] = p[i - 1]
    BY <1>2, <2>1
  <2>3. EndsComponent(q, i, FALSE) <=> EndsComponent(p, i, TRUE)
    <3>1. CASE i = n
      BY <1>1, <1>2, <2>1, <3>1 DEF EndsComponent
    <3>2. CASE i # n
      <4>1. i + 1 \in 1 .. n
        BY <1>1, <3>2
      <4>2. q[i + 1] = p[i + 1]
        BY <1>2, <4>1
      <4> QED
        BY <1>1, <1>2, <2>1, <3>2, <4>2 DEF EndsComponent
    <3> QED
      BY <3>1, <3>2
  <2>4. CASE i = 2
    <3>1. p[i - 1] = "/" /\ q[i - 1] = "/" /\ "/" # "."
      BY <1>3, <2>2, <2>4
    <3> QED
      BY <2>2, <2>3, <3>1 DEF Rejects
  <2>5. CASE i # 2
    <3>1. i - 2 \in 1 .. n
      BY <1>1, <2>5
    <3>2. q[i - 2] = p[i - 2]
      BY <1>2, <3>1
    <3> QED
      BY <2>2, <2>3, <3>2 DEF Rejects
  <2> QED
    BY <2>4, <2>5
<1>5. ~Rejects(q, n + 1, FALSE)
  BY <1>2, ControlAssumption DEF Rejects, ControlAssumption
<1>6. isValidPath(p, TRUE) <=> (n > 1 => \A i \in 2 .. n : ~Rejects(p, i, TRUE))
  BY <1>1, <1>3 DEF isValidPath
<1>7. isValidPath(q, FALSE) <=> \A i \in 2 .. n + 1 : ~Rejects(q, i, FALSE)
  <2>1. Len(q) > 1 /\ q[Len(q)] # "/"
    BY <1>1, <1>2
  <2> QED
    BY <1>2, <1>3, <2>1 DEF isValidPath
<1>8. \A i \in 2 .. n + 1 : i \in 2 .. n \/ i = n + 1
  BY <1>1
<1>9. \A i \in 2 .. n : i \in 2 .. n + 1 /\ n > 1
  BY <1>1
<1> QED
  BY <1>2, <1>4, <1>5, <1>6, <1>7, <1>8, <1>9

\* A path below a chroot: the first checks are those of the chroot, the others those of the path.
LEMMA JoinedChecks ==
    ASSUME NEW c \in Texts, Len(c) > 1, c[1] = "/", isValidPath(c, FALSE),
           NEW p \in Texts, Len(p) > 1, p[1] = "/", NEW sequence \in BOOLEAN,
           NEW s \in Texts, Len(s) = Len(c) + Len(p),
           \A i \in 1 .. Len(c) : s[i] = c[i], \A i \in 1 .. Len(p) : s[Len(c) + i] = p[i]
    PROVE  isValidPath(s, sequence) <=> isValidPath(p, sequence)
<1>1. PICK m \in Nat, n \in Nat : m = Len(c) /\ n = Len(p) /\ m > 1 /\ n > 1
  BY LenProperties DEF Texts
<1>2. /\ Len(s) = m + n /\ \A i \in 1 .. m : s[i] = c[i]
      /\ \A i \in 1 .. n : s[m + i] = p[i]
  BY <1>1
<1>3. s # <<>> /\ p # <<>> /\ c # <<>> /\ s[1] = "/" /\ s[m + 1] = "/" /\ s[m + n] = p[n]
  BY <1>1, <1>2, EmptySeq DEF Texts
<1>4. c[m] # "/" /\ \A i \in 2 .. m : ~Rejects(c, i, FALSE)
  BY <1>1 DEF isValidPath
<1>5. ASSUME NEW i \in 2 .. m PROVE ~Rejects(s, i, sequence)
  <2>1. i \in 1 .. m /\ i - 1 \in 1 .. m /\ i # m + n
    BY <1>1
  <2>2. s[i] = c[i] /\ s[i - 1] = c[i - 1]
    BY <1>2, <2>1
  <2>3. EndsComponent(s, i, sequence) <=> EndsComponent(c, i, FALSE)
    <3>1. CASE i = m
      BY <1>1, <1>2, <1>3, <2>1, <3>1 DEF EndsComponent
    <3>2. CASE i # m
      <4>1. i + 1 \in 1 .. m
        BY <1>1, <3>2
      <4>2. s[i + 1] = c[i + 1]
        BY <1>2, <4>1
      <4> QED
        BY <1>1, <1>2, <2>1, <3>2, <4>2 DEF EndsComponent
    <3> QED
      BY <3>1, <3>2
  <2>4. CASE i = 2
    <3>1. c[i - 1] = "/" /\ s[i - 1] = "/" /\ "/" # "."
      BY <1>3, <2>2, <2>4
    <3> QED
      BY <1>4, <2>2, <2>3, <3>1 DEF Rejects
  <2>5. CASE i # 2
    <3>1. i - 2 \in 1 .. m
      BY <1>1, <2>5
    <3>2. s[i - 2] = c[i - 2]
      BY <1>2, <3>1
    <3> QED
      BY <1>4, <2>2, <2>3, <3>2 DEF Rejects
  <2> QED
    BY <2>4, <2>5
<1>6. ~Rejects(s, m + 1, sequence)
  <2>1. (m + 1) - 1 = m /\ s[m] = c[m]
    BY <1>1, <1>2
  <2> QED
    BY <1>3, <1>4, <2>1, ControlAssumption DEF Rejects, ControlAssumption
<1>7. ASSUME NEW j \in 2 .. n PROVE Rejects(s, m + j, sequence) <=> Rejects(p, j, sequence)
  <2>1. /\ j \in 1 .. n /\ j - 1 \in 1 .. n /\ (m + j) - 1 = m + (j - 1)
        /\ (m + j) - 2 = m + (j - 2) /\ (m + j) + 1 = m + (j + 1) /\ (m + j = m + n <=> j = n)
    BY <1>1
  <2>2. s[m + j] = p[j] /\ s[(m + j) - 1] = p[j - 1]
    BY <1>2, <2>1
  <2>3. EndsComponent(s, m + j, sequence) <=> EndsComponent(p, j, sequence)
    <3>1. CASE j = n
      BY <1>1, <1>2, <2>1, <3>1 DEF EndsComponent
    <3>2. CASE j # n
      <4>1. j + 1 \in 1 .. n
        BY <1>1, <3>2
      <4>2. s[(m + j) + 1] = p[j + 1]
        BY <1>2, <2>1, <4>1
      <4> QED
        BY <1>1, <1>2, <2>1, <3>2, <4>2 DEF EndsComponent
    <3> QED
      BY <3>1, <3>2
  <2>4. CASE j = 2
    BY <2>2, <2>3, <2>4 DEF Rejects
  <2>5. CASE j # 2
    <3>1. j - 2 \in 1 .. n
      BY <1>1, <2>5
    <3>2. s[(m + j) - 2] = p[j - 2]
      BY <1>2, <2>1, <3>1
    <3> QED
      BY <2>2, <2>3, <3>2 DEF Rejects
  <2> QED
    BY <2>4, <2>5
<1>8. (\A i \in 2 .. m + n : ~Rejects(s, i, sequence)) <=> \A j \in 2 .. n : ~Rejects(p, j, sequence)
  <2>1. ASSUME NEW i \in 2 .. m + n PROVE i \in 2 .. m \/ i = m + 1 \/ \E j \in 2 .. n : i = m + j
    <3>1. CASE i > m + 1
      <4>1. i - m \in 2 .. n /\ i = m + (i - m)
        BY <1>1, <3>1
      <4> QED
        BY <4>1
    <3>2. CASE ~(i > m + 1)
      BY <1>1, <3>2
    <3> QED
      BY <3>1, <3>2
  <2>2. \A j \in 2 .. n : m + j \in 2 .. m + n
    BY <1>1
  <2> QED
    BY <1>5, <1>6, <1>7, <2>1, <2>2
<1>9. isValidPath(s, sequence) <=> /\ p[n] = "/" => sequence
                                   /\ \A i \in 2 .. m + n : ~Rejects(s, i, sequence)
  <2>1. Len(s) > 1
    BY <1>1, <1>2
  <2> QED
    BY <1>2, <1>3, <2>1 DEF isValidPath
<1>10. isValidPath(p, sequence) <=> /\ p[n] = "/" => sequence
                                    /\ \A j \in 2 .. n : ~Rejects(p, j, sequence)
  BY <1>1, <1>3 DEF isValidPath
<1> QED
  BY <1>8, <1>9, <1>10

\* A valid path is one of a sequential node too.
LEMMA ValidWithNumber ==
    ASSUME NEW p \in Texts, isValidPath(p, FALSE)
    PROVE  isValidPath(p, TRUE)
<1>1. \A i : EndsComponent(p, i, TRUE) => EndsComponent(p, i, FALSE)
  BY DEF EndsComponent
<1>2. \A i : Rejects(p, i, TRUE) => Rejects(p, i, FALSE)
  BY <1>1 DEF Rejects
<1> QED
  BY <1>2 DEF isValidPath

-----------------------------------------------------------------------------
(* The chroot                                                              *)

\* A chroot that a handle has.
Good(c) == c = NoChroot \/ (c \in Texts /\ Len(c) > 1 /\ isValidPath(c, FALSE))

\* A path of one character.
LEMMA LonePath == ASSUME NEW p \in Texts, Absolute(p), Len(p) = 1 PROVE p = <<"/">>
<1>1. <<"/">> \in Seq(Chars) /\ Len(<<"/">>) = 1 /\ <<"/">>[1] = "/"
  BY CharFacts, ShortText
<1>2. \A i \in 1 .. Len(p) : p[i] = <<"/">>[i]
  BY <1>1 DEF Absolute
<1> QED
  BY <1>1, <1>2, SeqEqual DEF Texts

\* What is refused is refused for the caller's path, not for the chroot.
LEMMA ChrootPaths ==
    ASSUME NEW c, Good(c), NEW p \in Texts, Absolute(p), NEW sequence \in BOOLEAN
    PROVE  isValidPath(prepend_string(c, p), sequence) <=> isValidPath(p, sequence)
<1>1. CASE c = NoChroot
  BY <1>1 DEF prepend_string
<1>2. CASE c # NoChroot /\ Len(p) = 1
  <2>1. prepend_string(c, p) = c
    BY <1>2 DEF prepend_string
  <2>2. isValidPath(c, FALSE) /\ c \in Texts
    BY <1>2 DEF Good
  <2>3. isValidPath(c, sequence)
    BY <2>2, ValidWithNumber
  <2>4. isValidPath(p, sequence)
    BY <1>2 DEF isValidPath, Absolute
  <2> QED
    BY <2>1, <2>3, <2>4
<1>3. CASE c # NoChroot /\ Len(p) # 1
  <2>1. PICK s : s = prepend_string(c, p) /\ s = c \o p
    BY <1>3 DEF prepend_string
  <2>2. c \in Texts /\ Len(c) > 1 /\ isValidPath(c, FALSE) /\ c[1] = "/"
    BY <1>3 DEF Good, isValidPath
  <2>3. Len(p) > 1 /\ p[1] = "/"
    <3>1. Len(p) \in Nat /\ Len(p) # 0
      BY LenProperties, EmptySeq DEF Texts, Absolute
    <3>2. PICK n \in Nat : n = Len(p) /\ n # 0 /\ n # 1
      BY <1>3, <3>1
    <3>3. Len(p) > 1
      BY <3>2
    <3> QED
      BY <3>3 DEF Absolute
  <2>4. /\ s \in Texts /\ Len(s) = Len(c) + Len(p)
        /\ \A i \in 1 .. Len(c) : s[i] = c[i]
        /\ \A i \in 1 .. Len(p) : s[Len(c) + i] = p[i]
    BY <2>1, <2>2, JoinFacts DEF Texts
  <2>5. isValidPath(s, sequence) <=> isValidPath(p, sequence)
    <3>1. c \in Texts /\ Len(c) > 1 /\ c[1] = "/" /\ isValidPath(c, FALSE)
      BY <2>2
    <3> QED
      BY <2>3, <2>4, <3>1, JoinedChecks
  <2> QED
    BY <2>1, <2>5
<1> QED
  BY <1>1, <1>2, <1>3

\* Below the chroot the server has the path of the caller.
LEMMA ChrootReturns ==
    ASSUME NEW c, Good(c), NEW p \in Texts, Absolute(p)
    PROVE  sub_string(c, prepend_string(c, p)) = p
<1>1. CASE c = NoChroot
  BY <1>1 DEF prepend_string, sub_string
<1> SUFFICES ASSUME c # NoChroot PROVE sub_string(c, prepend_string(c, p)) = p
  BY <1>1
<1>2. c \in Texts
  BY DEF Good
<1>3. PICK m \in Nat, n \in Nat : m = Len(c) /\ n = Len(p) /\ n >= 1
  BY <1>2, LenProperties, EmptySeq DEF Texts, Absolute
<1>4. CASE n = 1
  <2>1. prepend_string(c, p) = c
    BY <1>3, <1>4 DEF prepend_string
  <2>2. m \in 0 .. Len(c)
    BY <1>3
  <2>3. /\ SubSeq(c, 1, m) \in Seq(Chars) /\ Len(SubSeq(c, 1, m)) = m
        /\ \A i \in 1 .. m : SubSeq(c, 1, m)[i] = c[i]
    BY <1>2, <2>2, CutFacts DEF Texts
  <2>4. SubSeq(c, 1, m) = c
    BY <1>2, <1>3, <2>3, SeqEqual DEF Texts
  <2>5. IsPrefixOf(c, c)
    BY <1>3, <2>4 DEF IsPrefixOf
  <2>6. p = <<"/">>
    BY <1>3, <1>4, LonePath
  <2> QED
    BY <2>1, <2>5, <2>6 DEF sub_string
<1>5. CASE n # 1
  <2>1. PICK s : s = prepend_string(c, p) /\ s = c \o p
    BY <1>3, <1>5 DEF prepend_string
  <2>2. /\ s \in Texts /\ Len(s) = m + n
        /\ \A i \in 1 .. m : s[i] = c[i]
        /\ \A i \in 1 .. n : s[m + i] = p[i]
    BY <1>2, <1>3, <2>1, JoinFacts DEF Texts
  <2>3. m \in 0 .. Len(s)
    BY <1>3, <2>2
  <2>4. PICK t, u : t = SubSeq(s, 1, m) /\ u = SubSeq(s, m + 1, Len(s))
    OBVIOUS
  <2>5. /\ t \in Seq(Chars) /\ Len(t) = m /\ \A i \in 1 .. m : t[i] = s[i]
        /\ u \in Seq(Chars) /\ Len(u) = Len(s) - m /\ \A i \in 1 .. Len(s) - m : u[i] = s[m + i]
    BY <2>2, <2>3, <2>4, CutFacts DEF Texts
  <2>6. Len(s) - m = n
    BY <1>3, <2>2
  <2>7. Len(t) = Len(c) /\ \A i \in 1 .. Len(t) : t[i] = c[i]
    BY <1>3, <2>2, <2>5
  <2>8. t = c
    BY <1>2, <2>5, <2>7, SeqEqual DEF Texts
  <2>9. Len(u) = Len(p) /\ \A i \in 1 .. Len(u) : u[i] = p[i]
    BY <1>3, <2>2, <2>5, <2>6
  <2>10. u = p
    BY <2>5, <2>9, SeqEqual DEF Texts
  <2>11. IsPrefixOf(c, s) /\ Len(s) # Len(c)
    BY <1>3, <2>2, <2>4, <2>8 DEF IsPrefixOf
  <2>12. sub_string(c, s) = SubSeq(s, Len(c) + 1, Len(s))
    BY <2>11 DEF sub_string
  <2> QED
    BY <1>3, <2>1, <2>4, <2>10, <2>12
<1> QED
  BY <1>4, <1>5

-----------------------------------------------------------------------------
(* Requests                                                                *)

\* The handle a call is made on has a chroot that was checked.
ChrootInv ==
    /\ HostsInv
    /\ resolving \notin {"no", "failed"} => Good(chroot)
    /\ stage # "idle" => resolving = "ok"

\* An array whose entries are all alike is what the loop makes of it.
LEMMA AlikeArrays ==
    ASSUME NEW array, array = <<>> \/ array \in Arrays, Alike(array)
    PROVE  convert_array_to_acl(array) = array
<1>1. PICK S : array \in Seq(S)
  BY EmptySeq, CallsAssumption DEF CallsAssumption
<1>2. DOMAIN array = 1 .. Len(array) /\ Len(array) \in Nat /\ array = [i \in DOMAIN array |-> array[i]]
  BY <1>1, LenProperties
<1>3. \A i \in DOMAIN array : 1 \in DOMAIN array
  BY <1>2
<1>4. \A i \in DOMAIN array : array[1] = array[i]
  BY <1>3 DEF Alike
<1> QED
  BY <1>2, <1>4 DEF convert_array_to_acl

\* What a call with one path answers.
LEMMA PathAnswers ==
    ASSUME NEW c, Good(c), NEW p \in Texts, Absolute(p), NEW sequence \in BOOLEAN
    PROVE  isValidPath(prepend_string(c, p), sequence) <=> WellFormedFor(p, sequence)
<1>1. PICK v \in BOOLEAN : v <=> isValidPath(prepend_string(c, p), sequence)
  BY Zenon
<1>2. v <=> isValidPath(p, sequence)
  BY <1>1, ChrootPaths
<1>3. CASE sequence
  <2>1. sequence = TRUE
    BY <1>3
  <2>2. v <=> isValidPath(Append(p, "1"), FALSE)
    BY <1>2, <2>1, NumberedPaths
  <2>3. Append(p, "1") \in Texts
    BY CharFacts, AppendProperties DEF Texts
  <2>4. v <=> WellFormed(Append(p, "1"))
    BY <2>2, <2>3, PlainPaths
  <2> QED
    BY <1>1, <2>1, <2>4 DEF WellFormedFor
<1>4. CASE ~sequence
  <2>1. sequence = FALSE
    BY <1>4
  <2>2. v <=> WellFormed(p)
    BY <1>2, <2>1, PlainPaths
  <2> QED
    BY <1>1, <2>1, <2>2 DEF WellFormedFor
<1> QED
  BY <1>3, <1>4

\* At the start no call has been made.
LEMMA InitChroot == Init => ChrootInv /\ RequestFaithful
<1> SUFFICES ASSUME Init PROVE ChrootInv /\ RequestFaithful
  OBVIOUS
<1>1. HostsInv
  BY InitHosts
<1>2. stage = "idle" /\ resolving = "no"
  BY DEF Init, HostsInit
<1> QED
  BY <1>1, <1>2 DEF ChrootInv, RequestFaithful

\* The handle is made, and its addresses are looked up.
LEMMA HandleChroot == ChrootInv /\ (zookeeper_init \/ getaddrs) => ChrootInv' /\ stage' = "idle"
<1> SUFFICES ASSUME ChrootInv, zookeeper_init \/ getaddrs PROVE ChrootInv' /\ stage' = "idle"
  OBVIOUS
<1>1. HostsInv'
  BY NextHosts DEF Next, ChrootInv
<1>2. CASE zookeeper_init
  <2>1. resolving = "no" /\ stage = "idle" /\ stage' = stage
    BY <1>2 DEF zookeeper_init, callVars, ChrootInv, HostsInv
  <2>2. PICK s \in Suffixes :
            /\ chroot' = ChrootOf(s)
            /\ IF ChrootOf(s) # NoChroot /\ ~isValidPath(s, FALSE)
               THEN resolving' = "failed" ELSE StartResolving
    BY <1>2 DEF zookeeper_init
  <2>3. resolving' # "failed" => ChrootOf(s) = NoChroot \/ isValidPath(s, FALSE)
    BY <2>2
  <2>4. s \in Texts
    BY TextsFacts, CallsAssumption DEF CallsAssumption
  <2>5. ChrootOf(s) = NoChroot \/ (ChrootOf(s) = s /\ Len(s) > 1)
    <3>1. Len(s) \in Nat
      BY <2>4, LenProperties DEF Texts
    <3>2. Len(s) <= 1 \/ Len(s) > 1
      BY <3>1
    <3> QED
      BY <3>1, <3>2 DEF ChrootOf
  <2>6. resolving' # "failed" => Good(chroot')
    BY <2>2, <2>3, <2>4, <2>5 DEF Good
  <2> QED
    BY <1>1, <2>1, <2>6 DEF ChrootInv
<1>3. CASE getaddrs
  <2>1. /\ resolving \in {"yes", "shuffle"} /\ chroot' = chroot /\ stage' = stage
    BY <1>3 DEF getaddrs, callVars, Resolve, EmptyHost, BadPort, LookupFails, Lookup, StartShuffle, Shuffle
  <2> QED
    BY <1>1, <2>1 DEF ChrootInv
<1> QED
  BY <1>2, <1>3

\* A call of one operation.
LEMMA SubmitFaithful ==
    ASSUME ChrootInv, Ready, NEW fn \in SingleCalls, NEW path \in ClientPaths,
           NEW sequence \in BOOLEAN, NEW state, NEW array, array = <<>> \/ array \in Arrays,
           Submit(fn, path, sequence, state, array)
    PROVE  RequestFaithful'
<1>1. path \in Texts /\ Good(chroot)
  BY TextsFacts, CallsAssumption DEF CallsAssumption, ChrootInv, Ready
<1> DEFINE error == PathError(path, sequence, state)
           code == IF error = "ZOK" THEN Added(state) ELSE error
<1>2. /\ call' = [fn |-> fn.op, path |-> path, sequence |-> sequence, acl |-> array, type |-> fn.completion]
      /\ rc' = code /\ stage' = IF code = "ZOK" THEN "asked" ELSE "refused"
      /\ code = "ZOK" =>
            sent' = <<[op |-> fn.op, request |-> fn.request, path |-> prepend_string(chroot, path),
                       acl |-> convert_array_to_acl(array)]>>
      /\ chroot' = chroot
  BY DEF Submit
<1>3. code = "ZBADARGUMENTS" <=> ~isValidPath(prepend_string(chroot, path), sequence)
  BY DEF PathError, Added
<1> HIDE DEF error, code
<1>4. ASSUME Absolute(path) PROVE rc' = "ZBADARGUMENTS" <=> ~WellFormedFor(path, sequence)
  <2>1. isValidPath(prepend_string(chroot, path), sequence) <=> WellFormedFor(path, sequence)
    BY <1>1, <1>4, PathAnswers
  <2> QED
    BY <1>2, <1>3, <2>1
<1>5. ASSUME stage' = "asked"
      PROVE  sent'[1].path = prepend_string(chroot, path) /\ sent'[1].acl = convert_array_to_acl(array)
  BY <1>2, <1>5
<1>6. ASSUME Absolute(path), stage' = "asked" PROVE sub_string(chroot', sent'[1].path) = path
  BY <1>1, <1>2, <1>5, <1>6, ChrootReturns
<1>7. ASSUME Alike(array), stage' = "asked" PROVE sent'[1].acl = array
  BY <1>5, <1>7, AlikeArrays
<1>8. call'.path = path /\ call'.sequence = sequence /\ call'.acl = array /\ call'.type # "COMPLETION_MULTI"
  BY <1>2, NotMulti
<1> QED
  BY <1>4, <1>6, <1>7, <1>8 DEF RequestFaithful

\* A multi request.
LEMMA MultiFaithful == ChrootInv /\ zoo_amulti => RequestFaithful'
<1> SUFFICES ASSUME ChrootInv, zoo_amulti PROVE RequestFaithful'
  OBVIOUS
<1>1. PICK n \in 0 .. MaxOps : \E ops \in [1 .. n -> Operation] : \E code : Requested(n, ops, code)
  BY MultiRequested
<1>2. PICK ops \in [1 .. n -> Operation] : \E code : Requested(n, ops, code)
  BY <1>1
<1>3. PICK code : Requested(n, ops, code)
  BY <1>2
<1>4. Good(chroot) /\ chroot' = chroot
  BY DEF zoo_amulti, Ready, ChrootInv
<1>5. call'.type = "COMPLETION_MULTI" /\ call'.ops = ops
  BY <1>3 DEF Requested
<1>6. ASSUME stage' = "asked", NEW i \in DOMAIN sent', Absolute(ops[i].path)
      PROVE  /\ WellFormedFor(ops[i].path, ops[i].sequence)
             /\ sub_string(chroot, sent'[i].path) = ops[i].path
  <2>1. sent' = [j \in 1 .. n |-> [op |-> ops[j].fn.op, request |-> ops[j].fn.request,
                                   path |-> prepend_string(chroot, ops[j].path), acl |-> <<>>]]
    BY <1>3, <1>6 DEF Requested
  <2>2. i \in 1 .. n /\ sent'[i].path = prepend_string(chroot, ops[i].path)
    BY <1>6, <2>1
  <2>3. ops[i].path \in Texts /\ ops[i].sequence \in BOOLEAN
    BY <2>2, TextsFacts, CallsAssumption DEF CallsAssumption, Operation
  <2>4. isValidPath(prepend_string(chroot, ops[i].path), ops[i].sequence)
    BY <1>3, <1>6, <2>2 DEF Requested
  <2>5. WellFormedFor(ops[i].path, ops[i].sequence)
    BY <1>4, <1>6, <2>3, <2>4, PathAnswers
  <2> QED
    BY <1>4, <1>6, <2>2, <2>3, <2>5, ChrootReturns
<1> QED
  BY <1>4, <1>5, <1>6 DEF RequestFaithful

\* Every step.
LEMMA NextFaithful == ChrootInv /\ RequestFaithful /\ [Next]_vars => ChrootInv' /\ RequestFaithful'
<1> SUFFICES ASSUME ChrootInv, RequestFaithful, [Next]_vars PROVE ChrootInv' /\ RequestFaithful'
  OBVIOUS
<1>1. HostsInv'
  BY NextHosts DEF ChrootInv
<1>2. CASE zookeeper_init \/ getaddrs
  <2>1. ChrootInv' /\ stage' = "idle"
    BY <1>2, HandleChroot
  <2> QED
    BY <2>1 DEF RequestFaithful
<1>3. ASSUME chroot' = chroot, resolving' = resolving, stage # "idle" \/ Ready PROVE ChrootInv'
  <2>1. resolving = "ok" /\ Good(chroot)
    BY <1>3 DEF ChrootInv, Ready
  <2> QED
    BY <1>1, <1>3, <2>1 DEF ChrootInv
<1>4. CASE Call
  <2>1. PICK fn \in SingleCalls, path \in ClientPaths, state \in States, sequence \in BOOLEAN :
            Submit(fn, path, sequence, state, <<>>)
    BY <1>4 DEF Call, SingleCalls
  <2>2. chroot' = chroot /\ resolving' = resolving /\ Ready
    BY <1>4, <2>1 DEF Call, Submit, hostVars
  <2> QED
    BY <1>3, <2>1, <2>2, SubmitFaithful
<1>5. CASE setAcl
  <2>1. PICK path \in ClientPaths, array \in Arrays, state \in States :
            Submit(zoo_aset_acl, path, FALSE, state, array)
    BY <1>5 DEF setAcl
  <2>2. chroot' = chroot /\ resolving' = resolving /\ Ready
    BY <1>5, <2>1 DEF setAcl, Submit, hostVars
  <2>3. zoo_aset_acl \in SingleCalls
    BY DEF SingleCalls
  <2> QED
    BY <1>3, <2>1, <2>2, <2>3, SubmitFaithful
<1>6. CASE zoo_amulti
  <2>1. chroot' = chroot /\ resolving' = resolving /\ Ready
    BY <1>6 DEF zoo_amulti, hostVars
  <2> QED
    BY <1>3, <1>6, <2>1, MultiFaithful
<1>7. CASE UnknownOp
  <2>1. /\ chroot' = chroot /\ resolving' = resolving /\ Ready
        /\ stage' = "refused" /\ call'.type = "COMPLETION_MULTI"
    BY <1>7 DEF UnknownOp, hostVars
  <2> QED
    BY <1>3, <2>1 DEF RequestFaithful
<1>8. CASE ServerAnswers \/ ServerAnswersMulti \/ ConnectionLost
  <2>1. PICK records, code : Answer(records, code)
    BY <1>8 DEF ServerAnswers, ServerAnswersMulti, ConnectionLost
  <2>2. chroot' = chroot /\ resolving' = resolving /\ stage # "idle" /\ stage' = "answered"
    BY <2>1 DEF Answer, hostVars
  <2> QED
    BY <1>3, <2>2 DEF RequestFaithful
<1>9. CASE deserialize_response \/ StartMulti \/ TakeEntry \/ NoEntry \/ EndMulti
  <2>1. /\ chroot' = chroot /\ resolving' = resolving /\ stage # "idle"
        /\ stage' \in {"told", "multi", "aborted"}
    BY <1>9 DEF deserialize_response, StartMulti, TakeEntry, NoEntry, EndMulti, hostVars
  <2> QED
    BY <1>3, <2>1 DEF RequestFaithful
<1>10. CASE UNCHANGED vars
  <2>1. UNCHANGED <<chroot, resolving, call, stage, rc, sent>>
    BY <1>10 DEF vars, hostVars, callVars
  <2>2. ChrootInv'
    BY <1>1, <2>1 DEF ChrootInv
  <2>3. RequestFaithful'
    BY <2>1 DEF RequestFaithful
  <2> QED
    BY <2>2, <2>3
<1> QED
  BY <1>2, <1>4, <1>5, <1>6, <1>7, <1>8, <1>9, <1>10 DEF Next

(* Of the paths that begin with a slash isValidPath() refuses exactly the malformed
   ones, whatever valid chroot the handle has, and what the server gets is below the
   chroot the path that was passed; a multi request is sent only if the paths of all its
   operations are well formed; an ACL of equal entries arrives as it was passed. *)
THEOREM FaithfulRequests == Spec => []RequestFaithful
<1>1. ChrootInv /\ RequestFaithful /\ [Next]_vars => (ChrootInv /\ RequestFaithful)'
  BY NextFaithful
<1>2. Init => ChrootInv /\ RequestFaithful
  BY InitChroot
<1> QED
  BY <1>1, <1>2, PTL DEF Spec
=============================================================================
