------------------------------- MODULE ZkHosts ------------------------------
(***************************************************************************)
(* getaddrs() of zookeeper.c: the hosts of a connect string are taken one  *)
(* by one, their addresses are looked up and appended to an array that     *)
(* grows by blocks, and the array is shuffled, so that clients spread over *)
(* the servers.  A host is what the text between two commas looks like and *)
(* what the resolver knows of it; an address is a record with a family and *)
(* the number of its host.                                                 *)
(***************************************************************************)
EXTENDS Integers, Sequences

CONSTANTS
    Block,        \* addresses an allocation grows by, 16 in the code
    HostLists,    \* the lists of hosts of connect strings
    Permutes      \* ~disable_conn_permute

ASSUME HostsAssumption == Block \in Nat \ {0} /\ Permutes \in BOOLEAN

(* The resolver gives each host a list of addresses.  An address stands for one
   place in one of these lists, whatever it is equal to on the wire. *)
ASSUME ListsAssumption ==
    \A list \in HostLists :
        /\ list \in Seq({list[i] : i \in DOMAIN list})
        /\ \A i \in DOMAIN list :
              list[i].addresses \in Seq({list[i].addresses[k] : k \in DOMAIN list[i].addresses})
        /\ \A i, j \in DOMAIN list :
              \A k \in DOMAIN list[i].addresses, l \in DOMAIN list[j].addresses :
                 list[i].addresses[k] = list[j].addresses[l] => i = j /\ k = l

VARIABLES
    hostlist,     \* the connect string's list
    hosts,        \* what is left of it
    addrs,        \* zh->addrs, addrs_count of them
    alen,         \* the addresses allocated
    shuffle,      \* the index the shuffle is at
    resolving     \* "no" (not begun), "yes", "shuffle", "ok", "failed"

hostVars == <<hostlist, hosts, addrs, alen, shuffle, resolving>>

Families == {"AF_INET", "AF_INET6"}

HostsInit ==
    /\ hostlist \in HostLists /\ hosts = <<>>
    /\ addrs = <<>> /\ alen = 0 /\ shuffle = 0 /\ resolving = "no"

StartResolving ==
    /\ resolving = "no" /\ resolving' = "yes"
    /\ hosts' = hostlist
    /\ UNCHANGED <<hostlist, addrs, alen, shuffle>>

(* fail: what was collected is given back.  addrs_count keeps its value. *)
GiveUp == resolving' = "failed" /\ addrs' = <<>> /\ alen' = 0 /\ UNCHANGED <<hostlist, hosts, shuffle>>

(* strtok_r() passes over empty texts. *)
EmptyHost ==
    /\ resolving = "yes" /\ hosts # <<>> /\ Head(hosts).port = "empty"
    /\ hosts' = Tail(hosts)
    /\ UNCHANGED <<hostlist, addrs, alen, shuffle, resolving>>

(* No port, or one that is no number or zero. *)
BadPort ==
    /\ resolving = "yes" /\ hosts # <<>> /\ Head(hosts).port \in {"missing", "invalid"}
    /\ GiveUp

(* getaddrinfo() fails; one that does not like AI_ADDRCONFIG is asked again
   without it. *)
Answers(host) == host.first = "ok" \/ (host.first = "badflags" /\ host.second = "ok")

LookupFails ==
    /\ resolving = "yes" /\ hosts # <<>> /\ Head(hosts).port = "good"
    /\ ~Answers(Head(hosts))
    /\ GiveUp

GrownLate(a, count) == IF count > a THEN a + Block ELSE a    \* (faulty: grow behind the end)

(* Append what is of a known family; grow before each address that finds the
   array full. *)
Grown(a, count) == IF count = a THEN a + Block ELSE a

Collect(found) ==
    LET Step[i \in 0..Len(found)] ==
            IF i = 0 THEN [addrs |-> addrs, alen |-> alen]
            ELSE LET s == Step[i - 1] IN
                 [addrs |-> IF found[i].family \in Families THEN Append(s.addrs, found[i]) ELSE s.addrs,
                  alen |-> Grown(s.alen, Len(s.addrs))]
    IN  Step[Len(found)]

Lookup ==
    /\ resolving = "yes" /\ hosts # <<>> /\ Head(hosts).port = "good"
    /\ Answers(Head(hosts))
    /\ LET c == Collect(Head(hosts).addresses) IN addrs' = c.addrs /\ alen' = c.alen
    /\ hosts' = Tail(hosts)
    /\ UNCHANGED <<hostlist, shuffle, resolving>>

(* for (i = addrs_count - 1; i > 0; --i): swap with one not behind it. *)
StartShuffle ==
    /\ resolving = "yes" /\ hosts = <<>>
    /\ shuffle' = Len(addrs)
    /\ resolving' = IF Permutes THEN "shuffle" ELSE "ok"
    /\ UNCHANGED <<hostlist, hosts, addrs, alen>>

Swapped(s, i, j) == [s EXCEPT ![i] = s[j], ![j] = s[i]]

Shuffle ==
    /\ resolving = "shuffle"
    /\ IF shuffle > 1
       THEN /\ \E j \in 1..shuffle : addrs' = Swapped(addrs, shuffle, j)
            /\ shuffle' = shuffle - 1
            /\ UNCHANGED resolving
       ELSE resolving' = "ok" /\ UNCHANGED <<addrs, shuffle>>
    /\ UNCHANGED <<hostlist, hosts, alen>>

Resolve ==
    \/ EmptyHost \/ BadPort \/ LookupFails \/ Lookup \/ StartShuffle \/ Shuffle

(* Every address written has its place in the array; and what the handle is
   left with is each address of a known family that the resolver gave for the
   hosts of the list, in some order, or, after a failure, none.  getaddrs(). *)
Resolved(list) ==
    UNION {{list[i].addresses[k] : k \in DOMAIN list[i].addresses} :
            i \in {i \in DOMAIN list : list[i].port = "good"}}

AddressesKept ==
    /\ Len(addrs) <= alen
    /\ resolving = "failed" => addrs = <<>>
    /\ resolving = "ok" =>
        LET usable == {a \in Resolved(hostlist) : a.family \in Families} IN
        /\ {addrs[i] : i \in DOMAIN addrs} = usable
        /\ \A i, j \in DOMAIN addrs : addrs[i] = addrs[j] => i = j
=============================================================================
