----------------------------- MODULE ZkCalls_MC -----------------------------
(* Arguments for the model checker: every path of up to five characters, hosts
   of every kind, and lists of them. *)
EXTENDS ZkCalls

Chars == {"/", ".", "a", Control}
MCClientPaths == UNION {[1..n -> Chars] : n \in 0..5}
MCOpPaths == {<<"/">>, <<"/", "a">>, <<"/", "a", "/">>}
MCSuffixes == {<<>>, <<"/">>, <<"/", "a">>, <<"/", "a", "/", ".", "a">>, <<"/", "a", "/">>}
MCArrays == {<<>>, <<"read">>, <<"read", "read">>, <<"read", "all">>, <<"broken", "read">>, <<"read", "broken">>}

Host(port, first, second, addresses) ==
    [port |-> port, first |-> first, second |-> second, addresses |-> addresses]
Address(family, number) == [family |-> family, number |-> number]

Plain == Host("good", "ok", "ok", <<Address("AF_INET", 1)>>)
MCPlainHosts == <<Plain>>
Kinds == {
    Plain,
    Host("good", "ok", "ok", <<Address("AF_INET6", 2), Address("AF_UNIX", 3), Address("AF_INET", 4)>>),
    Host("good", "badflags", "ok", <<Address("AF_INET", 5), Address("AF_INET6", 6)>>),
    Host("good", "badflags", "error", <<>>),
    Host("good", "error", "ok", <<>>),
    Host("missing", "ok", "ok", <<>>), Host("invalid", "ok", "ok", <<>>), Host("empty", "ok", "ok", <<>>) }
MCHostLists ==
    {list \in UNION {[1..n -> Kinds] : n \in 0..3} :
        \A i, j \in DOMAIN list : list[i] = list[j] /\ i # j => list[i].addresses = <<>>}
=============================================================================
