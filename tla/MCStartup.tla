------------------------------ MODULE MCStartup ------------------------------
(* Environments for Startup: good ones, and each way to get one wrong.       *)
EXTENDS Startup

Address(at, port) == [at |-> at, kind |-> "unicast", canonical |-> TRUE, port |-> port]

Control == Address("bridge", 9443)
Https   == Address("loopback", 8443)
Proxy   == Address("relay", 8081)

Peer == Address("peer", 0)
Second == Address("second", 0)
Third == Address("third", 0)

\* Wildcard entries: blank, whole, and what typos make of one.
Blank == <<>>
Pair(root) == <<root, "=", "cert", ":", "key">>
NoMark == <<"r2">>
NoKey == <<"r2", "=", "cert">>
EmptyCert == <<"r2", "=", ":", "key">>
EmptyKey == <<"r2", "=", "cert", ":">>
NoRoot == <<"=", "cert", ":", "key">>
LostComma == Pair("r1") \o Pair("r2")

OnOff(spelling, meant) == [spelling |-> spelling, meant |-> meant]

Base == [listen |-> Control, httpsListen |-> Https,
         proxyListen |-> Proxy, proxyPeers |-> <<Peer>>,
         metadataListen |-> Unset, metadataPeers |-> <<>>,
         wildcards |-> <<Pair("r1"), Pair("r2")>>,
         targetNetwork |-> "canonical", marker |-> "none", token |-> "secret",
         siteLimits |-> OnOff("unset", TRUE)]

Metered == [Base EXCEPT !.metadataListen = Address("relay", 8082),
                         !.metadataPeers = <<Peer, Second>>]

\* Environments that a start accepts: the third without the root r1, the fourth
\* with its comma lost, the last with two listeners on one socket.
Good == {Base, Metered,
         [Base EXCEPT !.wildcards = <<Blank, Pair("r2")>>],
         [Base EXCEPT !.wildcards = <<LostComma>>],
         [Base EXCEPT !.siteLimits = OnOff("right", FALSE)],
         [Base EXCEPT !.proxyListen = Control]}

\* Environments with a mistake.
Mistaken == {[Metered EXCEPT !.metadataListen = Address("relay", 443)],
             [Metered EXCEPT !.metadataListen = Proxy],
             [Metered EXCEPT !.metadataPeers = <<Peer, Peer>>],
             [Metered EXCEPT !.metadataPeers = <<Peer, Second, Third>>],
             [Metered EXCEPT !.metadataListen = Unset],
             [Base EXCEPT !.proxyListen = Https],
             [Base EXCEPT !.proxyListen = [Proxy EXCEPT !.canonical = FALSE]],
             [Base EXCEPT !.wildcards = <<Pair("r1"), Pair("r1")>>],
             [Base EXCEPT !.siteLimits = OnOff("misspelt", FALSE)],
             [Base EXCEPT !.targetNetwork = "other"],
             [Base EXCEPT !.marker = "unclean"],
             [Base EXCEPT !.token = "placeholder"]}

Malformed == {[Base EXCEPT !.wildcards = <<Pair("r1"), entry>>] :
                 entry \in {NoMark, NoKey, EmptyCert, EmptyKey, NoRoot}}

Environs == Good \cup Mistaken \cup Malformed

Roots == [f \in Fqdn |-> IF f = CHOOSE g \in Fqdn : TRUE THEN <<"r1">> ELSE <<"r2">>]

=============================================================================
