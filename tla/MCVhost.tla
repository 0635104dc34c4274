------------------------------- MODULE MCVhost -------------------------------
(* Instances of Vhost and SourcePolicy, on addresses of two bits.            *)
EXTENDS Vhost

\* Every combination of settings.
AllSettings == [proxy : BOOLEAN, metadata : BOOLEAN, marker : BOOLEAN]

Spelt(addr, bits) == [network |-> [addr |-> addr, bits |-> bits], canonical |-> TRUE]

\* Two networks, one of them within the other; a second spelling, host bits set.
SomeLiterals == {Spelt(2, 1), Spelt(2, 2), [Spelt(2, 2) EXCEPT !.canonical = FALSE],
                 Spelt(3, 1)}

\* The peer whose header is believed and the one that asks for metadata, both
\* outside of both networks.
Relay == {1}
Monitor == {0}

=============================================================================
