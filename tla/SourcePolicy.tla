----------------------------- MODULE SourcePolicy -----------------------------
(* Source policies (internal/sourcepolicy, render/source_policy.go): the     *)
(* networks a route admits, from the JSON of a request to the access rules   *)
(* of its vhost, and back to JSON. Addresses are of one family.              *)
(* A body grows field by field, network by network; each one is decoded.     *)
EXTENDS SequencesExt

CONSTANTS
    Literals,  \* the texts a body may list
    Width,     \* bits of an address: 32 and 128 in the code
    MaxCIDRs,  \* networks of a policy: 128 in the code
    MaxFields  \* fields of a body (a bound for TLC)


VARIABLE body

-----------------------------------------------------------------------------
(* Networks.                                                                 *)

Address == 0 .. 2 ^ Width - 1

Network == [addr : Address, bits : 0 .. Width]

\* The part of an address that a network of so many bits compares.
Masked(addr, bits) == addr \div 2 ^ (Width - bits)

Covers(network, addr) == Masked(addr, network.bits) = Masked(network.addr, network.bits)

HostBitsClear(network) == network.addr % 2 ^ (Width - network.bits) = 0

\* A text, and the network it spells, in its only canonical spelling or another.
Literal == [network : Network, canonical : BOOLEAN]

\* The last conjunct holds for every width: it is there for the provers, which
\* know nothing of powers.
ASSUME PolicyAssumption ==
    /\ {Width, MaxCIDRs, MaxFields} \subseteq Nat
    /\ Literals \subseteq Literal
    /\ 2 ^ Width \in Nat \ {0}

Canonical(literal) == literal.canonical /\ HostBitsClear(literal.network)

\* Mutant: of two networks at one address either may come first.
ByAddress(n, m) == n.addr < m.addr

\* The order of the rendered rules.
Before(n, m) == n.addr < m.addr \/ (n.addr = m.addr /\ n.bits < m.bits)

-----------------------------------------------------------------------------
(* Parse.                                                                    *)

\* The nil policy, which admits every source; a policy is otherwise its networks.
NoPolicy == [kind |-> "legacy", networks |-> <<>>]

Refused == [kind |-> "refused", networks |-> <<>>]

Allowlist(networks) == [kind |-> "allowlist", networks |-> networks]

\* SortFunc: the networks, moved until none stands behind one it comes before.
Ordered(networks) ==
    LET moved == CHOOSE p \in SetToSeqs(DOMAIN networks) :
                     \A i, j \in DOMAIN p : i < j => ~Before(networks[p[j]], networks[p[i]])
    IN  [i \in DOMAIN networks |-> networks[moved[i]]]

Parse(cidrs) ==
    LET networks == [i \in DOMAIN cidrs |-> cidrs[i].network]
    IN  IF /\ Len(cidrs) <= MaxCIDRs
           /\ \A i \in DOMAIN cidrs : Canonical(cidrs[i])
           /\ IsInjective(networks)
        THEN Allowlist(Ordered(networks))
        ELSE Refused

-----------------------------------------------------------------------------
(* JSON. The policy of a body is left out, null, or an object: a sequence of *)
(* fields, each with a list, null or something else for its value.           *)

Omitted == [form |-> "omitted", fields |-> <<>>]

Object(fields) == [form |-> "object", fields |-> fields]

Field(name, kind, cidrs) == [name |-> name, kind |-> kind, cidrs |-> cidrs]

OneField(fields) == Len(fields) = 1 /\ fields[1].name = "allowedCidrs"

Explicit(field) == field.kind = "list"

\* UnmarshalJSON, where the field is present at all.
Unmarshal(b) ==
    CASE b.form = "omitted" -> NoPolicy
      [] b.form = "object" /\ OneField(b.fields) /\ Explicit(Last(b.fields)) ->
           Parse(Last(b.fields).cidrs)
      [] OTHER -> Refused

\* Mutant: an empty policy is left out like none at all.
OmitEmpty(policy) == policy.networks = <<>>

\* IsZero, for omitzero.
IsZero(policy) == policy = NoPolicy

\* MarshalJSON.
Marshal(policy) ==
    IF IsZero(policy) THEN Omitted
    ELSE Object(<<Field("allowedCidrs", "list",
                        [i \in DOMAIN policy.networks |->
                           [network |-> policy.networks[i], canonical |-> TRUE]])>>)

-----------------------------------------------------------------------------
(* sourcePolicyDirectives, and what nginx makes of them (external): the      *)
(* first rule that matches decides, and no rule admits.                      *)

Everyone == [addr |-> 0, bits |-> 0]

\* Mutant: no rule for the rest.
NoRest == <<>>

DenyRest == <<[allow |-> FALSE, network |-> Everyone]>>

Directives(policy) ==
    IF policy = NoPolicy THEN <<>>
    ELSE [i \in DOMAIN policy.networks |-> [allow |-> TRUE, network |-> policy.networks[i]]]
           \o DenyRest

Admits(rules, source) ==
    \A i \in DOMAIN rules :
        /\ Covers(rules[i].network, source)
        /\ \A j \in 1 .. i - 1 : ~Covers(rules[j].network, source)
        => rules[i].allow

-----------------------------------------------------------------------------
(* The bodies.                                                               *)

Blank == {Omitted, [Omitted EXCEPT !.form = "null"], Object(<<>>)}

Write(name, kind) ==
    /\ body.form = "object" /\ Len(body.fields) < MaxFields
    /\ body' = Object(Append(body.fields, Field(name, kind, <<>>)))

\* The list of the last field goes on, one past what is accepted.
WriteNetwork(literal) ==
    /\ body.fields # <<>> /\ Last(body.fields).kind = "list"
    /\ Len(Last(body.fields).cidrs) <= MaxCIDRs
    /\ body' = [body EXCEPT !.fields[Len(body.fields)].cidrs = Append(@, literal)]

WriteBody ==
    \/ \E name \in {"allowedCidrs", "unknown"}, kind \in {"list", "null", "other"} :
         Write(name, kind)
    \/ \E literal \in Literals : WriteNetwork(literal)

-----------------------------------------------------------------------------
Policy == Unmarshal(body)

\* The request lists a network of the source, or no policy at all.
Lists(source) ==
    \/ body = Omitted
    \/ \E literal \in Range(Last(body.fields).cidrs) : Covers(literal.network, source)

(* nginx admits exactly who the request listed: everybody without a policy,  *)
(* nobody with an empty one, whatever the order of the rules.                *)
AdmitsTheListed ==
    Policy # Refused =>
        \A source \in Address :
            Admits(Directives(Policy), source) <=> Lists(source)

(* What MarshalJSON writes of a policy UnmarshalJSON reads as that policy: no *)
(* policy and an empty one, above all, stay apart.                           *)
RoundTrip == Policy # Refused => Unmarshal(Marshal(Policy)) = Policy

(* The same networks make the same policy, and so the same vhost, in         *)
(* whatever order they are listed.                                           *)
OnePolicyPerSet ==
    Policy \notin {Refused, NoPolicy} =>
        \A order \in SetToSeqs(Range(Last(body.fields).cidrs)) : Parse(order) = Policy

=============================================================================
