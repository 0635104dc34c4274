------------------------------ MODULE VhostProofs ------------------------------
(* Theorems about source policies and vhosts, for addresses of any width,    *)
(* policies of any length and every choice of settings.                      *)
EXTENDS Vhost, FiniteSetTheorems, FunctionTheorems, TLAPS

-----------------------------------------------------------------------------
(* The order of the rules is total, so a set of networks has one order.      *)

LEMMA BeforeOrders ==
    ASSUME NEW n \in Network, NEW m \in Network, NEW k \in Network
    PROVE  /\ ~Before(n, n)
           /\ Before(n, m) /\ Before(m, k) => Before(n, k)
           /\ n # m => Before(n, m) \/ Before(m, n)
<1>1. /\ n.addr \in Int /\ m.addr \in Int /\ k.addr \in Int
      /\ n.bits \in Int /\ m.bits \in Int /\ k.bits \in Int
  BY PolicyAssumption DEF Network, Address
<1>2. n.addr = m.addr /\ n.bits = m.bits => n = m
  BY DEF Network
<1> QED
  BY <1>1, <1>2 DEF Before

\* The place of a network in the order of a set.
Earlier(S, n) == {m \in S : Before(m, n)}
Rank(S, n) == Cardinality(Earlier(S, n)) + 1

LEMMA RankOrders ==
    ASSUME NEW S \in SUBSET Network, IsFiniteSet(S), NEW n \in S
    PROVE  /\ Rank(S, n) \in 1 .. Cardinality(S)
           /\ \A m \in S : Before(m, n) => Rank(S, m) < Rank(S, n)
<1>1. /\ IsFiniteSet(Earlier(S, n)) /\ Cardinality(Earlier(S, n)) \in Nat
      /\ Cardinality(S) \in Nat
  BY FS_Subset, FS_CardinalityType DEF Earlier
<1>2. Cardinality(Earlier(S, n)) < Cardinality(S)
  <2>1. Earlier(S, n) \in SUBSET S /\ n \notin Earlier(S, n)
    BY BeforeOrders DEF Earlier
  <2> QED
    BY <1>1, <2>1, FS_Subset
<1>3. ASSUME NEW m \in S, Before(m, n)
      PROVE  Cardinality(Earlier(S, m)) < Cardinality(Earlier(S, n))
  <2>1. Earlier(S, m) \in SUBSET Earlier(S, n)
    BY <1>3, BeforeOrders DEF Earlier
  <2>2. m \in Earlier(S, n) /\ m \notin Earlier(S, m)
    BY <1>3, BeforeOrders DEF Earlier
  <2>3. Cardinality(Earlier(S, m)) \in Nat
    BY <1>1, <2>1, FS_Subset, FS_CardinalityType
  <2> QED
    BY <1>1, <2>1, <2>2, <2>3, FS_Subset
<1>4. \A m \in S : Before(m, n) => Cardinality(Earlier(S, m)) \in Nat
  BY FS_Subset, FS_CardinalityType DEF Earlier
<1> QED
  BY <1>1, <1>2, <1>3, <1>4 DEF Rank

LEMMA RankTells ==
    ASSUME NEW S \in SUBSET Network, IsFiniteSet(S), NEW n \in S, NEW m \in S,
           Rank(S, n) = Rank(S, m)
    PROVE  n = m
<1>1. Rank(S, n) \in Int
  BY RankOrders
<1>2. ~Before(n, m) /\ ~Before(m, n)
  BY <1>1, RankOrders
<1> QED
  BY <1>2, BeforeOrders

Ascending(s) == \A i, j \in DOMAIN s : i < j => Before(s[i], s[j])

LEMMA UpTo ==
    ASSUME NEW n \in Nat
    PROVE  IsFiniteSet(1 .. n) /\ Cardinality(1 .. n) = n
<1> QED
  BY FS_Interval

\* The sequences that list a set, each member once.
LEMMA Listings ==
    ASSUME NEW S, IsFiniteSet(S), NEW s \in SetToSeqs(S)
    PROVE  /\ s \in Bijection(1 .. Cardinality(S), S)
           /\ DOMAIN s = 1 .. Cardinality(S)
           /\ Range(s) = S
<1> DEFINE D == 1 .. Cardinality(S)
<1>1. Cardinality(S) \in Nat
  BY FS_CardinalityType
<1>2. s \in [D -> S] /\ \A i, j \in D : s[i] = s[j] => i = j
  BY DEF SetToSeqs
<1>3. s \in Injection(D, S)
  BY <1>2, Fun_IsInj
<1>4. IsFiniteSet(D) /\ Cardinality(D) = Cardinality(S)
  BY <1>1, UpTo
<1>5. s \in Surjection(D, S)
  BY <1>3, <1>4, FS_Injection
<1> QED
  BY <1>2, <1>3, <1>5, Fun_SurjectionProperties DEF Bijection

LEMMA OrderExists ==
    ASSUME NEW S \in SUBSET Network, IsFiniteSet(S)
    PROVE  \E s \in SetToSeqs(S) : Ascending(s)
<1> DEFINE D == 1 .. Cardinality(S)
           rank == [n \in S |-> Rank(S, n)]
           s == [i \in D |-> CHOOSE n \in S : rank[n] = i]
<1>1. Cardinality(S) \in Nat
  BY FS_CardinalityType
<1>2. rank \in [S -> D]
  BY RankOrders
<1>3. rank \in Injection(S, D)
  BY <1>2, RankTells, Fun_IsInj
<1> HIDE DEF rank
<1>4. IsFiniteSet(D) /\ Cardinality(D) = Cardinality(S)
  BY <1>1, UpTo
<1>5. rank \in Surjection(S, D)
  BY <1>3, <1>4, FS_Injection
<1>6. \A i \in D : \E n \in S : rank[n] = i
  BY <1>5, Fun_SurjectionProperties
<1>7. \A i \in D : s[i] \in S /\ rank[s[i]] = i
  BY <1>6
<1>8. s \in SetToSeqs(S)
  BY <1>7 DEF SetToSeqs
<1>9. DOMAIN s = D
  OBVIOUS
<1> HIDE DEF s
<1>10. ASSUME NEW i \in D, NEW j \in D, i < j
      PROVE  Before(s[i], s[j])
  <2>1. s[i] \in S /\ s[j] \in S /\ Rank(S, s[i]) = i /\ Rank(S, s[j]) = j
    BY <1>7 DEF rank
  <2>2. ~Before(s[j], s[i])
    BY <1>10, <2>1, RankOrders
  <2>3. s[i] # s[j]
    BY <1>10, <2>1
  <2> QED
    BY <2>1, <2>2, <2>3, BeforeOrders
<1> QED
  BY <1>8, <1>10, <1>9 DEF Ascending

\* In an ascending sequence each network is at its rank.
LEMMA OrderIsRank ==
    ASSUME NEW S \in SUBSET Network, IsFiniteSet(S),
           NEW s \in SetToSeqs(S), Ascending(s), NEW i \in 1 .. Cardinality(S)
    PROVE  s[i] \in S /\ Rank(S, s[i]) = i
<1> DEFINE D == 1 .. Cardinality(S)
           before == [j \in 1 .. i - 1 |-> s[j]]
<1>1. Cardinality(S) \in Nat
  BY FS_CardinalityType
<1>2. /\ s \in [D -> S] /\ DOMAIN s = D
      /\ \A j, k \in D : s[j] = s[k] => j = k
      /\ \A n \in S : \E j \in D : s[j] = n
  <2>1. s \in Bijection(D, S) /\ DOMAIN s = D
    BY Listings
  <2> QED
    BY <2>1 DEF Bijection, Injection, Surjection, IsInjective
<1>3. ASSUME NEW j \in D
      PROVE  Before(s[j], s[i]) <=> j < i
  <2>1. j < i => Before(s[j], s[i])
    BY <1>2 DEF Ascending
  <2>2. i < j => Before(s[i], s[j])
    BY <1>2 DEF Ascending
  <2>3. ~Before(s[i], s[i]) /\ (Before(s[i], s[j]) => ~Before(s[j], s[i]))
    BY <1>2, BeforeOrders
  <2> QED
    BY <1>1, <2>1, <2>2, <2>3
<1>4. /\ before \in [1 .. i - 1 -> Earlier(S, s[i])]
      /\ \A j, k \in 1 .. i - 1 : before[j] = before[k] => j = k
      /\ \A n \in Earlier(S, s[i]) : \E j \in 1 .. i - 1 : before[j] = n
  <2>1. \A j \in 1 .. i - 1 : j \in D /\ j < i
    BY <1>1
  <2>2. \A j \in D : j < i => j \in 1 .. i - 1
    BY <1>1
  <2> QED
    BY <1>2, <1>3, <2>1, <2>2 DEF Earlier
<1>5. ExistsBijection(1 .. i - 1, Earlier(S, s[i]))
  BY <1>4, Fun_IsBij DEF ExistsBijection
<1>6. Cardinality(Earlier(S, s[i])) = i - 1
  BY <1>1, <1>5, FS_CountingElements
<1> QED
  BY <1>1, <1>2, <1>6 DEF Rank

LEMMA OrderIsUnique ==
    ASSUME NEW S \in SUBSET Network, IsFiniteSet(S),
           NEW s \in SetToSeqs(S), Ascending(s),
           NEW t \in SetToSeqs(S), Ascending(t)
    PROVE  s = t
<1> DEFINE D == 1 .. Cardinality(S)
<1>1. \A i \in D : s[i] = t[i]
  BY OrderIsRank, RankTells
<1>2. s \in [D -> S] /\ t \in [D -> S]
  BY DEF SetToSeqs
<1> HIDE DEF D
<1> QED
  BY <1>1, <1>2

\* A sequence of different things lists its range.
LEMMA InjectiveLists ==
    ASSUME NEW n \in Nat, NEW s, s \in [1 .. n -> Range(s)], IsInjective(s)
    PROVE  /\ IsFiniteSet(Range(s)) /\ Cardinality(Range(s)) = n
           /\ s \in SetToSeqs(Range(s))
<1> DEFINE R == Range(s)
<1>1. \A i, j \in 1 .. n : s[i] = s[j] => i = j
  BY DEF IsInjective
<1>2. \A r \in R : \E i \in 1 .. n : s[i] = r
  BY DEF Range
<1> HIDE DEF R
<1>3. s \in [1 .. n -> R]
  BY DEF R
<1>4. ExistsBijection(1 .. n, R)
  BY <1>1, <1>2, <1>3, Fun_IsBij DEF ExistsBijection
<1>5. IsFiniteSet(R) /\ Cardinality(R) = n
  <2>1. s \in Surjection(1 .. n, R)
    BY <1>2, <1>3, Fun_IsSurj
  <2>2. IsFiniteSet(R)
    BY <2>1, UpTo, FS_Surjection
  <2> QED
    BY <1>4, <2>2, FS_CountingElements
<1>6. s \in SetToSeqs(R)
  BY <1>1, <1>3, <1>5 DEF SetToSeqs
<1> QED
  BY <1>5, <1>6 DEF R

\* Some permutation of different networks puts them in order.
LEMMA SomeOrder ==
    ASSUME NEW n \in Nat, NEW networks \in [1 .. n -> Network], IsInjective(networks)
    PROVE  \E p \in SetToSeqs(1 .. n) :
               \A i, j \in DOMAIN p : i < j => ~Before(networks[p[j]], networks[p[i]])
<1> DEFINE R == Range(networks)
<1>1. networks \in [1 .. n -> R] /\ R \in SUBSET Network
  BY DEF Range
<1>2. IsFiniteSet(R) /\ Cardinality(R) = n
  BY <1>1, InjectiveLists
<1>3. \A r \in R : \E k \in 1 .. n : networks[k] = r
  BY DEF Range
<1> HIDE DEF R
<1>4. PICK s \in SetToSeqs(R) : Ascending(s)
  BY <1>1, <1>2, OrderExists
<1>5. s \in [1 .. n -> R] /\ \A i, j \in 1 .. n : i # j => s[i] # s[j]
  BY <1>2 DEF SetToSeqs
<1> DEFINE p == [i \in 1 .. n |-> CHOOSE k \in 1 .. n : networks[k] = s[i]]
<1>6. DOMAIN p = 1 .. n /\ p \in [1 .. n -> 1 .. n] /\ \A i \in 1 .. n : networks[p[i]] = s[i]
  BY <1>3, <1>5
<1> HIDE DEF p
<1>7. p \in SetToSeqs(1 .. n)
  <2>1. \A i, j \in 1 .. n : i # j => p[i] # p[j]
    BY <1>5, <1>6
  <2> QED
    BY <1>6, <2>1, UpTo DEF SetToSeqs
<1>8. ASSUME NEW i \in 1 .. n, NEW j \in 1 .. n, i < j
      PROVE  ~Before(networks[p[j]], networks[p[i]])
  <2>1. Before(s[i], s[j])
    BY <1>4, <1>5, <1>8 DEF Ascending
  <2>2. s[i] \in Network /\ s[j] \in Network
    BY <1>1, <1>5
  <2>3. ~Before(s[j], s[i])
    BY <2>1, <2>2, BeforeOrders
  <2> QED
    BY <1>6, <2>3
<1> QED
  BY <1>6, <1>7, <1>8

\* What sorting leaves: the same networks, once each and in order.
LEMMA OrderedLists ==
    ASSUME NEW n \in Nat, NEW networks \in [1 .. n -> Network], IsInjective(networks)
    PROVE  /\ Ordered(networks) \in SetToSeqs(Range(networks))
           /\ Ascending(Ordered(networks))
           /\ Range(Ordered(networks)) = Range(networks)
<1> DEFINE R == Range(networks)
           Moves(p) == \A i, j \in DOMAIN p :
                           i < j => ~Before(networks[p[j]], networks[p[i]])
           moved == CHOOSE p \in SetToSeqs(1 .. n) : Moves(p)
           sorted == [i \in 1 .. n |-> networks[moved[i]]]
<1>1. moved \in SetToSeqs(1 .. n) /\ Moves(moved)
  BY SomeOrder
<1>2. Ordered(networks) = sorted
  BY DEF Ordered
<1> HIDE DEF moved
<1>3. /\ moved \in [1 .. n -> 1 .. n] /\ DOMAIN moved = 1 .. n
      /\ \A i, j \in 1 .. n : i # j => moved[i] # moved[j]
  BY <1>1, UpTo DEF SetToSeqs
<1>4. networks \in [1 .. n -> R]
  BY DEF Range
<1>5. IsFiniteSet(R) /\ Cardinality(R) = n
  BY <1>4, InjectiveLists
<1>6. \A i \in 1 .. n : sorted[i] = networks[moved[i]] /\ sorted[i] \in R /\ sorted[i] \in Network
  BY <1>3, <1>4
<1>7. \A i, j \in 1 .. n : i # j => sorted[i] # sorted[j]
  BY <1>3, <1>6 DEF IsInjective
<1>8. DOMAIN sorted = 1 .. n /\ sorted \in [1 .. n -> R]
  BY <1>6
<1> HIDE DEF sorted, R
<1>9. sorted \in SetToSeqs(R)
  BY <1>5, <1>7, <1>8 DEF SetToSeqs
<1>10. Ascending(sorted)
  <2> SUFFICES ASSUME NEW i \in 1 .. n, NEW j \in 1 .. n, i < j
               PROVE  Before(sorted[i], sorted[j])
    BY <1>8 DEF Ascending
  <2>1. ~Before(sorted[j], sorted[i])
    BY <1>1, <1>3, <1>6
  <2>2. sorted[i] # sorted[j]
    BY <1>7
  <2> QED
    BY <1>6, <2>1, <2>2, BeforeOrders
<1>11. Range(sorted) = R
  BY <1>5, <1>9, Listings
<1> QED
  BY <1>2, <1>9, <1>10, <1>11 DEF R


-----------------------------------------------------------------------------
(* The bodies and the policies they make.                                    *)

Networks(cidrs) == [i \in DOMAIN cidrs |-> cidrs[i].network]

\* A policy that is accepted has its networks in their only order.
LEMMA ParseAccepts ==
    ASSUME NEW cidrs \in Seq(Literals), Parse(cidrs) # Refused
    PROVE  /\ Parse(cidrs) = Allowlist(Ordered(Networks(cidrs)))
           /\ Len(cidrs) <= MaxCIDRs
           /\ \A i \in DOMAIN cidrs : Canonical(cidrs[i])
           /\ IsInjective(Networks(cidrs))
<1> QED
  BY DEF Parse, Networks

\* Sequences that list as many networks as they have entries.
LEMMA NetworksList ==
    ASSUME NEW cidrs \in Seq(Literals)
    PROVE  /\ Range(Networks(cidrs)) \in SUBSET Network
           /\ IsFiniteSet(Range(Networks(cidrs)))
           /\ Range(Networks(cidrs)) = {literal.network : literal \in Range(cidrs)}
           /\ IsInjective(Networks(cidrs)) =>
                /\ Cardinality(Range(Networks(cidrs))) = Len(cidrs)
                /\ Networks(cidrs) \in SetToSeqs(Range(Networks(cidrs)))
           /\ Networks(cidrs) \in [1 .. Len(cidrs) -> Network]
<1> DEFINE D == 1 .. Len(cidrs)
           N == Networks(cidrs)
           R == Range(N)
<1>1. Len(cidrs) \in Nat /\ DOMAIN cidrs = D /\ \A i \in D : cidrs[i] \in Literals
  OBVIOUS
<1>2. \A i \in D : N[i] = cidrs[i].network /\ N[i] \in Network
  BY <1>1, PolicyAssumption DEF Networks, Literal
<1>3. DOMAIN N = D
  BY <1>1 DEF Networks
<1>4. R \in SUBSET Network
  BY <1>2, <1>3 DEF Range
<1>5. R = {literal.network : literal \in Range(cidrs)}
  BY <1>1, <1>2, <1>3 DEF Range
<1>6. N \in [D -> R]
  BY <1>1, <1>3 DEF Networks, Range
<1>7. \A n \in R : \E i \in D : N[i] = n
  BY <1>3 DEF Range
<1>12. N \in [D -> Network]
  BY <1>2, <1>3 DEF Networks
<1> HIDE DEF N, R
<1>8. N \in Surjection(D, R)
  BY <1>6, <1>7, Fun_IsSurj
<1>9. IsFiniteSet(D) /\ Cardinality(D) = Len(cidrs)
  BY <1>1, UpTo
<1>10. IsFiniteSet(R)
  BY <1>8, <1>9, FS_Surjection
<1>11. ASSUME IsInjective(N)
       PROVE  Cardinality(R) = Len(cidrs) /\ N \in SetToSeqs(R)
  <2>1. \A i, j \in D : N[i] = N[j] => i = j
    BY <1>3, <1>11 DEF IsInjective
  <2>2. ExistsBijection(D, R)
    BY <1>6, <1>7, <2>1, Fun_IsBij DEF ExistsBijection
  <2>3. Cardinality(R) = Len(cidrs)
    BY <1>1, <2>2, FS_CountingElements
  <2> QED
    BY <1>6, <2>1, <2>3 DEF SetToSeqs
<1> QED
  BY <1>4, <1>5, <1>10, <1>11, <1>12 DEF N, R


\* A list of networks, as a sequence.
LEMMA ListingIsSeq ==
    ASSUME NEW S, IsFiniteSet(S), NEW s \in SetToSeqs(S)
    PROVE  s \in Seq(S) /\ Len(s) = Cardinality(S)
<1>1. Cardinality(S) \in Nat
  BY FS_CardinalityType
<1>2. s \in [1 .. Cardinality(S) -> S]
  BY DEF SetToSeqs
<1> QED
  BY <1>1, <1>2

-----------------------------------------------------------------------------
(* nginx.                                                                    *)

LEMMA EveryoneMatches ==
    ASSUME NEW source \in Address
    PROVE  Covers(Everyone, source)
<1> DEFINE all == 2 ^ Width
<1>1. all \in Nat \ {0} /\ source \in 0 .. all - 1 /\ Width - 0 = Width
  BY PolicyAssumption DEF Address
<1> HIDE DEF all
<1>2. source \div all = 0 /\ 0 \div all = 0
  BY <1>1
<1>3. Masked(source, 0) = 0 /\ Masked(0, 0) = 0
  BY <1>1, <1>2 DEF Masked, all
<1> QED
  BY <1>3 DEF Covers, Everyone

\* The rules of a list admit by its networks and by nothing else.
LEMMA AdmitsNetworks ==
    ASSUME NEW networks \in Seq(Network), NEW source \in Address
    PROVE  Admits(Directives(Allowlist(networks)), source)
             <=> \E n \in Range(networks) : Covers(n, source)
<1> DEFINE rules == Directives(Allowlist(networks))
           allows == [i \in DOMAIN networks |-> [allow |-> TRUE, network |-> networks[i]]]
<1>1. Len(networks) \in Nat /\ DOMAIN networks = 1 .. Len(networks)
  OBVIOUS
<1>2. Allowlist(networks) # NoPolicy /\ Allowlist(networks).networks = networks
  BY DEF Allowlist, NoPolicy
<1>3. rules = allows \o DenyRest
  BY <1>2, Zenon DEF Directives
<1>4. /\ allows \in Seq([allow : BOOLEAN, network : Network]) /\ Len(allows) = Len(networks)
      /\ \A i \in 1 .. Len(networks) : allows[i] = [allow |-> TRUE, network |-> networks[i]]
  <2> DEFINE Rule == [allow : BOOLEAN, network : Network]
  <2>1. \A i \in 1 .. Len(networks) : networks[i] \in Network
    BY <1>1
  <2>2. \A n \in Network : [allow |-> TRUE, network |-> n] \in Rule
    OBVIOUS
  <2> HIDE DEF Rule
  <2>3. allows \in [1 .. Len(networks) -> Rule]
    BY <1>1, <2>1, <2>2
  <2>4. allows \in Seq(Rule) /\ Len(allows) = Len(networks)
    BY <1>1, <2>3
  <2> QED
    BY <1>1, <2>4 DEF Rule
<1>5. /\ DOMAIN rules = 1 .. Len(networks) + 1
      /\ \A i \in 1 .. Len(networks) : rules[i].allow /\ rules[i].network = networks[i]
      /\ ~rules[Len(networks) + 1].allow
      /\ rules[Len(networks) + 1].network = Everyone
  BY <1>1, <1>3, <1>4 DEF DenyRest
<1> HIDE DEF rules, allows
<1>6. ASSUME NEW n \in Range(networks), Covers(n, source)
      PROVE  Admits(rules, source)
  <2>1. PICK k \in 1 .. Len(networks) : networks[k] = n
    BY <1>1 DEF Range
  <2>2. ASSUME NEW i \in DOMAIN rules,
               \A j \in 1 .. i - 1 : ~Covers(rules[j].network, source)
        PROVE  rules[i].allow
    <3>1. i # Len(networks) + 1
      BY <1>1, <1>5, <1>6, <2>1, <2>2
    <3> QED
      BY <1>1, <1>5, <3>1
  <2> QED
    BY <2>2 DEF Admits
<1>7. ASSUME \A n \in Range(networks) : ~Covers(n, source)
      PROVE  ~Admits(rules, source)
  <2>1. \A j \in 1 .. Len(networks) : ~Covers(rules[j].network, source)
    BY <1>1, <1>5, <1>7 DEF Range
  <2>2. Covers(rules[Len(networks) + 1].network, source)
    BY <1>5, EveryoneMatches
  <2>3. Len(networks) + 1 \in DOMAIN rules /\ Len(networks) + 1 - 1 = Len(networks)
    BY <1>1, <1>5
  <2> QED
    BY <1>5, <2>1, <2>2, <2>3 DEF Admits
<1> QED
  BY <1>6, <1>7 DEF rules

-----------------------------------------------------------------------------
(* What a body that is accepted says.                                        *)

LEMMA Accepted ==
    ASSUME VhostInv, Policy # Refused
    PROVE  \/ body = Omitted /\ Policy = NoPolicy
           \/ \E cidrs \in Seq(Literals) :
                /\ Len(body.fields) = 1 /\ body.fields[1].kind = "list"
                /\ body.fields \in Seq([name : {"allowedCidrs", "unknown"},
                                        kind : {"list", "null", "other"},
                                        cidrs : Seq(Literals)])
                /\ body # Omitted /\ Last(body.fields).cidrs = cidrs
                /\ Policy = Parse(cidrs)
<1> DEFINE F == [name : {"allowedCidrs", "unknown"}, kind : {"list", "null", "other"},
                 cidrs : Seq(Literals)]
<1>1. /\ body \in [form : {"omitted", "null", "object"}, fields : Seq(F)]
      /\ body.form # "object" => body.fields = <<>>
  BY DEF VhostInv
<1>2. CASE body.form = "omitted"
  BY <1>1, <1>2 DEF Policy, Unmarshal, Omitted
<1>3. CASE body.form = "object" /\ OneField(body.fields) /\ Explicit(Last(body.fields))
  <2> DEFINE field == body.fields[1]
  <2>1. Len(body.fields) = 1 /\ Last(body.fields) = field
    BY <1>1, <1>3 DEF OneField, Last
  <2>2. field \in F
    <3>1. body.fields \in Seq(F)
      BY <1>1
    <3> HIDE DEF F
    <3> QED
      BY <2>1, <3>1
  <2>3. field.cidrs \in Seq(Literals) /\ field.kind = "list"
    BY <1>3, <2>1, <2>2 DEF Explicit
  <2>4. Policy = Parse(field.cidrs)
    BY <1>3, <2>1 DEF Policy, Unmarshal
  <2>5. body # Omitted
    BY <1>3 DEF Omitted
  <2> QED
    BY <1>1, <2>1, <2>3, <2>4, <2>5
<1>4. CASE ~(body.form = "omitted")
           /\ ~(body.form = "object" /\ OneField(body.fields) /\ Explicit(Last(body.fields)))
  <2>1. Unmarshal(body) = Refused
    BY <1>4 DEF Unmarshal
  <2> QED
    BY <2>1 DEF Policy
<1> QED
  BY <1>2, <1>3, <1>4


LEMMA InvAdmits == VhostInv => AdmitsTheListed
<1> SUFFICES ASSUME VhostInv, Policy # Refused, NEW source \in Address
             PROVE  Admits(Directives(Policy), source) <=> Lists(source)
  BY DEF AdmitsTheListed
<1>1. CASE body = Omitted /\ Policy = NoPolicy
  <2>1. Directives(Policy) = <<>>
    BY <1>1 DEF Directives
  <2>2. Admits(<<>>, source)
    BY DEF Admits
  <2> QED
    BY <1>1, <2>1, <2>2 DEF Lists
<1>2. ASSUME NEW cidrs \in Seq(Literals), body # Omitted,
             Last(body.fields).cidrs = cidrs, Policy = Parse(cidrs)
      PROVE  Admits(Directives(Policy), source) <=> Lists(source)
  <2> DEFINE R == Range(Networks(cidrs))
             s == Ordered(Networks(cidrs))
  <2>1. R \in SUBSET Network /\ IsFiniteSet(R) /\ R = {l.network : l \in Range(cidrs)}
    BY NetworksList
  <2>2. s \in SetToSeqs(R) /\ Range(s) = R
    BY <1>2, NetworksList, ParseAccepts, OrderedLists
  <2>3. s \in Seq(R)
    BY <2>1, <2>2, ListingIsSeq
  <2>4. s \in Seq(Network)
    BY <2>1, <2>3
  <2>5. Policy = Allowlist(s)
    BY <1>2, ParseAccepts
  <2> HIDE DEF R, s
  <2>6. Admits(Directives(Policy), source) <=> \E n \in R : Covers(n, source)
    BY <2>2, <2>4, <2>5, AdmitsNetworks
  <2>7. Lists(source) <=> \E l \in Range(cidrs) : Covers(l.network, source)
    BY <1>2 DEF Lists
  <2> QED
    BY <2>1, <2>6, <2>7
<1> QED
  BY <1>1, <1>2, Accepted

\* A list of other texts for the same networks is parsed to the same policy.
LEMMA SameNetworks ==
    ASSUME NEW cidrs \in Seq(Literals), Parse(cidrs) # Refused,
           NEW n \in Nat, NEW others, DOMAIN others = 1 .. n, Len(others) <= MaxCIDRs,
           \A i \in DOMAIN others : Canonical(others[i]),
           IsInjective(Networks(others)),
           Range(Networks(others)) = Range(Networks(cidrs))
    PROVE  Parse(others) = Parse(cidrs)
<1> DEFINE R == Range(Networks(cidrs))
<1>1. Ordered(Networks(cidrs)) \in SetToSeqs(R) /\ Ascending(Ordered(Networks(cidrs)))
  BY NetworksList, ParseAccepts, OrderedLists
<1>2. Ordered(Networks(others)) \in SetToSeqs(R) /\ Ascending(Ordered(Networks(others)))
  <2>1. R \in SUBSET Network
    BY NetworksList
  <2>2. Networks(others) \in [1 .. n -> Range(Networks(others))]
    BY DEF Networks, Range
  <2>3. Networks(others) \in [1 .. n -> Network]
    BY <2>1, <2>2
  <2> QED
    BY <2>3, OrderedLists
<1>3. Ordered(Networks(others)) = Ordered(Networks(cidrs))
  BY <1>1, <1>2, NetworksList, OrderIsUnique
<1>4. Parse(others) = Allowlist(Ordered(Networks(others)))
  BY DEF Parse, Networks
<1> QED
  BY <1>3, <1>4, ParseAccepts

LEMMA InvOnePolicy == VhostInv => OnePolicyPerSet
<1> SUFFICES ASSUME VhostInv, Policy \notin {Refused, NoPolicy},
                    NEW others \in SetToSeqs(Range(Last(body.fields).cidrs))
             PROVE  Parse(others) = Policy
  BY DEF OnePolicyPerSet
<1>1. PICK cidrs \in Seq(Literals) :
           Last(body.fields).cidrs = cidrs /\ Policy = Parse(cidrs)
  BY Accepted
<1> DEFINE D == 1 .. Len(cidrs)
           R == Range(cidrs)
<1>2. Len(cidrs) \in Nat /\ DOMAIN cidrs = D /\ cidrs \in [D -> R]
  BY DEF Range
<1>3. IsFiniteSet(R) /\ Cardinality(R) <= Len(cidrs)
  <2>1. cidrs \in Surjection(D, R)
    BY <1>2, Fun_IsSurj DEF Range
  <2>2. IsFiniteSet(D) /\ Cardinality(D) = Len(cidrs)
    BY <1>2, UpTo
  <2> HIDE DEF D, R
  <2> QED
    BY <2>1, <2>2, FS_Surjection
<1>4. others \in SetToSeqs(R)
  BY <1>1
<1>5. /\ DOMAIN others = 1 .. Cardinality(R) /\ Len(others) = Cardinality(R)
      /\ Range(others) = R
      /\ \A i, j \in DOMAIN others : others[i] = others[j] => i = j
  BY <1>3, <1>4, Listings, ListingIsSeq DEF SetToSeqs
<1>6. /\ Len(cidrs) <= MaxCIDRs
      /\ \A i \in DOMAIN cidrs : Canonical(cidrs[i])
      /\ IsInjective(Networks(cidrs))
  BY <1>1, ParseAccepts
<1>7. \A i \in DOMAIN others : \E k \in D : others[i] = cidrs[k]
  <2>1. \A n \in R : \E k \in D : n = cidrs[k]
    BY <1>2 DEF Range
  <2>2. \A i \in DOMAIN others : others[i] \in R
    BY <1>5 DEF Range
  <2> QED
    BY <2>1, <2>2
<1>8. Len(others) <= MaxCIDRs
  <2>1. Len(cidrs) \in Int /\ Len(others) \in Int /\ MaxCIDRs \in Int
    BY <1>2, <1>3, <1>5, FS_CardinalityType, PolicyAssumption
  <2> QED
    BY <1>3, <1>5, <1>6, <2>1
<1>9. \A i \in DOMAIN others : Canonical(others[i])
  BY <1>2, <1>6, <1>7
<1>10. IsInjective(Networks(others))
  <2>1. \A k, m \in D : cidrs[k].network = cidrs[m].network => k = m
    BY <1>2, <1>6 DEF IsInjective, Networks
  <2>2. \A i, j \in DOMAIN others : others[i].network = others[j].network => i = j
    BY <1>5, <1>7, <2>1
  <2> QED
    BY <2>2 DEF IsInjective, Networks
<1>11. Range(Networks(others)) = Range(Networks(cidrs))
  <2>1. Range(Networks(others)) = {l.network : l \in Range(others)}
    BY DEF Range, Networks
  <2>2. Range(Networks(cidrs)) = {l.network : l \in Range(cidrs)}
    BY NetworksList
  <2> QED
    BY <1>5, <2>1, <2>2
<1> QED
  BY <1>1, <1>3, <1>5, <1>8, <1>9, <1>10, <1>11, SameNetworks, FS_CardinalityType

LEMMA InvRoundTrip == VhostInv => RoundTrip
<1> SUFFICES ASSUME VhostInv, Policy # Refused
             PROVE  Unmarshal(Marshal(Policy)) = Policy
  BY DEF RoundTrip
<1>1. CASE Policy = NoPolicy
  BY <1>1 DEF Marshal, IsZero, Unmarshal, Omitted
<1>2. ASSUME NEW cidrs \in Seq(Literals), Policy = Parse(cidrs)
      PROVE  Unmarshal(Marshal(Policy)) = Policy
  <2> DEFINE R == Range(Networks(cidrs))
             s == Ordered(Networks(cidrs))
             texts == [i \in DOMAIN s |-> [network |-> s[i], canonical |-> TRUE]]
  <2>1. /\ Policy = Allowlist(s) /\ Len(cidrs) <= MaxCIDRs
        /\ \A i \in DOMAIN cidrs : Canonical(cidrs[i])
        /\ IsInjective(Networks(cidrs))
    BY <1>2, ParseAccepts
  <2>2. /\ R \in SUBSET Network /\ IsFiniteSet(R)
        /\ R = {l.network : l \in Range(cidrs)} /\ Cardinality(R) = Len(cidrs)
    BY <2>1, NetworksList
  <2>3. s \in SetToSeqs(R) /\ Range(s) = R
    BY <2>1, NetworksList, OrderedLists
  <2>4. s \in Seq(R) /\ Len(s) = Len(cidrs) /\ \A i, j \in DOMAIN s : s[i] = s[j] => i = j
    BY <2>2, <2>3, ListingIsSeq DEF SetToSeqs
  <2>5. Unmarshal(Marshal(Policy)) = Parse(texts)
    <3>1. Policy # NoPolicy /\ Policy.networks = s
      BY <2>1 DEF Allowlist, NoPolicy
    <3>2. Marshal(Policy) = Object(<<Field("allowedCidrs", "list", texts)>>)
      BY <3>1, Zenon DEF Marshal, IsZero
    <3> HIDE DEF texts
    <3> QED
      BY <3>2 DEF Unmarshal, Object, Field, OneField, Explicit, Last
  <2>6. DOMAIN texts = DOMAIN s /\ Len(texts) <= MaxCIDRs
    BY <2>1, <2>4
  <2>7. \A i \in DOMAIN texts : Canonical(texts[i])
    <3>1. \A n \in R : HostBitsClear(n)
      BY <2>1, <2>2 DEF Canonical, Range
    <3>2. \A i \in DOMAIN s : HostBitsClear(s[i])
      BY <2>4, <3>1
    <3> HIDE DEF s
    <3> QED
      BY <3>2 DEF Canonical
  <2>8. Networks(texts) = s
    BY <2>4 DEF Networks
  <2>9. IsInjective(Networks(texts)) /\ Range(Networks(texts)) = R
    BY <2>3, <2>4, <2>8 DEF IsInjective
  <2>10. DOMAIN texts = 1 .. Len(cidrs) /\ Len(cidrs) \in Nat
    BY <2>4, <2>6
  <2> HIDE DEF texts, R
  <2>11. Parse(cidrs) # Refused /\ Range(Networks(texts)) = Range(Networks(cidrs))
    BY <1>2, <2>9 DEF R
  <2>12. Parse(texts) = Parse(cidrs)
    BY <2>6, <2>7, <2>9, <2>10, <2>11, SameNetworks
  <2> QED
    BY <1>2, <2>5, <2>12
<1> QED
  BY <1>1, <1>2, Accepted


-----------------------------------------------------------------------------
(* The inductive invariant.                                                  *)

Fields == [name : {"allowedCidrs", "unknown"}, kind : {"list", "null", "other"},
           cidrs : Seq(Literals)]

BodyInv ==
    /\ body \in [form : {"omitted", "null", "object"}, fields : Seq(Fields)]
    /\ body.form # "object" => body.fields = <<>>

LEMMA BlankBody ==
    ASSUME NEW blank \in Blank
    PROVE  /\ blank \in [form : {"omitted", "null", "object"}, fields : Seq(Fields)]
           /\ blank.fields = <<>>
<1>1. <<>> \in Seq(Fields)
  OBVIOUS
<1>2. \E form \in {"omitted", "null", "object"} : blank = [form |-> form, fields |-> <<>>]
  BY DEF Blank, Omitted, Object
<1> QED
  BY <1>1, <1>2

LEMMA WrittenBody ==
    ASSUME BodyInv, WriteBody
    PROVE  BodyInv'
<1>1. /\ body \in [form : {"omitted", "null", "object"}, fields : Seq(Fields)]
      /\ body.fields \in Seq(Fields)
      /\ body.form # "object" => body.fields = <<>>
  BY DEF BodyInv
<1>2. ASSUME NEW name \in {"allowedCidrs", "unknown"}, NEW kind \in {"list", "null", "other"},
             Write(name, kind)
      PROVE  BodyInv'
  <2>1. Field(name, kind, <<>>) \in Fields
    <3>1. <<>> \in Seq(Literals)
      OBVIOUS
    <3> QED
      BY <3>1 DEF Field, Fields
  <2>2. Append(body.fields, Field(name, kind, <<>>)) \in Seq(Fields)
    BY <1>1, <2>1
  <2> QED
    BY <1>2, <2>2 DEF Write, Object, BodyInv
<1>3. ASSUME NEW literal \in Literals, WriteNetwork(literal)
      PROVE  BodyInv'
  <2> DEFINE n == Len(body.fields)
             last == body.fields[n]
             longer == [last EXCEPT !.cidrs = Append(@, literal)]
  <2>1. body.fields # <<>> /\ body.form = "object"
    BY <1>1, <1>3 DEF WriteNetwork
  <2>2. n \in DOMAIN body.fields
    BY <1>1, <2>1
  <2>3. last \in Fields
    BY <1>1, <2>2
  <2>4. last.cidrs \in Seq(Literals)
    BY <2>3 DEF Fields
  <2>5. Append(last.cidrs, literal) \in Seq(Literals)
    BY <2>4
  <2>6. longer \in Fields
    BY <2>3, <2>5 DEF Fields
  <2>7. [body.fields EXCEPT ![n] = longer] \in Seq(Fields)
    BY <1>1, <2>2, <2>6
  <2>8. body' = [body EXCEPT !.fields = [@ EXCEPT ![n] = longer]]
    BY <1>3 DEF WriteNetwork
  <2>9. body'.form = "object" /\ body' \in [form : {"omitted", "null", "object"}, fields : Seq(Fields)]
    BY <1>1, <2>1, <2>7, <2>8
  <2> QED
    BY <2>9 DEF BodyInv
<1> QED
  BY <1>2, <1>3 DEF WriteBody

LEMMA VhostIsBody ==
    VhostInv <=> /\ BodyInv
                 /\ settings \in Settings /\ marker \in BOOLEAN
                 /\ \/ vhost = NoVhost
                    \/ \E kind \in {"challenge", "custom", "platform"} :
                         vhost = [kind |-> kind, policy |-> Policy] /\ Policy # Refused
<1> QED
  BY DEF VhostInv, BodyInv, Fields

LEMMA InitInv == Init => VhostInv
<1> SUFFICES ASSUME Init PROVE VhostInv
  OBVIOUS
<1>1. BodyInv
  BY BlankBody DEF Init, BodyInv
<1> QED
  BY <1>1, VhostIsBody DEF Init

LEMMA NextInv == VhostInv /\ [Next]_vars => VhostInv'
<1> SUFFICES ASSUME VhostInv, [Next]_vars PROVE VhostInv'
  OBVIOUS
<1>1. /\ BodyInv
      /\ settings \in Settings /\ marker \in BOOLEAN
      /\ \/ vhost = NoVhost
         \/ \E kind \in {"challenge", "custom", "platform"} :
              vhost = [kind |-> kind, policy |-> Policy] /\ Policy # Refused
  BY VhostIsBody
<1> DEFINE Published == \E kind \in {"challenge", "custom", "platform"} :
                          vhost = [kind |-> kind, policy |-> Policy] /\ Policy # Refused
<1>2. ASSUME BodyInv', settings' = settings, marker' \in BOOLEAN,
             vhost' = NoVhost \/ Published'
      PROVE  VhostInv'
  BY <1>1, <1>2 DEF VhostInv, BodyInv, Fields
<1>3. UNCHANGED body => BodyInv' /\ Policy' = Policy
  BY <1>1 DEF BodyInv, Policy
<1>4. CASE WriteRequest
  BY <1>1, <1>2, <1>4, WrittenBody DEF WriteRequest
<1>5. ASSUME NEW kind \in {"challenge", "custom", "platform"}, Publish(kind)
      PROVE  VhostInv'
  <2>1. vhost' = [kind |-> kind, policy |-> Policy'] /\ Policy' # Refused
    BY <1>3, <1>5 DEF Publish, Policy
  <2>2. Published'
    BY <2>1
  <2> QED
    BY <1>1, <1>2, <1>3, <1>5, <2>2 DEF Publish
<1>6. CASE Upgrade
  <2>1. PICK kind \in {"challenge", "custom", "platform"} :
             vhost = [kind |-> kind, policy |-> Policy] /\ Policy # Refused
    BY <1>1, <1>6 DEF Upgrade, NoVhost
  <2>2. vhost' = [kind |-> "custom", policy |-> Policy'] /\ Policy' # Refused
    BY <1>3, <1>6, <2>1 DEF Upgrade
  <2>3. Published'
    BY <2>2
  <2> QED
    BY <1>1, <1>2, <1>3, <1>6, <2>3 DEF Upgrade
<1>7. CASE Withdraw
  BY <1>1, <1>2, <1>7, BlankBody DEF Withdraw, BodyInv
<1>8. ASSUME UNCHANGED <<body, settings, vhost>>, marker' \in BOOLEAN
      PROVE  VhostInv'
  <2>1. vhost' = NoVhost \/ Published'
    BY <1>1, <1>3, <1>8 DEF NoVhost
  <2> QED
    BY <1>2, <1>3, <1>8, <2>1
<1>9. CASE Toggle
  BY <1>8, <1>9 DEF Toggle
<1>10. CASE UNCHANGED vars
  BY <1>1, <1>8, <1>10 DEF vars
<1> QED
  BY <1>4, <1>5, <1>6, <1>7, <1>9, <1>10 DEF Next

THEOREM VhostInductive == Spec => []VhostInv
<1> QED
  BY InitInv, NextInv, PTL DEF Spec

-----------------------------------------------------------------------------
(* What the sockets of a vhost answer.                                       *)

\* Only a server that proxies lets a request through, and only while open.
LEMMA Guests ==
    ASSUME NEW v, NEW q \in Request, Reaches(v, q)
    PROVE  ~Closed /\ q.socket \in {"https", "http", "proxy"} /\ Site(v, q) = "guest"
<1>1. q.socket \in {"http", "proxy", "https", "metadata"}
  BY DEF Request
<1>2. Answer(v, q) = "guest"
  BY DEF Reaches
<1>3. CASE ~Listens(v, q.socket)
  BY <1>2, <1>3 DEF Answer
<1>4. CASE Listens(v, q.socket) /\ q.socket = "https"
  BY <1>2, <1>4 DEF Answer, HttpsServer
<1>5. CASE Listens(v, q.socket) /\ q.socket = "metadata"
  <2>1. MetadataServer(q) = "guest"
    BY <1>2, <1>5 DEF Answer
  <2> QED
    BY <2>1 DEF MetadataServer, Request
<1>6. CASE Listens(v, q.socket) /\ q.socket \in {"http", "proxy"}
  <2>1. (IF v.kind = "challenge" THEN ChallengeServer(v, q) ELSE RedirectServer(q)) = "guest"
    BY <1>2, <1>6 DEF Answer
  <2> QED
    BY <1>6, <2>1 DEF ChallengeServer, RedirectServer
<1> QED
  BY <1>1, <1>3, <1>4, <1>5, <1>6

LEMMA InvClosed == ClosedMeansClosed
<1> QED
  BY Guests DEF ClosedMeansClosed

LEMMA InvChallenge == VhostInv => ChallengeStaysOpen
<1> SUFFICES ASSUME vhost.kind \in {"challenge", "custom"}, NEW q \in Request,
                    q.path = "challenge", q.socket # "https", Listens(vhost, q.socket),
                    q.socket = "metadata" => q.named /\ q.peer \in MetadataPeers
             PROVE  Answer(vhost, q) = "webroot"
  BY DEF ChallengeStaysOpen
<1>1. CASE q.socket = "metadata"
  <2>1. RemoteAddr(q) \in MetadataPeers /\ q.named
    BY <1>1 DEF RemoteAddr
  <2>2. MetadataServer(q) = "webroot"
    BY <2>1 DEF MetadataServer
  <2> QED
    BY <1>1, <2>2 DEF Answer
<1>2. CASE q.socket \in {"http", "proxy"}
  <2>1. ChallengeServer(vhost, q) = "webroot" /\ RedirectServer(q) = "webroot"
    BY DEF ChallengeServer, RedirectServer
  <2> QED
    BY <1>2, <2>1 DEF Answer
<1> QED
  BY <1>1, <1>2 DEF Request

LEMMA InvPolicyHolds == VhostInv => PolicyHoldsEverywhere
<1> SUFFICES ASSUME VhostInv, vhost # NoVhost, NEW q \in Request, Reaches(vhost, q)
             PROVE  \/ Lists(q.peer)
                    \/ /\ Lists(q.header)
                       /\ q.socket = "https" \/ (q.socket = "proxy" /\ q.peer \in ProxyPeers)
  BY DEF PolicyHoldsEverywhere
<1>1. vhost.policy = Policy /\ Policy # Refused
  BY VhostIsBody
<1>2. q.socket \in {"https", "http", "proxy"} /\ Site(vhost, q) = "guest"
  BY Guests
<1>3. q.peer \in Address /\ q.header \in Address
  BY DEF Request
<1>4. RemoteAddr(q) \in Address
  BY <1>2, <1>3 DEF RemoteAddr
<1>5. Admits(Directives(Policy), RemoteAddr(q))
  BY <1>1, <1>2 DEF Site
<1>6. Lists(RemoteAddr(q))
  BY <1>1, <1>4, <1>5, InvAdmits DEF AdmitsTheListed
<1> QED
  BY <1>2, <1>6 DEF RemoteAddr

-----------------------------------------------------------------------------
(* A name's vhosts let through exactly those its request listed: the rules   *)
(* that are rendered mean what the JSON says, in whatever order.             *)
THEOREM ListedAreAdmitted == Spec => []AdmitsTheListed
<1> QED
  BY VhostInductive, InvAdmits, PTL

(* No policy and an empty one are read back from the JSON they are written   *)
(* as, and so is every other.                                                *)
THEOREM PoliciesSurvive == Spec => []RoundTrip
<1> QED
  BY VhostInductive, InvRoundTrip, PTL

(* The order of a request's list leaves no trace in the policy.              *)
THEOREM OrderIsIrrelevant == Spec => []OnePolicyPerSet
<1> QED
  BY VhostInductive, InvOnePolicy, PTL

(* Neither a policy nor the marker keeps certbot's challenge from the webroot. *)
THEOREM ChallengesGetThrough == Spec => []ChallengeStaysOpen
<1> QED
  BY VhostInductive, InvChallenge, PTL

(* Without the marker no socket of a vhost leads to the guest.               *)
THEOREM ClosedIsClosed == Spec => []ClosedMeansClosed
<1> QED
  BY InvClosed, PTL

(* Whoever reaches the guest, by whichever socket and in either phase of a   *)
(* custom domain, is on the list its request was published with.             *)
THEOREM PoliciesHold == Spec => []PolicyHoldsEverywhere
<1> QED
  BY VhostInductive, InvPolicyHolds, PTL

=============================================================================
