-------------------------------- MODULE Vhost --------------------------------
(* What the rendered vhosts of one name answer (the templates of             *)
(* internal/render), on each of the sockets they listen on, while a custom   *)
(* domain passes from the challenge vhost to HTTPS and while the operator    *)
(* opens and closes the ingress. nginx itself is external: a request is      *)
(* first rewritten (return), then checked for access, then answered.         *)
(* The policy comes from the body that is written before the publication.    *)
EXTENDS SourcePolicy

CONSTANTS
    ProxyPeers,     \* the peers whose PROXY header is believed
    MetadataPeers,  \* the peers that may ask the metadata listener
    Settings        \* the combinations of settings to look at

ASSUME VhostAssumption ==
    /\ ProxyPeers \cup MetadataPeers \subseteq Address
    /\ Settings \subseteq [proxy : BOOLEAN, metadata : BOOLEAN, marker : BOOLEAN]

VARIABLES
    settings,  \* which optional listeners and the marker are configured
    vhost,     \* the vhost of the name: its kind and its policy
    marker     \* whether the marker file is there

vars == <<body, settings, vhost, marker>>

NoVhost == [kind |-> "none", policy |-> NoPolicy]

-----------------------------------------------------------------------------
(* Requests: the socket, who connects, the address in the PROXY header,      *)
(* whether Host (and SNI) are the vhost's, and what is asked for.            *)

Request == [socket : {"http", "proxy", "https", "metadata"},
            peer : Address, header : Address, named : BOOLEAN,
            path : {"site", "challenge", "presence"}]

\* The sockets of a vhost.
Listens(v, socket) ==
    CASE socket = "https"    -> v.kind \in {"custom", "platform"}
      [] socket = "http"     -> v.kind \in {"challenge", "custom"}
      [] socket = "proxy"    -> v.kind \in {"challenge", "custom"} /\ settings.proxy
      [] socket = "metadata" -> v.kind # "none" /\ settings.metadata

\* $remote_addr. Only the TLS tier connects to the HTTPS socket.
RemoteAddr(q) ==
    CASE q.socket = "https"               -> q.header
      [] q.socket = "proxy"               -> IF q.peer \in ProxyPeers THEN q.header ELSE q.peer
      [] q.socket \in {"http", "metadata"} -> q.peer

Closed == settings.marker /\ ~marker

\* Mutant: a vhost without access rules.
Open(v, q) == "guest"

\* location /: the access rules, then the guest.
Site(v, q) ==
    IF Admits(Directives(v.policy), RemoteAddr(q)) THEN "guest" ELSE "denied"

HttpsServer(v, q) ==
    CASE ~q.named            -> "misdirected"
      [] q.named /\ Closed   -> "closed"
      [] q.named /\ ~Closed  -> Site(v, q)

\* Mutants: the marker closes the whole server, as that of HTTPS; or nothing.
ClosedServer(v, q) ==
    IF Closed THEN "closed" ELSE IF q.path = "challenge" THEN "webroot" ELSE Site(v, q)
NeverClosed(v, q) == IF q.path = "challenge" THEN "webroot" ELSE Site(v, q)

ChallengeServer(v, q) ==
    CASE q.path = "challenge"               -> "webroot"
      [] q.path # "challenge" /\ Closed     -> "closed"
      [] q.path # "challenge" /\ ~Closed    -> Site(v, q)

RedirectServer(q) == IF q.path = "challenge" THEN "webroot" ELSE "redirect"

MetadataServer(q) ==
    CASE RemoteAddr(q) \notin MetadataPeers            -> "denied"
      [] RemoteAddr(q) \in MetadataPeers /\ ~q.named   -> "misdirected"
      [] RemoteAddr(q) \in MetadataPeers /\ q.named    ->
           CASE q.path = "presence"  -> "present"
             [] q.path = "challenge" -> "webroot"
             [] q.path = "site"      -> "unknown"

Answer(v, q) ==
    CASE ~Listens(v, q.socket)                      -> "elsewhere"
      [] Listens(v, q.socket) /\ q.socket = "https"    -> HttpsServer(v, q)
      [] Listens(v, q.socket) /\ q.socket = "metadata" -> MetadataServer(q)
      [] Listens(v, q.socket) /\ q.socket \in {"http", "proxy"} ->
           IF v.kind = "challenge" THEN ChallengeServer(v, q) ELSE RedirectServer(q)

-----------------------------------------------------------------------------
Init ==
    /\ body \in Blank
    /\ settings \in Settings
    /\ vhost = NoVhost
    /\ marker \in BOOLEAN

\* A vhost is rendered from its own route alone: bodies are written for a name
\* that is not published, and a change of policy is a withdrawal before it.
WriteRequest ==
    /\ vhost = NoVhost
    /\ WriteBody
    /\ UNCHANGED <<settings, vhost, marker>>

Publish(kind) ==
    /\ vhost = NoVhost
    /\ Unmarshal(body) # Refused
    /\ vhost' = [kind |-> kind, policy |-> Unmarshal(body)]
    /\ UNCHANGED <<body, settings, marker>>

\* The certificate is there: the same route, rendered anew.
Upgrade ==
    /\ vhost.kind = "challenge"
    /\ vhost' = [vhost EXCEPT !.kind = "custom"]
    /\ UNCHANGED <<body, settings, marker>>

Withdraw ==
    /\ vhost' = NoVhost
    /\ body' \in Blank
    /\ UNCHANGED <<settings, marker>>

\* The operator opens or closes the ingress (external).
Toggle ==
    /\ marker' = ~marker
    /\ UNCHANGED <<body, settings, vhost>>

Next ==
    \/ WriteRequest
    \/ \E kind \in {"challenge", "custom", "platform"} : Publish(kind)
    \/ Upgrade \/ Withdraw \/ Toggle

Spec == Init /\ [][Next]_vars

-----------------------------------------------------------------------------
(* A vhost has the policy of the body it was published with, which is as it  *)
(* was, and which was not refused.                                           *)
VhostInv ==
    /\ body \in [form : {"omitted", "null", "object"},
               fields : Seq([name : {"allowedCidrs", "unknown"},
                             kind : {"list", "null", "other"}, cidrs : Seq(Literals)])]
    /\ body.form # "object" => body.fields = <<>>
    /\ settings \in Settings /\ marker \in BOOLEAN
    /\ \/ vhost = NoVhost
       \/ \E kind \in {"challenge", "custom", "platform"} :
            vhost = [kind |-> kind, policy |-> Policy] /\ Policy # Refused

Reaches(v, q) == Answer(v, q) = "guest"

(* HTTP-01 goes on: while a custom domain is published, first issue and      *)
(* renewal alike, its challenge is answered from the webroot - on port 80,   *)
(* on the PROXY listener and to the metadata peers - whatever its policy     *)
(* says and though the ingress be closed.                                    *)
ChallengeStaysOpen ==
    vhost.kind \in {"challenge", "custom"} =>
        \A q \in Request :
            /\ q.path = "challenge" /\ q.socket # "https" /\ Listens(vhost, q.socket)
            /\ q.socket = "metadata" => q.named /\ q.peer \in MetadataPeers
            => Answer(vhost, q) = "webroot"

(* Without its marker the ingress lets nobody through to a guest, in either  *)
(* phase of a custom domain and on every socket.                             *)
ClosedMeansClosed == Closed => \A q \in Request : ~Reaches(vhost, q)

(* The request's list holds in every vhost and on every socket: who gets     *)
(* through to the guest is listed in the body it was published with, by the  *)
(* address of the connection or by that of a header whose sender is believed. *)
PolicyHoldsEverywhere ==
    vhost # NoVhost =>
        \A q \in Request : Reaches(vhost, q) =>
            \/ Lists(q.peer)
            \/ /\ Lists(q.header)
               /\ q.socket = "https" \/ (q.socket = "proxy" /\ q.peer \in ProxyPeers)

=============================================================================
