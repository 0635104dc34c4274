------------------------------ MODULE MCServer ------------------------------
(* Instances of Server: one name, applies, a sync, status and a flaw.        *)
EXTENDS Server, TLC

CONSTANT a

\* A request without a flaw.
Plain(op, lists, s) == [op |-> op, lists |-> lists, snap |-> s, flaw |-> "none"]

Apply(f, gen) == Plain("apply", [None EXCEPT ![f] = gen], 0)
Sync(lists, s) == Plain("sync", lists, s)
Status == Plain("status", None, 0)

\* Two generations of a name, a manifest that is too old for one of them, and
\* a request that the decoder turns down.
Mixed == {Apply(a, 1), Apply(a, 2), Sync([f \in Fqdn |-> 1], 2), Status,
          [Apply(a, 1) EXCEPT !.flaw = "fqdn"]}

=============================================================================
