--------------------------- MODULE GenerationLedger ---------------------------
(* What the agent promises to pickle-api, with everything between a request  *)
(* and its effect left out: visitors are served some configuration, and the  *)
(* ledger of applied generations only ever moves forward, one name or many   *)
(* at a time, to a state that visitors are being served at that moment.      *)
EXTENDS Integers

CONSTANT Fqdn

VARIABLES
    ledger,   \* per name: the applied generation, and whether it published the name
    serving   \* per name: the generation visitors are served, or Nothing

ledgerVars == <<ledger, serving>>

Nothing == -1

\* No generation was ever applied.
Unknown == [gen |-> Nothing, present |-> FALSE]

LedgerInit == /\ ledger = [f \in Fqdn |-> Unknown]
              /\ serving = [f \in Fqdn |-> Nothing]

\* The name is served just as the ledger line says.
Honoured(line, gen) == IF line.present THEN gen = line.gen ELSE gen = Nothing

\* Visitors get another configuration, never an older one than the ledger's.
Switch ==
    /\ \A f \in Fqdn : serving'[f] \in {Nothing} \/ serving'[f] >= ledger[f].gen
    /\ UNCHANGED ledger

\* Some names advance to what they are served already.
Advance ==
    /\ \A f \in Fqdn : \/ ledger'[f] = ledger[f]
                       \/ /\ ledger'[f].gen >= ledger[f].gen
                          /\ Honoured(ledger'[f], serving[f])
    /\ UNCHANGED serving

LedgerSpec == LedgerInit /\ [][Switch \/ Advance]_ledgerVars

=============================================================================
