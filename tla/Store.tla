-------------------------------- MODULE Store --------------------------------
(* The generation store of internal/state: the map in memory and the JSON    *)
(* file that survives a restart.                                             *)
EXTENDS Routes

VARIABLES
    store,  \* the map in memory and its snapshot generation
    saved   \* what the state file holds

storeVars == <<store, saved>>

CertState == {"", "OK", "PENDING", "FAILED"}

\* "known" stands for the presence of the key in the map.
Entry == [known : BOOLEAN, gen : Nat, present : BOOLEAN, cert : CertState]

NoEntry == [known |-> FALSE, gen |-> 0, present |-> FALSE, cert |-> ""]

EntryOf(gen, present, cert) ==
    [known |-> TRUE, gen |-> gen, present |-> present, cert |-> cert]

Entries == [Fqdn -> Entry]

NoEntries == [f \in Fqdn |-> NoEntry]

StoreState == [entries : Entries, snap : Nat]

StoreTypeOK == store \in StoreState /\ saved \in StoreState

StoreInit == /\ store = [entries |-> NoEntries, snap |-> 0]
             /\ saved = store

-----------------------------------------------------------------------------
\* Mutant: a request of any generation is taken.
Unguarded(f, gen) == FALSE

\* Generation(f) is known and gen does not exceed it: the /apply guard.
Superseded(f, gen) == store.entries[f].known /\ gen <= store.entries[f].gen

\* The /sync-all guard of one manifest entry: only an older generation is stale.
Outdated(f, gen) == store.entries[f].known /\ gen < store.entries[f].gen

\* The map changes at once; a failing state file is an error the callers drop.
Persist(s) == /\ store' = s
              /\ \/ saved' = s
                 \/ "persist" \in Faults /\ saved' = saved

Record(f, e) == Persist([store EXCEPT !.entries[f] = e])

\* SetCert on an unknown name creates an entry of generation zero.
WithCert(e, cert) == [e EXCEPT !.known = TRUE, !.cert = cert]

SetCert(f, cert) ==
    Persist([store EXCEPT !.entries[f] = WithCert(store.entries[f], cert)])

\* Mutants: an unlisted name is dropped, or keeps its certificate state.
Dropped(e) == NoEntry
OnlyAbsent(e) == [e EXCEPT !.present = FALSE]

\* The entry ReplaceAll keeps for a name the new set does not list.
Tombstone(e) == [e EXCEPT !.present = FALSE, !.cert = ""]

Merged(old, new) ==
    [f \in Fqdn |-> IF new[f].known THEN new[f] ELSE Tombstone(old[f])]

ReplaceAll(new, snap) ==
    Persist([entries |-> Merged(store.entries, new), snap |-> snap])

\* Load, at the start of the process.
Reload == store' = saved /\ UNCHANGED saved

=============================================================================
