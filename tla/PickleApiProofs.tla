--------------------------- MODULE PickleApiProofs ---------------------------
(* Theorems about PickleApi, for every set of names and any number of        *)
(* changes and snapshots.                                                    *)
EXTENDS PickleApi, TLAPS

-----------------------------------------------------------------------------
(* What the operators on one line return.                                    *)

LEMMA SyncedType ==
    ASSUME TypeOK, NEW f \in Fqdn, NEW line \in Line
    PROVE  /\ Synced(f, line) \in Line
           /\ entries[f].gen <= Synced(f, line).gen
           /\ line.present => Synced(f, line) = line \/ Synced(f, line).gen > line.gen
<1>1. /\ entries[f] \in Line /\ entries[f].gen \in Int
      /\ line.gen \in Int
  BY ApiAssumption DEF TypeOK, Line
<1>2. [entries[f] EXCEPT !.present = FALSE] \in Line
      /\ [entries[f] EXCEPT !.present = FALSE].gen = entries[f].gen
  BY <1>1 DEF Line
<1>3. CASE line.present
  BY <1>1, <1>3 DEF Synced
<1>4. CASE ~line.present
  BY <1>1, <1>2, <1>4 DEF Synced
<1> QED
  BY <1>3, <1>4

LEMMA SyncedIsWanted ==
    ASSUME TypeOK, NEW f \in Fqdn, NEW line \in Line,
           Written(f, line), NothingInvented
    PROVE  /\ Synced(f, line).gen <= desired[f].gen
           /\ Synced(f, line).present /\ Synced(f, line).gen = desired[f].gen
                => desired[f].present
BY ApiAssumption DEF TypeOK, Line, Synced, Written, NothingInvented

LEMMA ToldType ==
    ASSUME TypeOK, NEW f \in Fqdn, NEW line \in Line
    PROVE  Told(f, line) \in 0 .. MaxGen
BY ApiAssumption DEF TypeOK, Line, Told

LEMMA MessageLines ==
    ASSUME TypeOK, NEW m \in net
    PROVE  /\ m.kind = "apply" => m.fqdn \in Fqdn /\ m.line \in Line
           /\ m.kind = "sync" => /\ m \in SyncMessage
                                 /\ m.snap \in 0 .. MaxSnap /\ m.lines \in [Fqdn -> Line]
BY DEF TypeOK, ApplyMessage, SyncMessage

\* What Hears leaves of the confirmations.
LEMMA Heard ==
    ASSUME TypeOK, NEW f \in Fqdn, Hears(f), entries' \in [Fqdn -> Line]
    PROVE  /\ confirmed' \in [Fqdn -> 0 .. MaxGen]
           /\ \A g \in Fqdn : confirmed'[g] = confirmed[g] \/ confirmed'[g] = entries'[g].gen
BY DEF TypeOK, Hears, Line

-----------------------------------------------------------------------------
(* The types.                                                                *)

LEMMA TypeStep ==
    ASSUME TypeOK, [Next]_vars
    PROVE  TypeOK'
<1> USE ApiAssumption
<1>1. ASSUME NEW f \in Fqdn, NEW present \in BOOLEAN, Change(f, present)
      PROVE  TypeOK'
  <2>1. desired[f].gen + 1 \in 0 .. MaxGen
    BY <1>1 DEF TypeOK, Line, Change
  <2>2. [gen |-> desired[f].gen + 1, present |-> present] \in Line
    BY <2>1 DEF Line
  <2>3. desired' \in [Fqdn -> Line]
    BY <1>1, <2>2 DEF TypeOK, Change
  <2> QED
    BY <1>1, <2>3 DEF TypeOK, Change, agentVars
<1>2. ASSUME NEW f \in Fqdn, SendApply(f)
      PROVE  TypeOK'
  <2>1. [kind |-> "apply", fqdn |-> f, line |-> desired[f]] \in ApplyMessage
    BY DEF TypeOK, ApplyMessage
  <2> QED
    BY <1>2, <2>1 DEF TypeOK, SendApply, apiVars, agentVars
<1>3. CASE TakeSnapshot
  <2>1. snapshot.snap + 1 \in 0 .. MaxSnap
    BY <1>3 DEF TypeOK, SyncMessage, TakeSnapshot
  <2>2. snapshot' \in SyncMessage
    BY <1>3, <2>1 DEF TypeOK, SyncMessage, TakeSnapshot
  <2> QED
    BY <1>3, <2>2 DEF TypeOK, TakeSnapshot, agentVars
<1>4. CASE SendSnapshot
  BY <1>4 DEF TypeOK, SendSnapshot, apiVars, agentVars
<1>5. ASSUME NEW m \in net, Drop(m)
      PROVE  TypeOK'
  BY <1>5 DEF TypeOK, Drop, apiVars, agentVars
<1>6. ASSUME NEW m \in net, ApplyTaken(m)
      PROVE  TypeOK'
  <2>1. m.fqdn \in Fqdn /\ m.line \in Line
    BY <1>6, MessageLines DEF ApplyTaken
  <2>2. entries' \in [Fqdn -> Line]
    BY <1>6, <2>1 DEF TypeOK, ApplyTaken
  <2>3. withdrawn' \in [Fqdn -> 0 .. MaxGen]
    BY <1>6, <2>1, ToldType DEF TypeOK, ApplyTaken
  <2>4. confirmed' \in [Fqdn -> 0 .. MaxGen]
    BY <1>6, <2>1, <2>2, Heard DEF ApplyTaken
  <2> QED
    BY <1>6, <2>2, <2>3, <2>4 DEF TypeOK, ApplyTaken
<1>7. ASSUME NEW m \in net, ApplyStale(m)
      PROVE  TypeOK'
  <2>1. m.fqdn \in Fqdn /\ entries' \in [Fqdn -> Line]
    BY <1>7, MessageLines DEF ApplyStale, TypeOK
  <2>2. confirmed' \in [Fqdn -> 0 .. MaxGen]
    BY <1>7, <2>1, Heard DEF ApplyStale
  <2> QED
    BY <1>7, <2>1, <2>2 DEF TypeOK, ApplyStale
<1>8. ASSUME NEW m \in net, SyncTaken(m)
      PROVE  TypeOK'
  <2>1. m.snap \in 0 .. MaxSnap /\ m.lines \in [Fqdn -> Line]
    BY <1>8, MessageLines DEF SyncTaken
  <2>2. entries' \in [Fqdn -> Line]
    BY <1>8, <2>1, SyncedType DEF SyncTaken
  <2>3. withdrawn' \in [Fqdn -> 0 .. MaxGen]
    BY <1>8, <2>1, ToldType DEF SyncTaken
  <2>4. \A f \in Fqdn : entries'[f].gen \in 0 .. MaxGen
    BY <2>2 DEF Line
  <2>5. confirmed' \in [Fqdn -> 0 .. MaxGen]
    BY <1>8, <2>4 DEF TypeOK, SyncTaken
  <2> QED
    BY <1>8, <2>1, <2>2, <2>3, <2>5, MessageLines DEF TypeOK, SyncTaken
<1>9. CASE UNCHANGED vars
  BY <1>9 DEF TypeOK, vars, apiVars, agentVars
<1> QED
  BY <1>1, <1>2, <1>3, <1>4, <1>5, <1>6, <1>7, <1>8, <1>9 DEF Next

-----------------------------------------------------------------------------
(* The requests on their way.                                                *)

\* A later change leaves what was written, written.
LEMMA StaysWritten ==
    ASSUME TypeOK, NEW f \in Fqdn, NEW present \in BOOLEAN, Change(f, present),
           NEW g \in Fqdn, NEW line \in Line, Written(g, line)
    PROVE  Written(g, line)'
<1>1. /\ desired[g].gen \in Nat
      /\ g # f => desired'[g] = desired[g]
      /\ g = f => desired'[g] = [gen |-> desired[f].gen + 1, present |-> present]
  BY ApiAssumption DEF TypeOK, Line, Change
<1>2. CASE g # f
  BY <1>1, <1>2 DEF Written
<1>3. CASE g = f
  <2>1. line.gen \in Int /\ line.gen <= desired[f].gen
    BY <1>3, ApiAssumption DEF Written, Line
  <2> QED
    BY <1>1, <1>3, <2>1 DEF Written
<1> QED
  BY <1>2, <1>3

\* A snapshot that is taken is the newest so far.
LEMMA TakenIsNewest ==
    ASSUME ApiInv, NEW m \in net, SyncTaken(m)
    PROVE  accepted' = m /\ accepted'.snap = snap'
<1>1. m.snap \in Int /\ m.snap > 0 /\ snap \in Int /\ accepted.snap = snap
  BY MessageLines, ApiAssumption DEF ApiInv, TypeOK, SyncTaken
<1>2. m.snap > accepted.snap
  BY <1>1 DEF SyncTaken, SnapshotStale
<1> QED
  BY <1>2 DEF SyncTaken

\* What may be on its way after a step that pickle-api does not take.
Sent(m) == \/ m \in net
           \/ m = snapshot /\ snapshot.snap > 0
           \/ \E f \in Fqdn : m = [kind |-> "apply", fqdn |-> f, line |-> desired[f]]

LEMMA SentIsWritten ==
    ASSUME ApiInv, TypeOK', UNCHANGED <<desired, snapshot>>, accepted'.snap = snap',
           \A m \in net' : Sent(m)
    PROVE  ApiInv'
<1>1. snapshot.kind = "sync"
  BY DEF ApiInv, TypeOK, SyncMessage
<1>2. \A f \in Fqdn : Written(f, desired[f])
  BY ApiAssumption DEF Written, ApiInv, TypeOK, Line
<1>3. ASSUME NEW m \in net'
      PROVE  /\ m.kind = "apply" => Written(m.fqdn, m.line)
             /\ m.kind = "sync" => m.snap > 0 /\ \A f \in Fqdn : Written(f, m.lines[f])
  <2>1. CASE m \in net \/ (m = snapshot /\ snapshot.snap > 0)
    BY <1>1, <2>1 DEF ApiInv
  <2>2. CASE \E f \in Fqdn : m = [kind |-> "apply", fqdn |-> f, line |-> desired[f]]
    BY <1>2, <2>2
  <2>3. Sent(m)
    BY <1>3
  <2> QED
    BY <2>1, <2>2, <2>3 DEF Sent
<1>4. \A f \in Fqdn : Written(f, snapshot.lines[f])'
  BY DEF ApiInv, Written
<1>5. ASSUME NEW m \in net'
      PROVE  /\ m.kind = "apply" => Written(m.fqdn, m.line)'
             /\ m.kind = "sync" => m.snap > 0 /\ \A f \in Fqdn : Written(f, m.lines[f])'
  BY <1>3 DEF Written
<1> QED
  BY <1>4, <1>5 DEF ApiInv

LEMMA RequestsStep ==
    ASSUME ApiInv, TypeOK', [Next]_vars
    PROVE  ApiInv'
<1> USE DEF ApiInv
<1>1. ASSUME NEW f \in Fqdn, NEW present \in BOOLEAN, Change(f, present)
      PROVE  ApiInv'
  <2>1. snapshot' = snapshot /\ net' = net /\ accepted'.snap = snap'
    BY <1>1 DEF Change, agentVars
  <2>2. \A g \in Fqdn : snapshot.lines[g] \in Line
    BY DEF TypeOK, SyncMessage
  <2>3. \A g \in Fqdn : Written(g, snapshot.lines[g])'
    BY <1>1, <2>1, <2>2, StaysWritten
  <2>4. ASSUME NEW m \in net
        PROVE  /\ m.kind = "apply" => Written(m.fqdn, m.line)'
               /\ m.kind = "sync" => m.snap > 0 /\ \A g \in Fqdn : Written(g, m.lines[g])'
    <3>1. CASE m.kind = "apply"
      BY <1>1, <2>4, <3>1, MessageLines, StaysWritten
    <3>2. CASE m.kind = "sync"
      BY <1>1, <2>4, <3>2, MessageLines, StaysWritten
    <3> QED
      BY <3>1, <3>2
  <2> QED
    BY <2>1, <2>3, <2>4
<1>2. CASE TakeSnapshot
  <2>1. \A f \in Fqdn : Written(f, desired[f])
    BY ApiAssumption DEF Written, TypeOK, Line
  <2> QED
    BY <1>2, <2>1 DEF TakeSnapshot, Written, agentVars
<1>3. ASSUME NEW f \in Fqdn, SendApply(f)
      PROVE  ApiInv'
  <2>1. \A m \in net' : Sent(m)
    BY <1>3 DEF SendApply, Sent
  <2> QED
    BY <1>3, <2>1, SentIsWritten DEF SendApply, apiVars, agentVars
<1>4. CASE SendSnapshot
  <2>1. \A m \in net' : Sent(m)
    BY <1>4 DEF SendSnapshot, Sent
  <2> QED
    BY <1>4, <2>1, SentIsWritten DEF SendSnapshot, apiVars, agentVars
<1>5. ASSUME NEW m \in net, Drop(m) \/ ApplyTaken(m) \/ ApplyStale(m) \/ SyncTaken(m)
      PROVE  ApiInv'
  <2>1. accepted'.snap = snap'
    BY <1>5, TakenIsNewest DEF Drop, ApplyTaken, ApplyStale, agentVars
  <2>2. UNCHANGED <<desired, snapshot>> /\ \A n \in net' : Sent(n)
    BY <1>5 DEF Drop, ApplyTaken, ApplyStale, SyncTaken, apiVars, Sent
  <2> QED
    BY <2>1, <2>2, SentIsWritten
<1>6. CASE UNCHANGED vars
  <2>1. \A n \in net' : Sent(n)
    BY <1>6 DEF vars, Sent
  <2> QED
    BY <1>6, <2>1, SentIsWritten DEF vars, apiVars, agentVars
<1> QED
  BY <1>1, <1>2, <1>3, <1>4, <1>5, <1>6 DEF Next

\* The invariant, inductive: the types, the requests on their way, which say of
\* each name what pickle-api wanted of it when they were written, and the newest
\* snapshot that was accepted.
LEMMA ApiInductive == Spec => []ApiInv
<1>1. Init => ApiInv
  <2>1. NoLine \in Line /\ 0 \in 0 .. MaxGen /\ 0 \in 0 .. MaxSnap
    BY ApiAssumption DEF NoLine, Line
  <2>2. ASSUME Init
        PROVE  TypeOK
    BY <2>1, <2>2 DEF Init, TypeOK, SyncMessage
  <2>3. ASSUME Init, NEW f \in Fqdn
        PROVE  Written(f, snapshot.lines[f])
    BY <2>3 DEF Init, Written, NoLine
  <2> QED
    BY <2>2, <2>3 DEF Init, ApiInv
<1>2. ApiInv /\ [Next]_vars => ApiInv'
  BY TypeStep, RequestsStep DEF ApiInv
<1> QED
  BY <1>1, <1>2, PTL DEF Spec

-----------------------------------------------------------------------------
(* The agent's record.                                                       *)

LEMMA EntriesAtFirst ==
    ASSUME Init
    PROVE  NothingInvented /\ ConfirmedStands
<1>1. NoLine.gen = 0 /\ NoLine.present = FALSE
  BY DEF NoLine
<1>2. \A f \in Fqdn : entries[f] = NoLine /\ desired[f] = NoLine /\ confirmed[f] = 0
  BY DEF Init
<1>3. \A f \in Fqdn : entries[f].gen = 0 /\ desired[f].gen = 0 /\ entries[f].present = FALSE
  BY <1>1, <1>2
<1> QED
  BY <1>2, <1>3 DEF NothingInvented, ConfirmedStands

LEMMA WantedStep ==
    ASSUME ApiInv, NothingInvented, [Next]_vars
    PROVE  NothingInvented'
<1> USE DEF ApiInv
<1>1. ASSUME NEW f \in Fqdn, NEW present \in BOOLEAN, Change(f, present)
      PROVE  NothingInvented'
  <2>1. /\ desired[f].gen \in Nat /\ entries' = entries
        /\ \A g \in Fqdn : g # f => desired'[g] = desired[g]
        /\ desired'[f].gen = desired[f].gen + 1
    BY <1>1, ApiAssumption DEF TypeOK, Line, Change, agentVars
  <2>2. \A g \in Fqdn : entries[g].gen \in Int
    BY ApiAssumption DEF TypeOK, Line
  <2> QED
    BY <2>1, <2>2 DEF NothingInvented
<1>2. ASSUME UNCHANGED <<desired, entries>>
      PROVE  NothingInvented'
  BY <1>2 DEF NothingInvented
<1>3. ASSUME NEW m \in net, ApplyTaken(m)
      PROVE  NothingInvented'
  <2>1. m.fqdn \in Fqdn /\ Written(m.fqdn, m.line)
    BY <1>3, MessageLines DEF ApplyTaken
  <2>2. /\ entries'[m.fqdn] = m.line /\ desired' = desired
        /\ \A g \in Fqdn : g # m.fqdn => entries'[g] = entries[g]
    BY <1>3, <2>1 DEF TypeOK, ApplyTaken
  <2> QED
    BY <2>1, <2>2 DEF NothingInvented, Written
<1>4. ASSUME NEW m \in net, SyncTaken(m)
      PROVE  NothingInvented'
  <2>1. m.lines \in [Fqdn -> Line] /\ \A f \in Fqdn : Written(f, m.lines[f])
    BY <1>4, MessageLines DEF SyncTaken
  <2>2. desired' = desired /\ \A f \in Fqdn : entries'[f] = Synced(f, m.lines[f])
    BY <1>4 DEF SyncTaken
  <2>3. SUFFICES ASSUME NEW f \in Fqdn
                 PROVE  /\ entries'[f].gen <= desired[f].gen
                        /\ entries'[f].present /\ entries'[f].gen = desired[f].gen
                             => desired[f].present
    BY <2>2 DEF NothingInvented
  <2> QED
    BY <2>1, <2>2, SyncedIsWanted
<1> QED
  BY <1>1, <1>2, <1>3, <1>4
  DEF Next, TakeSnapshot, SendApply, SendSnapshot, Drop, ApplyStale, vars, apiVars, agentVars

\* Whatever is lost, late or doubled, the agent publishes of a generation only
\* what pickle-api wanted of it, and is never ahead of it.
THEOREM NeverInvents == Spec => []NothingInvented
<1>1. Init => NothingInvented
  BY EntriesAtFirst
<1> QED
  BY <1>1, ApiInductive, WantedStep, PTL DEF Spec

LEMMA ConfirmedStep ==
    ASSUME ApiInv, ConfirmedStands, [Next]_vars
    PROVE  ConfirmedStands'
<1> USE DEF ApiInv
<1>1. \A f \in Fqdn : entries[f].gen \in Int /\ confirmed[f] \in Int
  BY ApiAssumption DEF TypeOK, Line
<1>2. ASSUME UNCHANGED <<confirmed, entries>>
      PROVE  ConfirmedStands'
  BY <1>2 DEF ConfirmedStands
<1>3. ASSUME entries' \in [Fqdn -> Line],
             \A f \in Fqdn : /\ entries[f].gen <= entries'[f].gen
                             /\ confirmed'[f] = confirmed[f] \/ confirmed'[f] = entries'[f].gen
      PROVE  ConfirmedStands'
  <2>1. \A f \in Fqdn : entries'[f].gen \in Int
    BY <1>3, ApiAssumption DEF Line
  <2> QED
    BY <1>1, <1>3, <2>1 DEF ConfirmedStands
<1>4. ASSUME NEW m \in net, ApplyTaken(m) \/ ApplyStale(m)
      PROVE  ConfirmedStands'
  <2>1. m.fqdn \in Fqdn /\ m.line \in Line /\ Hears(m.fqdn)
    BY <1>4, MessageLines DEF ApplyTaken, ApplyStale
  <2>2. entries' \in [Fqdn -> Line]
    BY <1>4, <2>1 DEF TypeOK, ApplyTaken, ApplyStale
  <2>3. \A f \in Fqdn : entries[f].gen <= entries'[f].gen
    BY <1>1, <1>4, <2>1, ApiAssumption DEF TypeOK, ApplyTaken, ApplyStale, IsNews, Line
  <2> QED
    BY <1>3, <2>1, <2>2, <2>3, Heard
<1>5. ASSUME NEW m \in net, SyncTaken(m)
      PROVE  ConfirmedStands'
  <2>1. m.lines \in [Fqdn -> Line]
    BY <1>5, MessageLines DEF SyncTaken
  <2>2. /\ entries' \in [Fqdn -> Line]
        /\ \A f \in Fqdn : entries[f].gen <= entries'[f].gen
    BY <1>5, <2>1, SyncedType DEF SyncTaken
  <2>3. \A f \in Fqdn : confirmed'[f] = confirmed[f] \/ confirmed'[f] = entries'[f].gen
    BY <1>5 DEF SyncTaken
  <2> QED
    BY <1>3, <2>2, <2>3
<1> QED
  BY <1>2, <1>4, <1>5
  DEF Next, Change, TakeSnapshot, SendApply, SendSnapshot, Drop, vars, apiVars, agentVars

\* What an answer has confirmed is never lost to an older request.
THEOREM ConfirmedIsKept == Spec => []ConfirmedStands
<1>1. Init => ConfirmedStands
  BY EntriesAtFirst
<1> QED
  BY <1>1, ApiInductive, ConfirmedStep, PTL DEF Spec

LEMMA SnapshotStep ==
    ASSUME ApiInv, SnapshotStands, [Next]_vars
    PROVE  SnapshotStands'
<1> USE DEF ApiInv
<1>1. \A f \in Fqdn : /\ entries[f] \in Line /\ entries[f].gen \in Int
                      /\ accepted.lines[f] \in Line /\ accepted.lines[f].gen \in Int
  BY ApiAssumption DEF TypeOK, SyncMessage, Line
<1>2. ASSUME UNCHANGED <<entries, accepted>>
      PROVE  SnapshotStands'
  BY <1>2 DEF SnapshotStands
<1>3. ASSUME NEW m \in net, ApplyTaken(m)
      PROVE  SnapshotStands'
  <2>1. m.fqdn \in Fqdn /\ m.line \in Line /\ m.line.gen \in Int
    BY <1>3, MessageLines, ApiAssumption DEF ApplyTaken, Line
  <2>2. /\ accepted' = accepted /\ m.line.gen > entries[m.fqdn].gen
        /\ entries'[m.fqdn] = m.line
        /\ \A f \in Fqdn : f # m.fqdn => entries'[f] = entries[f]
    BY <1>3, <2>1 DEF TypeOK, ApplyTaken, IsNews
  <2>3. SUFFICES ASSUME NEW f \in Fqdn, accepted.lines[f].present
                 PROVE  entries'[f] = accepted.lines[f] \/ entries'[f].gen > accepted.lines[f].gen
    BY <2>2 DEF SnapshotStands
  <2>4. entries[f] = accepted.lines[f] \/ entries[f].gen > accepted.lines[f].gen
    BY <2>3 DEF SnapshotStands
  <2> QED
    BY <1>1, <2>1, <2>2, <2>4
<1>4. ASSUME NEW m \in net, SyncTaken(m)
      PROVE  SnapshotStands'
  <2>1. m.lines \in [Fqdn -> Line]
    BY <1>4, MessageLines DEF SyncTaken
  <2>2. accepted' = m
    BY <1>4, TakenIsNewest
  <2>3. \A f \in Fqdn : entries'[f] = Synced(f, m.lines[f])
    BY <1>4 DEF SyncTaken
  <2> QED
    BY <2>1, <2>2, <2>3, SyncedType DEF SnapshotStands
<1> QED
  BY <1>2, <1>3, <1>4
  DEF Next, Change, TakeSnapshot, SendApply, SendSnapshot, Drop, ApplyStale, vars, apiVars, agentVars

\* What a snapshot lists stays as it says, or gives way to a newer generation:
\* the guards against older snapshots and older applies protect it together.
THEOREM SnapshotIsKept == Spec => []SnapshotStands
<1>1. Init => SnapshotStands
  BY DEF Init, SnapshotStands, NoLine
<1> QED
  BY <1>1, ApiInductive, SnapshotStep, PTL DEF Spec

=============================================================================
