---------------------------- MODULE ServerProofs ----------------------------
(* Theorems about Server, for any number of calls, names and generations.    *)
EXTENDS Server, TLAPS

-----------------------------------------------------------------------------
(* What the building blocks of the steps do to the calls.                    *)

LEMMA GenerationIsNat == \A n \in Generation \cup {0} : n \in Nat
BY ServerAssumption

LEMMA GenerationsAreNat ==
    ASSUME NEW g \in Generations, NEW f \in Fqdn
    PROVE  g[f] \in Generation \cup {0} /\ g[f] \in Nat
<1>1. g[f] \in Generation \cup {0}
  BY DEF Generations
<1> QED
  BY <1>1, GenerationIsNat

LEMMA NoneType == None \in Generations
BY DEF None, Generations

LEMMA FreeType == Free \in CallState
BY NoneType DEF Free, CallState, Phase, NoRequest, Request, Code

LEMMA BelowItself == ASSUME NEW g \in Generations PROVE Below(g, g) /\ Below(None, g)
BY GenerationsAreNat DEF Below, None

\* What stays of a call in every step of its own.
SameRequest(old, new) == /\ new.req = old.req
                         /\ new.floor = old.floor
                         /\ new.events = old.events

LEMMA Answered ==
    ASSUME TypeOK, NEW c \in Call, NEW status \in Code, NEW g \in Generations,
           Answer(c, status, g)
    PROVE  /\ call' \in [Call -> CallState]
           /\ \A d \in Call \ {c} : call'[d] = call[d]
           /\ call'[c].at = "answered" /\ call'[c].code = status /\ call'[c].tells = g
           /\ SameRequest(call[c], call'[c])
<1>1. call[c] \in CallState /\ "answered" \in Phase
  BY DEF TypeOK, Phase
<1> DEFINE to == [call[c] EXCEPT !.at = "answered", !.code = status, !.tells = g]
<1>2. to \in CallState
  BY <1>1 DEF CallState
<1>3. to.at = "answered" /\ to.code = status /\ to.tells = g /\ SameRequest(call[c], to)
  BY <1>1 DEF CallState, SameRequest
<1>4. call' = [call EXCEPT ![c] = to]
  BY DEF Answer
<1> HIDE DEF to
<1> QED
  BY <1>2, <1>3, <1>4 DEF TypeOK

LEMMA WentTo ==
    ASSUME TypeOK, NEW c \in Call, NEW p \in Phase, GoTo(c, p)
    PROVE  /\ call' \in [Call -> CallState]
           /\ \A d \in Call \ {c} : call'[d] = call[d]
           /\ call'[c].at = p
           /\ SameRequest(call[c], call'[c])
<1>1. call[c] \in CallState
  BY DEF TypeOK
<1> DEFINE to == [call[c] EXCEPT !.at = p]
<1>2. to \in CallState
  BY <1>1 DEF CallState
<1>3. to.at = p /\ SameRequest(call[c], to)
  BY <1>1 DEF CallState, SameRequest
<1>4. call' = [call EXCEPT ![c] = to]
  BY DEF GoTo
<1> HIDE DEF to
<1> QED
  BY <1>2, <1>3, <1>4 DEF TypeOK

LEMMA RecordedType ==
    ASSUME TypeOK, NEW r
    PROVE  /\ Recorded(r) \in Generations
           /\ Below(Recorded(r), gens)
           /\ \A f \in Listed(r) : Recorded(r)[f] = gens[f]
<1>1. Recorded(r) \in Generations
  BY DEF Recorded, Listed, Generations, TypeOK
<1>2. Below(Recorded(r), gens)
  BY GenerationsAreNat DEF Below, Recorded, TypeOK
<1>3. \A f \in Listed(r) : Recorded(r)[f] = gens[f]
  BY DEF Recorded, Listed
<1> QED
  BY <1>1, <1>2, <1>3

\* A call whose turn it is not keeps its invariant while the record grows.
LEMMA Bystander ==
    ASSUME ServerInv, TypeOK', NEW d \in Call, call'[d] = call[d], Below(gens, gens'),
           call[d].at \in Holding => mutateMu' = mutateMu /\ UNCHANGED recordVars
    PROVE  CallInv(d)'
<1> DEFINE was == call[d]
<1>1. was \in CallState /\ call'[d] = was /\ gens \in Generations /\ gens' \in Generations
  BY DEF ServerInv, TypeOK
<1>2. CallInv(d)
  BY DEF ServerInv
<1>3. \A g \in Generations : Below(g, gens) => Below(g, gens')
  BY <1>1, GenerationsAreNat DEF Below
<1>4. Exclusive(d)'
  BY <1>1, <1>2 DEF CallInv, Exclusive, Stale, Superseded, Listed, recordVars, Holding
<1>5. InItsPlace(d)'
  BY <1>1, <1>2 DEF CallInv, InItsPlace
<1>6. SeesTheRecord(d)'
  <2>1. Below(was.floor, gens') /\ Below(was.events.apply, gens') /\ Below(was.events.sync, gens')
    BY <1>1, <1>2, <1>3 DEF CallInv, SeesTheRecord, CallState
  <2>2. was.at = "committed" /\ was.req.op = "apply" =>
          \A f \in Listed(was.req) : was.floor[f] < gens'[f]
    BY <1>1, <1>2 DEF CallInv, SeesTheRecord, recordVars, Holding
  <2> QED
    BY <1>1, <2>1, <2>2 DEF SeesTheRecord, Listed
<1>7. AnswerIsCurrent(d)'
  <2> SUFFICES ASSUME was.at = "answered", NEW f \in Fqdn PROVE was.tells[f] <= gens'[f]
    BY <1>1, <1>2 DEF CallInv, AnswerIsCurrent, Listed
  <2>1. was.tells[f] <= gens[f] /\ gens[f] <= gens'[f]
    BY <1>1, <1>2 DEF CallInv, AnswerIsCurrent, Below
  <2>2. was.tells[f] \in Nat /\ gens[f] \in Nat /\ gens'[f] \in Nat
    BY <1>1, GenerationsAreNat DEF CallState
  <2> QED
    BY <2>1, <2>2
<1>8. StatusIsComplete(d)'
  BY <1>1, <1>2 DEF CallInv, StatusIsComplete
<1> QED
  BY <1>4, <1>5, <1>6, <1>7, <1>8 DEF CallInv

LEMMA InitInv == Init => ServerInv
<1> SUFFICES ASSUME Init PROVE ServerInv
  OBVIOUS
<1>1. TypeOK
  BY NoneType, FreeType DEF Init, TypeOK
<1>2. RecordIsAhead
  BY <1>1, BelowItself DEF Init, RecordIsAhead, HeardIsRecorded, Below, TypeOK
<1>3. ASSUME NEW c \in Call PROVE CallInv(c)
  <2>1. call[c] = Free
    BY DEF Init
  <2>2. Exclusive(c) /\ InItsPlace(c) /\ AnswerIsCurrent(c) /\ StatusIsComplete(c)
    BY <2>1 DEF Exclusive, InItsPlace, AnswerIsCurrent, StatusIsComplete, Free, Holding
  <2>3. SeesTheRecord(c)
    BY <1>1, <2>1, BelowItself DEF SeesTheRecord, Free, TypeOK
  <2> QED
    BY <2>2, <2>3 DEF CallInv
<1> QED
  BY <1>1, <1>2, <1>3 DEF ServerInv

-----------------------------------------------------------------------------
(* The steps, in groups.                                                     *)

\* What a step that leaves the record and the events alone leaves of the invariant.
Still == UNCHANGED <<recordVars, eventVars, heard>>

LEMMA StillAhead ==
    ASSUME ServerInv, Still
    PROVE  RecordIsAhead' /\ Below(gens, gens')
<1>1. gens \in Generations /\ RecordIsAhead /\ gens' = gens
  BY DEF ServerInv, TypeOK, Still, recordVars
<1>2. Below(gens, gens')
  BY <1>1, BelowItself
<1> QED
  BY <1>1, <1>2 DEF Still, recordVars, eventVars, RecordIsAhead, HeardIsRecorded, Below

\* A call moves on without an answer.
LEMMA Moves ==
    ASSUME ServerInv, Still, TypeOK', NEW c \in Call, NEW p \in Phase, GoTo(c, p),
           \A d \in Call \ {c} : call[d].at \in Holding => mutateMu' = mutateMu,
           call[c].at # "free",
           p \notin {"free", "answered", "committed"},
           p \in Holding => mutateMu' = c,
           p = "working" => ~Stale(call[c].req),
           p \in Holding \cup {"waiting"} => call[c].req.op # "status",
           p \in {"reading", "listing"} => call[c].req.op = "status"
    PROVE  ServerInv'
<1>1. /\ call' \in [Call -> CallState]
      /\ \A d \in Call \ {c} : call'[d] = call[d]
      /\ call'[c].at = p /\ SameRequest(call[c], call'[c])
  BY WentTo DEF ServerInv
<1>2. RecordIsAhead' /\ Below(gens, gens')
  BY StillAhead
<1>3. ASSUME NEW d \in Call \ {c} PROVE CallInv(d)'
  BY <1>1, <1>2, Bystander DEF Still
<1>4. CallInv(c)'
  <2>1. /\ call[c] \in CallState /\ CallInv(c)
        /\ call'[c].req = call[c].req
        /\ call'[c].floor = call[c].floor /\ call'[c].events = call[c].events
        /\ gens' = gens /\ snap' = snap
    BY <1>1 DEF ServerInv, TypeOK, SameRequest, Still, recordVars
  <2>2. Exclusive(c)'
    BY <1>1, <2>1 DEF Exclusive, Stale, Superseded, Listed
  <2>3. InItsPlace(c)'
    BY <1>1, <2>1 DEF CallInv, InItsPlace
  <2>4. SeesTheRecord(c)'
    BY <1>1, <2>1 DEF CallInv, SeesTheRecord, Below
  <2>5. AnswerIsCurrent(c)' /\ StatusIsComplete(c)'
    BY <1>1, <2>1 DEF AnswerIsCurrent, StatusIsComplete
  <2> QED
    BY <2>2, <2>3, <2>4, <2>5 DEF CallInv
<1> QED
  BY <1>2, <1>3, <1>4 DEF ServerInv

\* A call is answered: what the answer has to satisfy.
LEMMA Answers ==
    ASSUME ServerInv, TypeOK', NEW c \in Call, NEW status \in Code, NEW g \in Generations,
           Answer(c, status, g), call[c].at # "free",
           UNCHANGED <<recordVars, heard>>, Below(lastApply', gens), Below(lastSync', gens),
           \A d \in Call \ {c} : call[d].at \in Holding => mutateMu' = mutateMu,
           Below(g, gens),
           \A f \in Fqdn : g[f] # 0 => call[c].floor[f] <= g[f],
           call[c].req.op = "apply" =>
               \A f \in Listed(call[c].req) :
                   /\ status = 200 => call[c].floor[f] < g[f]
                   /\ status = 409 => call[c].req.lists[f] <= g[f],
           status = 200 /\ call[c].req.op = "status" => g = gens
    PROVE  ServerInv'
<1>1. /\ call' \in [Call -> CallState]
      /\ \A d \in Call \ {c} : call'[d] = call[d]
      /\ call'[c].at = "answered" /\ call'[c].code = status /\ call'[c].tells = g
      /\ SameRequest(call[c], call'[c])
  BY Answered DEF ServerInv
<1>2. gens \in Generations /\ gens' = gens /\ snap' = snap /\ heard' = heard
  BY DEF ServerInv, TypeOK, recordVars
<1>3. RecordIsAhead' /\ Below(gens, gens')
  BY <1>2, BelowItself DEF ServerInv, RecordIsAhead, HeardIsRecorded, Below
<1>4. ASSUME NEW d \in Call \ {c} PROVE CallInv(d)'
  BY <1>1, <1>3, Bystander
<1>5. CallInv(c)'
  <2>1. /\ call[c] \in CallState /\ CallInv(c)
        /\ call'[c].req = call[c].req
        /\ call'[c].floor = call[c].floor /\ call'[c].events = call[c].events
    BY <1>1 DEF ServerInv, TypeOK, SameRequest
  <2>2. Exclusive(c)' /\ InItsPlace(c)'
    BY <1>1, <2>1 DEF CallInv, Exclusive, InItsPlace, Holding
  <2>3. SeesTheRecord(c)'
    BY <1>1, <2>1, <1>2 DEF CallInv, SeesTheRecord, Below
  <2>4. AnswerIsCurrent(c)'
    BY <1>1, <2>1, <1>2 DEF AnswerIsCurrent, Below, Listed
  <2>5. StatusIsComplete(c)'
    BY <1>1, <2>1, <1>2 DEF CallInv, SeesTheRecord, StatusIsComplete, Below
  <2> QED
    BY <2>2, <2>3, <2>4, <2>5 DEF CallInv
<1> QED
  BY <1>3, <1>4, <1>5 DEF ServerInv

-----------------------------------------------------------------------------
(* The steps, one by one.                                                    *)

\* The other calls are not under the mutex when this one is.
LEMMA Alone ==
    ASSUME ServerInv, NEW c \in Call, NEW d \in Call \ {c},
           call[c].at \in Holding \/ LockIsFree
    PROVE  call[d].at \notin Holding
BY ServerAssumption DEF ServerInv, CallInv, Exclusive, LockIsFree

LEMMA StepArrive ==
    ASSUME ServerInv, NEW c \in Call, NEW r \in Requests, Arrive(c, r)
    PROVE  ServerInv'
<1> DEFINE new == [Free EXCEPT !.at = "arrived", !.req = r, !.floor = heard]
<1>1. TypeOK /\ heard \in Generations /\ gens \in Generations /\ r \in Request
  BY ServerAssumption DEF ServerInv, TypeOK
<1>2. new \in CallState
  BY <1>1, FreeType DEF CallState, Phase
<1>3. /\ new.at = "arrived" /\ new.req = r /\ new.floor = heard
      /\ new.events = [apply |-> None, sync |-> None]
  BY DEF Free
<1>4. call' = [call EXCEPT ![c] = new] /\ Still /\ UNCHANGED <<up, mutateMu>>
  BY DEF Arrive, Still
<1> HIDE DEF new
<1>5. /\ call' \in [Call -> CallState] /\ call'[c] = new
      /\ \A d \in Call \ {c} : call'[d] = call[d]
  BY <1>1, <1>2, <1>4 DEF TypeOK
<1>6. TypeOK'
  BY <1>1, <1>4, <1>5 DEF TypeOK, Still, recordVars, eventVars
<1>7. RecordIsAhead' /\ Below(gens, gens')
  BY <1>4, StillAhead
<1>8. ASSUME NEW d \in Call \ {c} PROVE CallInv(d)'
  BY <1>4, <1>5, <1>6, <1>7, Bystander DEF Still
<1>9. CallInv(c)'
  <2>1. Below(heard, gens) /\ Below(None, gens) /\ gens' = gens
    BY <1>1, <1>4, BelowItself DEF ServerInv, RecordIsAhead, HeardIsRecorded, Below, Still,
                                   recordVars
  <2>2. Exclusive(c)' /\ InItsPlace(c)' /\ AnswerIsCurrent(c)' /\ StatusIsComplete(c)'
    BY <1>3, <1>5 DEF Exclusive, InItsPlace, AnswerIsCurrent, StatusIsComplete, Holding
  <2>3. SeesTheRecord(c)'
    BY <2>1, <1>3, <1>5 DEF SeesTheRecord
  <2> QED
    BY <2>2, <2>3 DEF CallInv
<1> QED
  BY <1>6, <1>7, <1>8, <1>9 DEF ServerInv

LEMMA VerdictType ==
    ASSUME NEW r \in Request
    PROVE  Verdict(r) \in Code \ {0, 409}
BY DEF Verdict, Request, Code

\* Answers that tell nothing: turned down, or failed.
LEMMA TellsNothing ==
    ASSUME ServerInv, NEW c \in Call, NEW status \in Code \ {200, 409},
           call[c].at # "free", Answer(c, status, None),
           UNCHANGED <<up, recordVars, heard>>,
           lastApply' \in {lastApply, None}, lastSync' \in {lastSync, None},
           \/ mutateMu' = mutateMu
           \/ mutateMu' = NoCall /\ call[c].at \in Holding
    PROVE  ServerInv'
<1>1. TypeOK /\ None \in Generations /\ status \in Code
  BY NoneType DEF ServerInv
<1>2. call' \in [Call -> CallState]
  BY <1>1, Answered
<1>3. TypeOK'
  BY <1>1, <1>2 DEF TypeOK, recordVars
<1>4. Below(None, gens) /\ Below(lastApply', gens) /\ Below(lastSync', gens)
  BY <1>1, BelowItself DEF ServerInv, RecordIsAhead, TypeOK
<1>5. \A d \in Call \ {c} : call[d].at \in Holding => mutateMu' = mutateMu
  BY Alone
<1>6. \A f \in Fqdn : None[f] = 0
  BY DEF None
<1> QED
  BY <1>1, <1>3, <1>4, <1>5, <1>6, Answers

LEMMA StepDecide ==
    ASSUME ServerInv, NEW c \in Call, Refuse(c) \/ RateLimit(c) \/ Admit(c)
    PROVE  ServerInv'
<1>1. TypeOK /\ call[c] \in CallState /\ call[c].req \in Request /\ call[c].at # "free"
  BY DEF ServerInv, TypeOK, CallState, Refuse, RateLimit, Admit
<1>2. CASE Refuse(c)
  <2>1. Verdict(call[c].req) \in Code \ {200, 409}
    BY <1>1, <1>2, VerdictType DEF Refuse
  <2> QED
    BY <1>1, <1>2, <2>1, TellsNothing DEF Refuse, eventVars
<1>3. CASE RateLimit(c)
  <2>1. 429 \in Code \ {200, 409}
    BY DEF Code
  <2> QED
    BY <1>1, <1>3, <2>1, TellsNothing DEF RateLimit, eventVars
<1>4. CASE Admit(c)
  <2> DEFINE p == IF call[c].req.op = "status" THEN "reading" ELSE "waiting"
  <2>1. GoTo(c, p) /\ Still /\ UNCHANGED <<up, mutateMu>>
    BY <1>4 DEF Admit, Still
  <2>2. p \in Phase /\ p \notin {"free", "answered", "committed", "working"} /\ p \notin Holding
    BY DEF Phase, Holding
  <2>3. /\ p = "waiting" => call[c].req.op # "status"
        /\ p \in {"reading", "listing"} => call[c].req.op = "status"
    OBVIOUS
  <2> HIDE DEF p
  <2>4. call' \in [Call -> CallState]
    BY <1>1, <2>1, <2>2, WentTo
  <2>5. TypeOK'
    BY <1>1, <2>1, <2>4 DEF TypeOK, Still, recordVars, eventVars
  <2> QED
    BY <1>1, <2>1, <2>2, <2>3, <2>5, Moves
<1> QED
  BY <1>2, <1>3, <1>4

LEMMA StepTakeLock ==
    ASSUME ServerInv, NEW c \in Call, TakeLock(c)
    PROVE  ServerInv'
<1>1. TypeOK /\ GoTo(c, "checking") /\ Still /\ mutateMu' = c /\ call[c].at = "waiting" /\ up' = up
  BY DEF ServerInv, TakeLock, Still
<1>2. "checking" \in Phase /\ "checking" \in Holding
  BY DEF Phase, Holding
<1>3. call' \in [Call -> CallState]
  BY <1>1, <1>2, WentTo
<1>4. TypeOK'
  BY <1>1, <1>3 DEF TypeOK, Still, recordVars, eventVars
<1>5. \A d \in Call \ {c} : call[d].at \notin Holding
  BY Alone DEF TakeLock
<1>6. call[c].req.op # "status"
  BY <1>1 DEF ServerInv, CallInv, InItsPlace
<1> QED
  BY <1>1, <1>2, <1>4, <1>5, <1>6, Moves

LEMMA StepBegin ==
    ASSUME ServerInv, NEW c \in Call, Begin(c)
    PROVE  ServerInv'
<1>1. TypeOK /\ GoTo(c, "working") /\ Still /\ call[c].at = "checking" /\ UNCHANGED <<up, mutateMu>>
  BY DEF ServerInv, Begin, Still
<1>2. "working" \in Phase /\ "working" \in Holding /\ "checking" \in Holding
  BY DEF Phase, Holding
<1>3. call' \in [Call -> CallState]
  BY <1>1, <1>2, WentTo
<1>4. TypeOK'
  BY <1>1, <1>3 DEF TypeOK, Still, recordVars, eventVars
<1>5. mutateMu = c /\ call[c].req.op # "status"
  BY <1>1, <1>2 DEF ServerInv, CallInv, Exclusive, InItsPlace
<1> QED
  BY <1>1, <1>2, <1>4, <1>5, Moves DEF Begin

LEMMA StepFailing ==
    ASSUME ServerInv, NEW c \in Call, Reject(c) \/ Fail(c)
    PROVE  ServerInv'
<1>1. /\ Answer(c, 422, None) /\ mutateMu' = NoCall /\ UNCHANGED <<up, recordVars, heard>>
      /\ call[c].at \in Holding /\ call[c].at # "free"
  BY DEF Reject, Fail, Unlock, Holding
<1>2. lastApply' \in {lastApply, None} /\ lastSync' \in {lastSync, None}
  BY DEF Reject, Fail, RecordEvent, eventVars
<1>3. 422 \in Code \ {200, 409}
  BY DEF Code
<1> QED
  BY <1>1, <1>2, <1>3, TellsNothing

LEMMA StepRejectStale ==
    ASSUME ServerInv, NEW c \in Call, RejectStale(c)
    PROVE  ServerInv'
<1> DEFINE r == call[c].req
           g == IF r.op = "sync" THEN None ELSE Recorded(r)
<1>1. /\ TypeOK /\ gens \in Generations /\ call[c] \in CallState /\ r \in Requests
      /\ r \in Request /\ r.op # "status" /\ CallInv(c) /\ Stale(r)
      /\ call[c].at = "checking" /\ call[c].at \in Holding
  BY DEF ServerInv, TypeOK, CallState, RejectStale, CallInv, InItsPlace, Holding
<1>2. g \in Generations /\ Below(g, gens) /\ 409 \in Code
  BY <1>1, NoneType, BelowItself, RecordedType DEF Code
<1>3. /\ Answer(c, 409, g) /\ mutateMu' = NoCall
      /\ UNCHANGED <<up, recordVars, eventVars, heard>>
  BY DEF RejectStale, Unlock
<1>4. call' \in [Call -> CallState]
  BY <1>1, <1>2, <1>3, Answered
<1>5. TypeOK'
  BY <1>1, <1>3, <1>4 DEF TypeOK, recordVars, eventVars
<1>6. Below(lastApply', gens) /\ Below(lastSync', gens)
  BY <1>3 DEF ServerInv, RecordIsAhead, eventVars
<1>7. \A f \in Fqdn : g[f] # 0 => call[c].floor[f] <= g[f]
  BY <1>1 DEF CallInv, SeesTheRecord, Below, Recorded, None
<1>8. r.op = "apply" => \A f \in Listed(r) : r.lists[f] <= g[f]
  <2> SUFFICES ASSUME r.op = "apply", NEW f \in Listed(r) PROVE r.lists[f] <= g[f]
    OBVIOUS
  <2>1. PICK h \in Listed(r) : r.lists[h] <= gens[h]
    BY <1>1 DEF Stale, Superseded
  <2>2. h = f
    BY <1>1, ServerAssumption DEF Listed
  <2>3. g[f] = gens[f]
    BY <1>1, RecordedType
  <2> QED
    BY <2>1, <2>2, <2>3
<1>9. \A d \in Call \ {c} : call[d].at \notin Holding
  BY <1>1, Alone
<1> HIDE DEF g
<1> QED
  BY <1>1, <1>2, <1>3, <1>5, <1>6, <1>7, <1>8, <1>9, Answers

LEMMA StepSucceed ==
    ASSUME ServerInv, NEW c \in Call, Succeed(c)
    PROVE  ServerInv'
<1> DEFINE r == call[c].req
           g == Recorded(r)
<1>1. /\ TypeOK /\ gens \in Generations /\ call[c] \in CallState /\ r.op # "status"
      /\ CallInv(c) /\ call[c].at = "committed" /\ call[c].at \in Holding
  BY DEF ServerInv, TypeOK, CallState, Succeed, CallInv, InItsPlace, Holding
<1>2. g \in Generations /\ Below(g, gens) /\ 200 \in Code
  BY <1>1, RecordedType DEF Code
<1>3. /\ Answer(c, 200, g) /\ mutateMu' = NoCall
      /\ UNCHANGED <<up, recordVars, heard>>
  BY DEF Succeed, Unlock
<1>4. lastApply' \in {lastApply, g} /\ lastSync' \in {lastSync, g}
  BY DEF Succeed, RecordEvent
<1>5. call' \in [Call -> CallState]
  BY <1>1, <1>2, <1>3, Answered
<1>6. TypeOK'
  BY <1>1, <1>2, <1>3, <1>4, <1>5 DEF TypeOK, recordVars
<1>7. Below(lastApply', gens) /\ Below(lastSync', gens)
  BY <1>2, <1>4 DEF ServerInv, RecordIsAhead
<1>8. \A f \in Fqdn : g[f] # 0 => call[c].floor[f] <= g[f]
  BY <1>1 DEF CallInv, SeesTheRecord, Below, Recorded
<1>9. r.op = "apply" => \A f \in Listed(r) : call[c].floor[f] < g[f]
  BY <1>1, RecordedType DEF CallInv, SeesTheRecord
<1>10. \A d \in Call \ {c} : call[d].at \notin Holding
  BY <1>1, Alone
<1> HIDE DEF g
<1> QED
  BY <1>1, <1>2, <1>3, <1>6, <1>7, <1>8, <1>9, <1>10, Answers

LEMMA StepReadRoutes ==
    ASSUME ServerInv, NEW c \in Call, ReadRoutes(c)
    PROVE  ServerInv'
<1>1. /\ TypeOK /\ gens \in Generations /\ call[c].req.op = "status" /\ CallInv(c)
      /\ call[c].at = "listing"
  BY DEF ServerInv, TypeOK, ReadRoutes, CallInv, InItsPlace
<1>2. Below(gens, gens) /\ 200 \in Code
  BY <1>1, BelowItself DEF Code
<1>3. Answer(c, 200, gens) /\ UNCHANGED <<up, recordVars, eventVars, mutateMu, heard>>
  BY DEF ReadRoutes
<1>4. call' \in [Call -> CallState]
  BY <1>1, <1>2, <1>3, Answered
<1>5. TypeOK'
  BY <1>1, <1>3, <1>4 DEF TypeOK, recordVars, eventVars
<1>6. Below(lastApply', gens) /\ Below(lastSync', gens)
  BY <1>3 DEF ServerInv, RecordIsAhead, eventVars
<1>7. \A f \in Fqdn : gens[f] # 0 => call[c].floor[f] <= gens[f]
  BY <1>1 DEF CallInv, SeesTheRecord, Below
<1> QED
  BY <1>1, <1>2, <1>3, <1>5, <1>6, <1>7, Answers

\* The generations after a commit: never less, and as listed by an apply.
LEMMA Committed ==
    ASSUME ServerInv, NEW c \in Call, Commit(c)
    PROVE  /\ gens' \in Generations /\ Below(gens, gens')
           /\ snap' \in Generation \cup {0} /\ snap' >= snap
           /\ call[c].req.op = "apply" =>
                \A f \in Listed(call[c].req) : gens[f] < gens'[f]
<1> DEFINE r == call[c].req
<1>1. /\ gens \in Generations /\ snap \in Generation \cup {0} /\ r \in Request
      /\ r.lists \in Generations /\ r.snap \in Generation \cup {0} /\ ~Stale(r)
  BY DEF ServerInv, TypeOK, CallState, Request, CallInv, Exclusive, Commit
<1>2. \A f \in Fqdn : r.lists[f] \in Nat /\ gens[f] \in Nat
  BY <1>1, GenerationsAreNat
<1>3. snap \in Nat /\ r.snap \in Nat
  BY <1>1, GenerationIsNat
<1>4. CASE r.op = "apply"
  <2>1. gens' = Replaced(r) /\ snap' = snap
    BY <1>4 DEF Commit
  <2>2. \A f \in Listed(r) : gens[f] < r.lists[f]
    BY <1>1, <1>2, <1>4 DEF Stale, Superseded, Listed
  <2>3. Replaced(r) \in Generations
    BY <1>1 DEF Replaced, Generations
  <2>4. \A f \in Fqdn : gens[f] <= Replaced(r)[f]
    BY <1>2, <2>2 DEF Replaced
  <2>5. \A f \in Listed(r) : Replaced(r)[f] = r.lists[f]
    BY DEF Replaced, Listed
  <2> QED
    BY <1>1, <1>3, <2>1, <2>2, <2>3, <2>4, <2>5 DEF Below
<1>5. CASE r.op = "sync"
  <2>1. gens' = Merged(r) /\ snap' = r.snap
    BY <1>5 DEF Commit
  <2>2. Merged(r) \in Generations
    BY <1>1 DEF Merged, Generations
  <2>3. \A f \in Fqdn : gens[f] <= Merged(r)[f]
    BY <1>2 DEF Merged
  <2>4. snap = 0 \/ snap < r.snap
    BY <1>1, <1>3, <1>5 DEF Stale
  <2> QED
    BY <1>1, <1>3, <1>5, <2>1, <2>2, <2>3, <2>4 DEF Below
<1> QED
  BY <1>4, <1>5 DEF Commit

LEMMA StepCommit ==
    ASSUME ServerInv, NEW c \in Call, Commit(c)
    PROVE  ServerInv'
<1>1. /\ TypeOK /\ gens \in Generations /\ call[c] \in CallState /\ CallInv(c)
      /\ call[c].at = "working" /\ call[c].at \in Holding /\ GoTo(c, "committed")
      /\ UNCHANGED <<up, eventVars, mutateMu, heard>>
  BY DEF ServerInv, TypeOK, Commit, Holding
<1>2. /\ gens' \in Generations /\ Below(gens, gens') /\ snap' \in Generation \cup {0}
      /\ call[c].req.op = "apply" => \A f \in Listed(call[c].req) : gens[f] < gens'[f]
  BY Committed
<1>3. "committed" \in Phase /\ "committed" \in Holding
  BY DEF Phase, Holding
<1>4. /\ call' \in [Call -> CallState]
      /\ \A d \in Call \ {c} : call'[d] = call[d]
      /\ call'[c].at = "committed" /\ SameRequest(call[c], call'[c])
  BY <1>1, <1>3, WentTo
<1>5. TypeOK'
  BY <1>1, <1>2, <1>4 DEF TypeOK, eventVars
<1>6. \A g \in Generations : Below(g, gens) => Below(g, gens')
  BY <1>1, <1>2, GenerationsAreNat DEF Below
<1>7. RecordIsAhead'
  <2>1. Below(heard, gens')
    BY <1>1, <1>6 DEF ServerInv, TypeOK, RecordIsAhead, HeardIsRecorded, Below
  <2>2. Below(lastApply, gens') /\ Below(lastSync, gens')
    BY <1>1, <1>6 DEF ServerInv, TypeOK, RecordIsAhead
  <2> QED
    BY <1>1, <2>1, <2>2 DEF RecordIsAhead, HeardIsRecorded, Below, eventVars
<1>8. ASSUME NEW d \in Call \ {c} PROVE CallInv(d)'
  BY <1>1, <1>2, <1>4, <1>5, Alone, Bystander
<1>9. CallInv(c)'
  <2>1. /\ call'[c].req = call[c].req
        /\ call'[c].floor = call[c].floor /\ call'[c].events = call[c].events
    BY <1>4 DEF SameRequest
  <2>2. Exclusive(c)' /\ InItsPlace(c)'
    BY <1>1, <1>3, <1>4, <2>1 DEF CallInv, Exclusive, InItsPlace
  <2>3. Below(call[c].floor, gens') /\ Below(call[c].events.apply, gens')
        /\ Below(call[c].events.sync, gens')
    BY <1>1, <1>6 DEF CallInv, SeesTheRecord, CallState
  <2>4. call[c].req.op = "apply" =>
          \A f \in Listed(call[c].req) : call[c].floor[f] < gens'[f]
    <3> SUFFICES ASSUME call[c].req.op = "apply", NEW f \in Listed(call[c].req)
                 PROVE  call[c].floor[f] < gens'[f]
      OBVIOUS
    <3>1. f \in Fqdn /\ call[c].floor \in Generations
      BY <1>1 DEF Listed, CallState
    <3>2. call[c].floor[f] \in Nat /\ gens[f] \in Nat /\ gens'[f] \in Nat
      BY <1>1, <1>2, <3>1, GenerationsAreNat
    <3>3. call[c].floor[f] <= gens[f] /\ gens[f] < gens'[f]
      BY <1>1, <1>2, <3>1 DEF CallInv, SeesTheRecord, Below
    <3> QED
      BY <3>2, <3>3
  <2>5. SeesTheRecord(c)'
    BY <2>1, <2>3, <2>4 DEF SeesTheRecord, Listed
  <2>6. AnswerIsCurrent(c)' /\ StatusIsComplete(c)'
    BY <1>4 DEF AnswerIsCurrent, StatusIsComplete
  <2> QED
    BY <2>2, <2>5, <2>6 DEF CallInv
<1> QED
  BY <1>5, <1>7, <1>8, <1>9 DEF ServerInv

LEMMA StepReadEvents ==
    ASSUME ServerInv, NEW c \in Call, ReadEvents(c)
    PROVE  ServerInv'
<1> DEFINE new == [call[c] EXCEPT !.at = "listing",
                                  !.events = [apply |-> lastApply, sync |-> lastSync]]
<1>1. /\ TypeOK /\ gens \in Generations /\ call[c] \in CallState /\ CallInv(c)
      /\ lastApply \in Generations /\ lastSync \in Generations /\ call[c].at = "reading"
      /\ Below(lastApply, gens) /\ Below(lastSync, gens)
  BY DEF ServerInv, TypeOK, ReadEvents, RecordIsAhead
<1>2. new \in CallState
  BY <1>1 DEF CallState, Phase
<1>3. /\ new.at = "listing" /\ new.req = call[c].req /\ new.floor = call[c].floor
      /\ new.events.apply = lastApply /\ new.events.sync = lastSync
  BY <1>1 DEF CallState
<1>4. call' = [call EXCEPT ![c] = new] /\ Still /\ UNCHANGED <<up, mutateMu>>
  BY DEF ReadEvents, Still
<1> HIDE DEF new
<1>5. /\ call' \in [Call -> CallState] /\ call'[c] = new
      /\ \A d \in Call \ {c} : call'[d] = call[d]
  BY <1>1, <1>2, <1>4 DEF TypeOK
<1>6. TypeOK'
  BY <1>1, <1>4, <1>5 DEF TypeOK, Still, recordVars, eventVars
<1>7. RecordIsAhead' /\ Below(gens, gens') /\ gens' = gens
  BY <1>4, StillAhead DEF Still, recordVars
<1>8. ASSUME NEW d \in Call \ {c} PROVE CallInv(d)'
  BY <1>4, <1>5, <1>6, <1>7, Bystander DEF Still
<1>9. CallInv(c)'
  <2>1. Exclusive(c)' /\ InItsPlace(c)' /\ AnswerIsCurrent(c)' /\ StatusIsComplete(c)'
    BY <1>1, <1>3, <1>5 DEF CallInv, Exclusive, InItsPlace, AnswerIsCurrent,
                            StatusIsComplete, Holding
  <2>2. SeesTheRecord(c)'
    BY <1>1, <1>3, <1>5, <1>7 DEF CallInv, SeesTheRecord
  <2> QED
    BY <2>1, <2>2 DEF CallInv
<1> QED
  BY <1>6, <1>7, <1>8, <1>9 DEF ServerInv

LEMMA StepHangup ==
    ASSUME ServerInv, NEW c \in Call, Hangup(c)
    PROVE  ServerInv'
<1> DEFINE new == [call[c] EXCEPT !.cancelled = TRUE]
<1>1. TypeOK /\ call[c] \in CallState /\ CallInv(c)
  BY DEF ServerInv, TypeOK
<1>2. new \in CallState
  BY <1>1 DEF CallState
<1>3. /\ new.at = call[c].at /\ new.req = call[c].req /\ new.floor = call[c].floor
      /\ new.events = call[c].events /\ new.code = call[c].code /\ new.tells = call[c].tells
  BY <1>1 DEF CallState
<1>4. call' = [call EXCEPT ![c] = new] /\ Still /\ UNCHANGED <<up, mutateMu>>
  BY DEF Hangup, Still
<1> HIDE DEF new
<1>5. /\ call' \in [Call -> CallState] /\ call'[c] = new
      /\ \A d \in Call \ {c} : call'[d] = call[d]
  BY <1>1, <1>2, <1>4 DEF TypeOK
<1>6. TypeOK'
  BY <1>1, <1>4, <1>5 DEF TypeOK, Still, recordVars, eventVars
<1>7. RecordIsAhead' /\ Below(gens, gens') /\ gens' = gens /\ snap' = snap
  BY <1>4, StillAhead DEF Still, recordVars
<1>8. ASSUME NEW d \in Call \ {c} PROVE CallInv(d)'
  BY <1>4, <1>5, <1>6, <1>7, Bystander DEF Still
<1>9. CallInv(c)'
  <2>1. Exclusive(c)' /\ InItsPlace(c)'
    BY <1>1, <1>3, <1>4, <1>5, <1>7 DEF CallInv, Exclusive, InItsPlace, Stale, Superseded, Listed
  <2>2. SeesTheRecord(c)'
    BY <1>1, <1>3, <1>5, <1>7 DEF CallInv, SeesTheRecord, Listed
  <2>3. AnswerIsCurrent(c)' /\ StatusIsComplete(c)'
    BY <1>1, <1>3, <1>5, <1>7 DEF CallInv, AnswerIsCurrent, StatusIsComplete, Listed
  <2> QED
    BY <2>1, <2>2, <2>3 DEF CallInv
<1> QED
  BY <1>6, <1>7, <1>8, <1>9 DEF ServerInv

\* A call that is over has nothing to keep.
LEMMA FreeInv ==
    ASSUME NEW c \in Call, call'[c] = Free, gens' \in Generations
    PROVE  CallInv(c)'
<1>1. Exclusive(c)' /\ InItsPlace(c)' /\ AnswerIsCurrent(c)' /\ StatusIsComplete(c)'
  BY DEF Exclusive, InItsPlace, AnswerIsCurrent, StatusIsComplete, Free, Holding
<1>2. Below(None, gens')
  BY BelowItself
<1>3. SeesTheRecord(c)'
  BY <1>2 DEF SeesTheRecord, Free
<1> QED
  BY <1>1, <1>3 DEF CallInv

LEMMA StepEnd ==
    ASSUME ServerInv, NEW c \in Call, Deliver(c) \/ Lose(c)
    PROVE  ServerInv'
<1>1. /\ TypeOK /\ gens \in Generations /\ heard \in Generations
      /\ call[c].tells \in Generations /\ call[c].at = "answered" /\ CallInv(c)
      /\ call' = [call EXCEPT ![c] = Free]
      /\ UNCHANGED <<up, recordVars, eventVars, mutateMu>>
  BY DEF ServerInv, TypeOK, CallState, Deliver, Lose
<1>2. heard' \in Generations /\ \A f \in Fqdn : heard'[f] <= gens[f]
  <2>1. CASE UNCHANGED heard
    BY <1>1, <2>1 DEF ServerInv, RecordIsAhead, HeardIsRecorded
  <2>2. CASE Deliver(c)
    BY <1>1, <2>2 DEF Deliver, Generations, ServerInv, RecordIsAhead, HeardIsRecorded,
                      CallInv, AnswerIsCurrent
  <2> QED
    BY <2>1, <2>2 DEF Lose
<1>3. call' \in [Call -> CallState] /\ call'[c] = Free
      /\ \A d \in Call \ {c} : call'[d] = call[d]
  BY <1>1, FreeType DEF TypeOK
<1>4. TypeOK'
  BY <1>1, <1>2, <1>3 DEF TypeOK, recordVars, eventVars
<1>5. gens' = gens /\ Below(gens, gens') /\ RecordIsAhead'
  BY <1>1, <1>2, BelowItself DEF ServerInv, RecordIsAhead, HeardIsRecorded, Below,
                                 recordVars, eventVars
<1>6. ASSUME NEW d \in Call \ {c} PROVE CallInv(d)'
  BY <1>1, <1>3, <1>4, <1>5, Bystander
<1>7. CallInv(c)'
  BY <1>1, <1>3, <1>5, FreeInv
<1> QED
  BY <1>4, <1>5, <1>6, <1>7 DEF ServerInv

LEMMA StepProcess ==
    ASSUME ServerInv, Terminate \/ ShutdownReturns \/ Crash \/ Restart
    PROVE  ServerInv'
<1>1. TypeOK /\ gens \in Generations
  BY DEF ServerInv, TypeOK
<1>2. CASE Terminate \/ Restart
  <2>1. Still /\ UNCHANGED <<mutateMu, call>> /\ up' \in {"serving", "draining"}
    BY <1>2 DEF Terminate, Restart, Still
  <2>2. TypeOK'
    BY <1>1, <2>1 DEF TypeOK, Still, recordVars, eventVars
  <2>3. RecordIsAhead' /\ Below(gens, gens')
    BY <2>1, StillAhead
  <2>4. \A d \in Call : CallInv(d)'
    BY <2>1, <2>2, <2>3, Bystander DEF Still
  <2> QED
    BY <2>2, <2>3, <2>4 DEF ServerInv
<1>3. CASE Gone
  <2>1. TypeOK' /\ gens' = gens
    BY <1>1, <1>3, FreeType, NoneType DEF TypeOK, Gone, recordVars
  <2>2. RecordIsAhead'
    BY <1>1, <1>3, BelowItself DEF ServerInv, RecordIsAhead, HeardIsRecorded, Below, Gone,
                                   recordVars
  <2>3. ASSUME NEW d \in Call PROVE CallInv(d)'
    BY <1>1, <1>3, <2>1, FreeInv DEF Gone
  <2> QED
    BY <2>1, <2>2, <2>3 DEF ServerInv
<1> QED
  BY <1>2, <1>3 DEF ShutdownReturns, Crash

-----------------------------------------------------------------------------
(* The theorems.                                                             *)

LEMMA NextInv == ServerInv /\ [Next]_vars => ServerInv'
<1> SUFFICES ASSUME ServerInv, [Next]_vars PROVE ServerInv'
  OBVIOUS
<1>1. ASSUME NEW c \in Call, NEW r \in Requests, Arrive(c, r) PROVE ServerInv'
  BY <1>1, StepArrive
<1>2. ASSUME NEW c \in Call, TakeLock(c) \/ Handle(c) \/ Hangup(c) PROVE ServerInv'
  BY <1>2, StepTakeLock, StepDecide, StepRejectStale, StepFailing, StepBegin, StepCommit,
     StepSucceed, StepReadEvents, StepReadRoutes, StepEnd, StepHangup DEF Handle
<1>3. CASE UNCHANGED vars
  <2>1. TypeOK' /\ Still /\ UNCHANGED <<mutateMu, call>>
    BY <1>3 DEF ServerInv, TypeOK, vars, Still, recordVars, eventVars
  <2>2. RecordIsAhead' /\ Below(gens, gens')
    BY <2>1, StillAhead
  <2>3. \A d \in Call : CallInv(d)'
    BY <2>1, <2>2, Bystander DEF Still
  <2> QED
    BY <2>1, <2>2, <2>3 DEF ServerInv
<1> QED
  BY <1>1, <1>2, <1>3, StepProcess DEF Next

(* However many calls are in flight, the mutex has one holder, what it       *)
(* checked holds until it commits, and nobody is told more than the record.  *)
THEOREM ServerInductive == Spec => []ServerInv
<1> QED
  BY InitInv, NextInv, PTL DEF Spec

(* An answer tells of nothing that is not on record, and of nothing older    *)
(* than its caller could know when it called.                                *)
THEOREM CurrentAnswers == Spec => []AnswersAreCurrent
<1>1. ServerInv => AnswersAreCurrent
  BY DEF ServerInv, CallInv, AnswersAreCurrent
<1> QED
  BY <1>1, ServerInductive, PTL

(* What a caller was told stays on record, whatever calls, shutdowns and     *)
(* crashes come after the answer.                                            *)
THEOREM HeardRecorded == Spec => []HeardIsRecorded
<1>1. ServerInv => HeardIsRecorded
  BY DEF ServerInv, RecordIsAhead
<1> QED
  BY <1>1, ServerInductive, PTL

(* A status that shows a success in the events, which it reads first,     *)
(* shows the routes of that success too.                                     *)
THEOREM StatusComplete == Spec => []StatusKnowsItsEvents
<1>1. ServerInv => StatusKnowsItsEvents
  BY DEF ServerInv, CallInv, StatusKnowsItsEvents
<1> QED
  BY <1>1, ServerInductive, PTL

\* A step of the record, as an action.
Forward == snap' >= snap /\ \A f \in Fqdn : gens'[f] >= gens[f]

LEMMA StepForward == ServerInv /\ [Next]_vars => [Forward]_vars
<1> SUFFICES ASSUME ServerInv, Next PROVE Forward
  BY DEF vars
<1>1. gens \in Generations /\ snap \in Nat
  BY GenerationIsNat DEF ServerInv, TypeOK
<1>2. \A f \in Fqdn : gens[f] \in Nat
  BY <1>1, GenerationsAreNat
<1>3. CASE UNCHANGED recordVars
  BY <1>1, <1>2, <1>3 DEF Forward, recordVars
<1>4. ASSUME NEW c \in Call, Commit(c) PROVE Forward
  <2>1. gens' \in Generations /\ Below(gens, gens') /\ snap' >= snap
    BY <1>4, Committed
  <2>2. \A f \in Fqdn : gens'[f] \in Nat
    BY <2>1, GenerationsAreNat
  <2> QED
    BY <1>2, <2>1, <2>2 DEF Forward, Below
<1> QED
  BY <1>3, <1>4 DEF Next, Handle, Arrive, TakeLock, Hangup, Refuse, RateLimit, Admit,
     RejectStale, Reject, Begin, Fail, Succeed, ReadEvents, ReadRoutes, Deliver, Lose,
     Terminate, ShutdownReturns, Crash, Restart, Gone

(* Neither concurrent calls nor restarts take the record back.               *)
THEOREM NeverBack == Spec => RecordGoesForward
<1>1. ServerInv /\ [Next]_vars =>
        [snap' >= snap /\ \A f \in Fqdn : gens'[f] >= gens[f]]_vars
  BY StepForward DEF Forward
<1> QED
  BY <1>1, ServerInductive, PTL DEF Spec, RecordGoesForward

=============================================================================
