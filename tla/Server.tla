------------------------------- MODULE Server -------------------------------
(* The HTTP server of internal/server: calls in flight, each in a goroutine  *)
(* of its own, that pass the guard and the limiter, queue for mutateMu and   *)
(* are answered, while /status reads beside them, callers hang up, and the   *)
(* process drains, exits and is started again.                               *)
(*                                                                           *)
(* The request that holds mutateMu is Manager's subject. Here it either      *)
(* fails or records its generations; who is rate limited is RateLimiter's.   *)
EXTENDS Integers

CONSTANTS
    Call, NoCall,  \* calls that may be in flight at a time
    Fqdn,
    Generation,    \* generations of routes and of snapshots
    Requests       \* the requests that may arrive

\* Per name a generation; zero for one that is not listed, or not known.
Generations == [Fqdn -> Generation \cup {0}]

None == [f \in Fqdn |-> 0]

\* An apply lists one name. flaw is what the guard or the decoder objects to.
Request == [op    : {"apply", "sync", "status"},
            lists : Generations,
            snap  : Generation \cup {0},
            flaw  : {"none", "source", "token", "body", "fqdn"}]

ASSUME ServerAssumption == /\ NoCall \notin Call
                           /\ Generation \subseteq Nat \ {0}
                           /\ Requests \subseteq Request
                           /\ \A r \in Requests : r.op = "apply" =>
                                \E f \in Fqdn : \A g \in Fqdn : r.lists[g] # 0 <=> g = f

VARIABLES
    up,         \* serving, draining after SIGTERM, or down
    gens, snap, \* the record of the store
    lastApply,  \* the generations of the last events, None for a failure
    lastSync,
    mutateMu,   \* the call that holds the mutex
    call,       \* the calls in flight
    heard       \* the generations that answers have told the caller

recordVars == <<gens, snap>>
eventVars == <<lastApply, lastSync>>
vars == <<up, recordVars, eventVars, mutateMu, call, heard>>

Holding == {"checking", "working", "committed"}

Phase == {"free", "arrived", "waiting", "reading", "listing", "answered"} \cup Holding

Code == {0, 200, 400, 401, 403, 409, 422, 429}

\* What a goroutine knows, and what its caller had heard when it called.
CallState == [at        : Phase,
              req       : Request,
              cancelled : BOOLEAN,                            \* the caller hung up
              code      : Code,
              tells     : Generations,                        \* told by the answer
              events    : [apply : Generations, sync : Generations],
              floor     : Generations]                        \* heard before

NoRequest == [op |-> "status", lists |-> None, snap |-> 0, flaw |-> "none"]

Free == [at |-> "free", req |-> NoRequest, cancelled |-> FALSE, code |-> 0,
         tells |-> None, events |-> [apply |-> None, sync |-> None], floor |-> None]

TypeOK ==
    /\ up \in {"serving", "draining", "down"}
    /\ gens \in Generations /\ snap \in Generation \cup {0}
    /\ lastApply \in Generations /\ lastSync \in Generations
    /\ mutateMu \in Call \cup {NoCall}
    /\ call \in [Call -> CallState]
    /\ heard \in Generations

Init ==
    /\ up = "serving"
    /\ gens = None /\ snap = 0
    /\ lastApply = None /\ lastSync = None
    /\ mutateMu = NoCall
    /\ call = [c \in Call |-> Free]
    /\ heard = None

-----------------------------------------------------------------------------
(* Guard, decoding and limiter: nothing the calls share but the buckets.     *)

Arrive(c, r) ==
    /\ up = "serving"
    /\ call[c].at = "free"
    /\ call' = [call EXCEPT ![c] = [Free EXCEPT !.at = "arrived", !.req = r, !.floor = heard]]
    /\ UNCHANGED <<up, recordVars, eventVars, mutateMu, heard>>

GoTo(c, phase) == call' = [call EXCEPT ![c] = [@ EXCEPT !.at = phase]]

Answer(c, status, generations) ==
    call' = [call EXCEPT ![c] = [@ EXCEPT !.at = "answered", !.code = status,
                                          !.tells = generations]]

\* The source before the token, both before the body, the body before the name.
Verdict(r) == CASE r.flaw = "source" -> 403
                [] r.flaw = "token"  -> 401
                [] r.flaw = "body"   -> 400
                [] r.flaw = "fqdn"   -> 400
                [] r.flaw = "none"   -> 200

Refuse(c) ==
    /\ call[c].at = "arrived"
    /\ Verdict(call[c].req) # 200
    /\ Answer(c, Verdict(call[c].req), None)
    /\ UNCHANGED <<up, recordVars, eventVars, mutateMu, heard>>

RateLimit(c) ==
    /\ call[c].at = "arrived"
    /\ Verdict(call[c].req) = 200
    /\ Answer(c, 429, None)
    /\ UNCHANGED <<up, recordVars, eventVars, mutateMu, heard>>

Admit(c) ==
    /\ call[c].at = "arrived"
    /\ Verdict(call[c].req) = 200
    /\ GoTo(c, IF call[c].req.op = "status" THEN "reading" ELSE "waiting")
    /\ UNCHANGED <<up, recordVars, eventVars, mutateMu, heard>>

-----------------------------------------------------------------------------
(* Apply and SyncAll under mutateMu.                                         *)

\* Mutant: nobody waits for anybody.
Unlocked == TRUE

LockIsFree == mutateMu = NoCall

TakeLock(c) ==
    /\ call[c].at = "waiting"
    /\ LockIsFree
    /\ mutateMu' = c
    /\ GoTo(c, "checking")
    /\ UNCHANGED <<up, recordVars, eventVars, heard>>

\* Mutant: a return forgets the mutex.
KeepLock == UNCHANGED mutateMu

Unlock == mutateMu' = NoCall

Listed(r) == {f \in Fqdn : r.lists[f] # 0}

\* Mutant: a generation that is applied already is applied again.
OnlyOlder(r) == \E f \in Listed(r) : r.lists[f] < gens[f]

\* The guard of Apply.
Superseded(r) == \E f \in Listed(r) : r.lists[f] <= gens[f]

\* The guards of Apply and of SyncAll.
Stale(r) == \/ r.op = "apply" /\ Superseded(r)
            \/ r.op = "sync" /\ snap # 0 /\ r.snap <= snap

\* The generations on record of the names the request lists.
Recorded(r) == [f \in Fqdn |-> IF f \in Listed(r) THEN gens[f] ELSE 0]

\* The answer to an apply has the generation on record, to a sync the snapshot's.
RejectStale(c) ==
    /\ call[c].at = "checking"
    /\ Stale(call[c].req)
    /\ Answer(c, 409, IF call[c].req.op = "sync" THEN None ELSE Recorded(call[c].req))
    /\ Unlock
    /\ UNCHANGED <<up, recordVars, eventVars, heard>>

\* Validation fails, or a file cannot be read or swapped: no event.
Reject(c) ==
    /\ call[c].at = "checking"
    /\ ~Stale(call[c].req)
    /\ Answer(c, 422, None)
    /\ Unlock
    /\ UNCHANGED <<up, recordVars, eventVars, heard>>

\* Mutant: the event is written before the outcome is known.
AnnounceEarly(c) ==
    /\ call[c].at = "checking"
    /\ ~Stale(call[c].req)
    /\ GoTo(c, "working")
    /\ lastApply' = call[c].req.lists
    /\ UNCHANGED <<up, recordVars, lastSync, mutateMu, heard>>

Begin(c) ==
    /\ call[c].at = "checking"
    /\ ~Stale(call[c].req)
    /\ GoTo(c, "working")
    /\ UNCHANGED <<up, recordVars, eventVars, mutateMu, heard>>

\* recordApply and recordSync.
RecordEvent(c, generations) ==
    IF call[c].req.op = "apply"
    THEN lastApply' = generations /\ UNCHANGED lastSync
    ELSE lastSync' = generations /\ UNCHANGED lastApply

\* Test, reload or proof failed, the files are restored.
Fail(c) ==
    /\ call[c].at = "working"
    /\ Answer(c, 422, None)
    /\ RecordEvent(c, None)
    /\ Unlock
    /\ UNCHANGED <<up, recordVars, heard>>

\* What Record puts on record; as a mutant of Merged, a manifest that always wins.
Replaced(r) == [f \in Fqdn |-> IF f \in Listed(r) THEN r.lists[f] ELSE gens[f]]

\* ReplaceAll keeps a generation that is newer than the manifest's, or not listed.
Merged(r) == [f \in Fqdn |-> IF r.lists[f] > gens[f] THEN r.lists[f] ELSE gens[f]]

\* Record or ReplaceAll. Test and reload run under the context of the call, so
\* that a caller who has hung up fails them.
Commit(c) ==
    /\ call[c].at = "working"
    /\ ~call[c].cancelled
    /\ \/ /\ call[c].req.op = "apply"
          /\ gens' = Replaced(call[c].req)
          /\ UNCHANGED snap
       \/ /\ call[c].req.op = "sync"
          /\ gens' = Merged(call[c].req)
          /\ snap' = call[c].req.snap
    /\ GoTo(c, "committed")
    /\ UNCHANGED <<up, eventVars, mutateMu, heard>>

Succeed(c) ==
    /\ call[c].at = "committed"
    /\ Answer(c, 200, Recorded(call[c].req))
    /\ RecordEvent(c, Recorded(call[c].req))
    /\ Unlock
    /\ UNCHANGED <<up, recordVars, heard>>

-----------------------------------------------------------------------------
(* Status: the events under evMu, then the store under its own lock.         *)

ReadEvents(c) ==
    /\ call[c].at = "reading"
    /\ call' = [call EXCEPT ![c] = [@ EXCEPT !.at = "listing",
                                 !.events = [apply |-> lastApply, sync |-> lastSync]]]
    /\ UNCHANGED <<up, recordVars, eventVars, mutateMu, heard>>

ReadRoutes(c) ==
    /\ call[c].at = "listing"
    /\ Answer(c, 200, gens)
    /\ UNCHANGED <<up, recordVars, eventVars, mutateMu, heard>>

-----------------------------------------------------------------------------
(* The other end, and the process.                                           *)

Hangup(c) ==
    /\ call[c].at # "free"
    /\ ~call[c].cancelled
    /\ call' = [call EXCEPT ![c] = [@ EXCEPT !.cancelled = TRUE]]
    /\ UNCHANGED <<up, recordVars, eventVars, mutateMu, heard>>

Deliver(c) ==
    /\ call[c].at = "answered"
    /\ ~call[c].cancelled
    /\ heard' = [f \in Fqdn |-> IF call[c].tells[f] > heard[f] THEN call[c].tells[f]
                                ELSE heard[f]]
    /\ call' = [call EXCEPT ![c] = Free]
    /\ UNCHANGED <<up, recordVars, eventVars, mutateMu>>

\* The answer is lost with its connection.
Lose(c) ==
    /\ call[c].at = "answered"
    /\ call' = [call EXCEPT ![c] = Free]
    /\ UNCHANGED <<up, recordVars, eventVars, mutateMu, heard>>

\* SIGTERM: Shutdown closes the listener and waits for the calls in flight.
Terminate ==
    /\ up = "serving"
    /\ up' = "draining"
    /\ UNCHANGED <<recordVars, eventVars, mutateMu, call, heard>>

\* The process ends: the state file is all that stays.
Gone ==
    /\ up' = "down"
    /\ mutateMu' = NoCall
    /\ lastApply' = None /\ lastSync' = None
    /\ call' = [c \in Call |-> Free]
    /\ UNCHANGED <<recordVars, heard>>

\* All calls are answered, or the grace is over: main returns in either case.
ShutdownReturns == up = "draining" /\ Gone

Crash == up = "serving" /\ Gone

Restart ==
    /\ up = "down"
    /\ up' = "serving"
    /\ UNCHANGED <<recordVars, eventVars, mutateMu, call, heard>>

-----------------------------------------------------------------------------
\* What the goroutine of a call does next, but for the wait for the mutex.
Handle(c) == \/ Refuse(c) \/ RateLimit(c) \/ Admit(c)
             \/ RejectStale(c) \/ Reject(c) \/ Begin(c) \/ Fail(c) \/ Commit(c) \/ Succeed(c)
             \/ ReadEvents(c) \/ ReadRoutes(c)
             \/ Deliver(c) \/ Lose(c)

Next == \/ \E c \in Call : \/ \E r \in Requests : Arrive(c, r)
                           \/ TakeLock(c) \/ Handle(c) \/ Hangup(c)
        \/ Terminate \/ ShutdownReturns \/ Crash \/ Restart

Spec == Init /\ [][Next]_vars

\* Nothing but the mutex can hold a call up for ever (RequestsEnd of Manager
\* for the part under it), and Go hands a mutex to whoever waits for it long.
FairSpec ==
    Spec /\ \A c \in Call : WF_vars(Handle(c)) /\ SF_vars(TakeLock(c))

-----------------------------------------------------------------------------
(* Guard and record stay together under the mutex: whoever commits, and      *)
(* however often the agent is started again, no generation and no snapshot   *)
(* ever goes back.                                                           *)
RecordGoesForward ==
    [][snap' >= snap /\ \A f \in Fqdn : gens'[f] >= gens[f]]_vars

(* What an answer has told a caller is on record for good: neither a         *)
(* shutdown in the middle of other calls nor a crash takes it back.          *)
HeardIsRecorded == \A f \in Fqdn : heard[f] <= gens[f]

AnswerIsCurrent(c) ==
    call[c].at = "answered" =>
        \A f \in Fqdn :
            /\ call[c].tells[f] <= gens[f]
            /\ call[c].tells[f] # 0 => call[c].floor[f] <= call[c].tells[f]
            /\ call[c].req.op = "apply" /\ f \in Listed(call[c].req) =>
                 /\ call[c].code = 200 => call[c].floor[f] < call[c].tells[f]
                 /\ call[c].code = 409 => call[c].req.lists[f] <= call[c].tells[f]

(* Answers are current, as if each call had happened at one moment between   *)
(* its arrival and its answer: an apply succeeds only beyond everything its  *)
(* caller had heard before the call, a 409 shows a generation that justifies *)
(* it, and nothing that is told is behind what the caller knew.              *)
AnswersAreCurrent == \A c \in Call : AnswerIsCurrent(c)

StatusIsComplete(c) ==
    call[c].at = "answered" /\ call[c].code = 200 /\ call[c].req.op = "status" =>
        \A f \in Fqdn : /\ call[c].events.apply[f] <= call[c].tells[f]
                        /\ call[c].events.sync[f] <= call[c].tells[f]

(* A status never shows the success of a request without its routes.         *)
StatusKnowsItsEvents == \A c \in Call : StatusIsComplete(c)

(* Every call is answered or cut off with the process.                       *)
EveryCallEnds == \A c \in Call : call[c].at # "free" ~> call[c].at = "free"

-----------------------------------------------------------------------------
(* The inductive invariant: why the mutex makes answers current.             *)

Below(old, new) == \A f \in Fqdn : old[f] <= new[f]

\* Nothing a caller or an event tells is ahead of the record.
RecordIsAhead == HeardIsRecorded /\ Below(lastApply, gens) /\ Below(lastSync, gens)

\* Only the holder of the mutex is past it, and what it checked still holds.
Exclusive(c) == /\ call[c].at \in Holding => mutateMu = c
                /\ call[c].at = "working" => ~Stale(call[c].req)

\* A request waits for the mutex, a status never does.
InItsPlace(c) ==
    /\ call[c].at # "free" => call[c].req \in Requests
    /\ call[c].at \in Holding \cup {"waiting"} => call[c].req.op # "status"
    /\ call[c].at \in {"reading", "listing"} => call[c].req.op = "status"

\* What a call has seen is on record, and an apply that went through went
\* beyond what its caller had heard.
SeesTheRecord(c) ==
    /\ Below(call[c].floor, gens)
    /\ Below(call[c].events.apply, gens) /\ Below(call[c].events.sync, gens)
    /\ call[c].at = "committed" /\ call[c].req.op = "apply" =>
         \A f \in Listed(call[c].req) : call[c].floor[f] < gens[f]

CallInv(c) == /\ Exclusive(c) /\ InItsPlace(c) /\ SeesTheRecord(c)
              /\ AnswerIsCurrent(c) /\ StatusIsComplete(c)

(* The conjunction is inductive; every reachable state has it.               *)
ServerInv == TypeOK /\ RecordIsAhead /\ \A c \in Call : CallInv(c)

=============================================================================
