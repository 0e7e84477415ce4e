---------------------------- MODULE XClientFork ----------------------------
(***************************************************************************)
(* xClient.Fork (src/client/xclient_fork.go): one call fanned out to every *)
(* endpoint with a cached client.  Each goroutine runs wrapCall, copies    *)
(* its reply into the caller's reply on success, signals done <- e == nil  *)
(* and only then evicts (on an uncovered error) and appends its error to   *)
(* the shared MultiError.  Fork returns on the first true it receives,     *)
(* when all have signalled, or when its one-minute timer fires; it then    *)
(* returns nil if the MultiError is still empty.                           *)
(*                                                                         *)
(* A call's outcome is "ok" or one of its errors; removeClient is reduced  *)
(* to the record of the eviction (the cache is modelled in XClientCache).  *)
(***************************************************************************)
EXTENDS Integers, Sequences, FiniteSets

CONSTANTS
    Endpoints,  \* c.servers
    Outcomes    \* what wrapCall may return: "ok", "svcErr", "ctx", "transport"

ASSUME Outcomes \subseteq {"ok", "svcErr", "ctx", "transport"}

Timeout == "timeout"   \* the error appended when the timer fires
NoOutcome == "none"

VARIABLES
    mpc,        \* Fork's own goroutine
    clients,    \* the endpoints getCachedClientWithoutLock gave a client
    l,          \* l, the signals still awaited
    done,       \* the buffered channel done, as a queue
    gpc,        \* per endpoint: its goroutine's program counter
    outcome,    \* per endpoint: what its wrapCall returned
    errs,       \* the MultiError: the endpoints (or Timeout) appended
    evicted,    \* endpoints removeClient was called for
    ret,        \* what Fork returned
    lateReply   \* a goroutine wrote *reply after Fork had returned

vars == <<mpc, clients, l, done, gpc, outcome, errs, evicted, ret, lateReply>>

GPCs == {"idle", "call", "signal", "evict", "append", "exit"}
Rets == {"none", "nil", "err", "noServer"}

\* Mutant: an unbuffered done channel.
DoneCapacityUnbuffered(n) == 0

\* The capacity of done: make(chan bool, l), line 57.
DoneCapacity(n) == n

(* uncoverError (xclient_call.go:229-243).                                 *)
uncoverError(e) == e \notin {"svcErr", "ctx"}

\* Mutant: l counted as len(c.servers) rather than len(clients).
ForkStartServersLen ==
    /\ mpc = "start"
    /\ \E C \in SUBSET Endpoints :
         /\ clients' = C
         /\ l' = Cardinality(Endpoints)
         /\ IF C = {}
            THEN mpc' = "returned" /\ ret' = "noServer" /\ UNCHANGED gpc
            ELSE mpc' = "collect" /\ gpc' = [e \in Endpoints |->
                                               IF e \in C THEN "call" ELSE "idle"]
                 /\ UNCHANGED ret
    /\ UNCHANGED <<done, outcome, errs, evicted, lateReply>>

(* Lines 15-53: getCachedClientWithoutLock fails for some endpoints (they  *)
(* are skipped); with no client Fork returns ErrXClientNoServer.           *)
ForkStart ==
    /\ mpc = "start"
    /\ \E C \in SUBSET Endpoints :
         /\ clients' = C
         /\ l' = Cardinality(C)
         /\ IF C = {}
            THEN mpc' = "returned" /\ ret' = "noServer" /\ UNCHANGED gpc
            ELSE mpc' = "collect" /\ gpc' = [e \in Endpoints |->
                                               IF e \in C THEN "call" ELSE "idle"]
                 /\ UNCHANGED ret
    /\ UNCHANGED <<done, outcome, errs, evicted, lateReply>>

(* Lines 62-70: wrapCall, then on success the reply copied into *reply.    *)
GoCall(e) ==
    /\ gpc[e] = "call"
    /\ \E o \in Outcomes :
         /\ outcome' = [outcome EXCEPT ![e] = o]
         /\ lateReply' = (lateReply \/ (o = "ok" /\ mpc = "returned"))
    /\ gpc' = [gpc EXCEPT ![e] = "signal"]
    /\ UNCHANGED <<mpc, clients, l, done, errs, evicted, ret>>

(* Line 71: done <- e == nil; it blocks only on a full channel.            *)
GoSignal(e) ==
    /\ gpc[e] = "signal"
    /\ Len(done) < DoneCapacity(Cardinality(clients))
    /\ done' = Append(done, outcome[e] = "ok")
    /\ gpc' = [gpc EXCEPT ![e] = CASE outcome[e] = "ok"         -> "exit"
                                   [] uncoverError(outcome[e]) -> "evict"
                                   [] OTHER                    -> "append"]
    /\ UNCHANGED <<mpc, clients, l, outcome, errs, evicted, ret, lateReply>>

(* Lines 73-75: removeClient for an uncovered error.                       *)
GoEvict(e) ==
    /\ gpc[e] = "evict"
    /\ evicted' = evicted \cup {e}
    /\ gpc' = [gpc EXCEPT ![e] = "append"]
    /\ UNCHANGED <<mpc, clients, l, done, outcome, errs, ret, lateReply>>

(* Line 76: err.Append(e).                                                 *)
GoAppend(e) ==
    /\ gpc[e] = "append"
    /\ errs' = errs \cup {e}
    /\ gpc' = [gpc EXCEPT ![e] = "exit"]
    /\ UNCHANGED <<mpc, clients, l, done, outcome, evicted, ret, lateReply>>

\* Mutant: the result of a signal ignored (lines 87-89 left out).
ForkReceiveIgnoreSuccess ==
    /\ mpc = "collect"
    /\ done /= <<>>
    /\ done' = Tail(done)
    /\ l' = l - 1
    /\ mpc' = IF l - 1 = 0 THEN "check" ELSE "collect"
    /\ UNCHANGED <<clients, gpc, outcome, errs, evicted, ret, lateReply>>

(* Lines 85-92: a signal received; return nil on success, leave the loop   *)
(* when it was the last one.                                               *)
ForkReceive ==
    /\ mpc = "collect"
    /\ done /= <<>>
    /\ done' = Tail(done)
    /\ l' = l - 1
    /\ IF Head(done)
       THEN mpc' = "returned" /\ ret' = "nil"
       ELSE mpc' = (IF l - 1 = 0 THEN "check" ELSE "collect") /\ UNCHANGED ret
    /\ UNCHANGED <<clients, gpc, outcome, errs, evicted, lateReply>>

(* Lines 94-96: the one-minute timer fires.                                *)
ForkTimeout ==
    /\ mpc = "collect"
    /\ errs' = errs \cup {Timeout}
    /\ mpc' = "check"
    /\ UNCHANGED <<clients, l, done, gpc, outcome, evicted, ret, lateReply>>

(* Lines 99-105: nil when the MultiError is still empty ("[]").            *)
ForkCheck ==
    /\ mpc = "check"
    /\ mpc' = "returned"
    /\ ret' = IF errs = {} THEN "nil" ELSE "err"
    /\ UNCHANGED <<clients, l, done, gpc, outcome, errs, evicted, lateReply>>

Init ==
    /\ mpc = "start"
    /\ clients = {}
    /\ l = 0
    /\ done = <<>>
    /\ gpc = [e \in Endpoints |-> "idle"]
    /\ outcome = [e \in Endpoints |-> NoOutcome]
    /\ errs = {}
    /\ evicted = {}
    /\ ret = "none"
    /\ lateReply = FALSE

Goroutine(e) == GoCall(e) \/ GoSignal(e) \/ GoEvict(e) \/ GoAppend(e)

Terminated == mpc = "returned" /\ \A e \in Endpoints : gpc[e] \in {"idle", "exit"}

Next ==
    \/ ForkStart \/ ForkReceive \/ ForkTimeout \/ ForkCheck
    \/ \E e \in Endpoints : Goroutine(e)
    \/ (Terminated /\ UNCHANGED vars)

(* The runtime runs every goroutine; the timer fires after a minute, but  *)
(* it is not needed for any property and is left unfair.                   *)
Fairness ==
    /\ WF_vars(ForkStart) /\ WF_vars(ForkReceive) /\ WF_vars(ForkCheck)
    /\ \A e \in Endpoints : WF_vars(Goroutine(e))

Spec == Init /\ [][Next]_vars /\ Fairness

-----------------------------------------------------------------------------
TypeOK ==
    /\ mpc \in {"start", "collect", "check", "returned"}
    /\ clients \subseteq Endpoints
    /\ l \in 0..Cardinality(clients)
    /\ done \in Seq(BOOLEAN) /\ Len(done) <= Cardinality(clients)
    /\ gpc \in [Endpoints -> GPCs]
    /\ outcome \in [Endpoints -> Outcomes \cup {NoOutcome}]
    /\ errs \subseteq Endpoints \cup {Timeout}
    /\ evicted \subseteq Endpoints
    /\ ret \in Rets
    /\ lateReply \in BOOLEAN

(* Spec 4.5 (Fork): Fork succeeds only on a success: when it returns nil,  *)
(* one of its calls returned nil.                                          *)
ForkNilMeansSuccess ==
    ret = "nil" => \E e \in clients : outcome[e] = "ok"

(* Fork returns without needing its timer, and its goroutines never leak: *)
(* done is buffered for every client, so all of them finish, whenever and *)
(* however Fork itself returned.                                           *)
ForkAllFinish == <>Terminated

(* Fork reports an error only when it timed out or every call it made     *)
(* failed: a success signalled in time is never lost.                     *)
ForkErrorOnlyOnFailure ==
    (ret = "err" /\ Timeout \notin errs) => \A e \in clients : outcome[e] /= "ok"

(* A result Fork returned is its own: no goroutine writes *reply after     *)
(* Fork has returned (line 69, a data race with the caller).               *)
NoReplyWriteAfterReturn == ~lateReply
=============================================================================
