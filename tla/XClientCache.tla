---------------------------- MODULE XClientCache ----------------------------
(***************************************************************************)
(* The high-level client's connection cache and its Failfast / Failtry /   *)
(* Failover call loop (src/client/xclient_call.go Call,                    *)
(* src/client/xclient_cache_client.go).  Several goroutines call           *)
(* xClient.Call concurrently; they share c.cachedClient and c.mu.          *)
(*                                                                         *)
(* A low-level client is reduced to what the cache code observes of it:   *)
(* its endpoint and its closing / shutdown flags.  Client.Close is that of *)
(* client.go:275-304: on a client already closing or shut down it unlocks  *)
(* its mutex twice, a fatal runtime error, recorded in "crashed".          *)
(* The selector is abstracted to a free choice of an endpoint (it runs     *)
(* under c.mu; the selectors are modelled on their own).                   *)
(*                                                                         *)
(* Each endpoint has a circuit breaker (option.GenBreaker is set).  Its    *)
(* implementation is supplied by the user; the model takes the            *)
(* consecutive-failure breaker the Breaker interface (breaker.go) names:  *)
(* Fail counts a failure, Ready is false from Threshold failures on, and  *)
(* Success, which would reset the count, is never called under src/.      *)
(* Connect (client_connect.go) may be rejected by a ConnCreated plugin    *)
(* after the dial succeeded.                                               *)
(***************************************************************************)
EXTENDS Integers, FiniteSets, TLC

CONSTANTS
    Callers,    \* goroutines calling xClient.Call, one call each
    Endpoints,  \* endpoint keys "network@address" known to the selector
    FailModes,  \* the fail modes to check, among Failfast, Failtry, Failover
    Retries,    \* option.Retries
    MaxDials,   \* bound: dials beyond MaxDials fail
    CloseIsFatal, \* TRUE: Close as written (double unlock); FALSE: the
                  \* documented ErrShutdown return, to look past it
    Threshold,    \* failures after which the breaker is not Ready
    ConnPluginCanFail \* an installed ConnCreated plugin may reject a conn

ASSUME /\ FailModes \subseteq {"Failfast", "Failtry", "Failover"}
       /\ Retries \in Nat /\ MaxDials \in Nat \ {0} /\ CloseIsFatal \in BOOLEAN
       /\ Threshold \in Nat \ {0} /\ ConnPluginCanFail \in BOOLEAN

Clients == 1..MaxDials
NoClient == 0
NoKey == "nokey"
\* Errors a wrapCall or getCachedClient can return; "none" is nil.
Errors == {"none", "svcErr", "ctx", "transport", "shutdown",
           "unavailable", "dialErr", "breakerOpen"}

\* Mutant: the context-error checks (lines 234-240) left out.
uncoverErrorNoCtx(e) == e # "svcErr"

(* uncoverError (xclient_call.go:229-243): anything but a ServiceError or  *)
(* a context error, nil included.                                          *)
uncoverError(e) == e \notin {"svcErr", "ctx"}

VARIABLES
    FailMode,     \* c.failMode, fixed when the xClient is created
    cache,        \* c.cachedClient: endpoint -> client
    dialed,       \* clients 1..dialed have been created by generateClient
    cliKey,       \* the endpoint each client was dialed to
    cliClosing,   \* client.closing
    cliShutdown,  \* client.shutdown (its read loop has ended)
    pc,           \* per caller: where it is in Call / getCachedClient
    stage,        \* per caller: "first" before the retry loop, "loop" inside
    key,          \* per caller: k, the selected endpoint
    cli,          \* per caller: the client in hand (NoClient = nil)
    err,          \* per caller: err of Call
    getErr,       \* per caller: the error of the last getCachedClient
    retries,      \* per caller: the retries counter of the loop
    attempts,     \* per caller: calls actually sent through wrapCall
    closedByX,    \* clients the xClient closed (deleteCachedClient/removeClient)
    suspect,      \* clients seen failing: uncovered error, or found dead
    crashed,      \* the process died (fatal: unlock of unlocked mutex)
    brkFails      \* c.breakers: the Fail calls each endpoint's breaker got

vars == <<FailMode, cache, dialed, cliKey, cliClosing, cliShutdown, pc, stage, key, cli,
          err, getErr, retries, attempts, closedByX, suspect, crashed, brkFails>>
clientVars == <<dialed, cliKey, cliClosing, cliShutdown>>
callerVars == <<pc, stage, key, cli, err, getErr, retries, attempts>>

PCs == {"start", "get1", "get2", "get3", "got", "call", "loop", "evict",
        "close2", "regain", "done"}

TypeOK ==
    /\ FailMode \in FailModes
    /\ cache \in [Endpoints -> Clients \cup {NoClient}]
    /\ dialed \in 0..MaxDials
    /\ cliKey \in [Clients -> Endpoints \cup {NoKey}]
    /\ cliClosing \in [Clients -> BOOLEAN]
    /\ cliShutdown \in [Clients -> BOOLEAN]
    /\ pc \in [Callers -> PCs]
    /\ stage \in [Callers -> {"first", "loop"}]
    /\ key \in [Callers -> Endpoints \cup {NoKey}]
    /\ cli \in [Callers -> Clients \cup {NoClient}]
    /\ err \in [Callers -> Errors]
    /\ getErr \in [Callers -> Errors]
    /\ retries \in [Callers -> -1..Retries]
    /\ attempts \in [Callers -> Nat]
    /\ closedByX \subseteq Clients
    /\ suspect \subseteq Clients
    /\ crashed \in BOOLEAN
    /\ brkFails \in [Endpoints -> Nat]

Init ==
    /\ FailMode \in FailModes
    /\ cache = [k \in Endpoints |-> NoClient]
    /\ dialed = 0
    /\ cliKey = [i \in Clients |-> NoKey]
    /\ cliClosing = [i \in Clients |-> FALSE]
    /\ cliShutdown = [i \in Clients |-> FALSE]
    /\ pc = [p \in Callers |-> "start"]
    /\ stage = [p \in Callers |-> "first"]
    /\ key = [p \in Callers |-> NoKey]
    /\ cli = [p \in Callers |-> NoClient]
    /\ err = [p \in Callers |-> "none"]
    /\ getErr = [p \in Callers |-> "none"]
    /\ retries = [p \in Callers |-> Retries]
    /\ attempts = [p \in Callers |-> 0]
    /\ closedByX = {}
    /\ suspect = {}
    /\ crashed = FALSE
    /\ brkFails = [k \in Endpoints |-> 0]

-----------------------------------------------------------------------------
Live(i) == ~cliClosing[i] /\ ~cliShutdown[i]

\* Mutant: Ready lets one more failure through.
BreakerReadyOffByOne(k) == brkFails[k] <= Threshold

(* breaker.Ready() of the endpoint's breaker (breaker.go:5-11); an        *)
(* endpoint with no breaker yet has no failures and is ready.             *)
BreakerReady(k) == brkFails[k] < Threshold

(* client.Close() on client i (client.go:296-301): a live client becomes  *)
(* closing; on a closing or shut-down one the double unlock is fatal, or,  *)
(* with CloseIsFatal = FALSE, Close returns ErrShutdown as documented.     *)
CloseCli(i) ==
    IF Live(i) THEN /\ cliClosing' = [cliClosing EXCEPT ![i] = TRUE]
                    /\ UNCHANGED crashed
               ELSE /\ crashed' = CloseIsFatal
                    /\ UNCHANGED cliClosing

Goto(p, l) == pc' = [pc EXCEPT ![p] = l]

-----------------------------------------------------------------------------
(* selectClient (xclient_cache_client.go:9-22): the selector picks k under *)
(* c.mu, then getCachedClient(k).                                          *)
SelectClient(p) ==
    /\ pc[p] = "start"
    /\ \E k \in Endpoints : key' = [key EXCEPT ![p] = k]
    /\ Goto(p, "get1")
    /\ UNCHANGED <<cache, clientVars, stage, cli, err, getErr, retries, attempts,
                   closedByX, suspect, crashed>>

(* getCachedClient up to the first critical section (lines 38-55): an     *)
(* endpoint whose breaker is not Ready is refused with ErrBreakerOpen;    *)
(* otherwise, under c.mu, return a live cached client, or delete and      *)
(* Close the dead one and look again.                                      *)
GetCachedLookup(p) ==
    /\ pc[p] = "get1"
    /\ LET k == key[p]
           cl == cache[k]
       IN IF ~BreakerReady(k)
             THEN /\ cli' = [cli EXCEPT ![p] = NoClient]
                  /\ getErr' = [getErr EXCEPT ![p] = "breakerOpen"]
                  /\ Goto(p, "got")
                  /\ UNCHANGED <<cache, cliClosing, closedByX, suspect, crashed>>
          ELSE IF cl # NoClient /\ Live(cl)
             THEN /\ cli' = [cli EXCEPT ![p] = cl]
                  /\ getErr' = [getErr EXCEPT ![p] = "none"]
                  /\ Goto(p, "got")
                  /\ UNCHANGED <<cache, cliClosing, closedByX, suspect, crashed>>
             ELSE /\ cli' = [cli EXCEPT ![p] = NoClient]
                  /\ Goto(p, "get2")
                  /\ UNCHANGED getErr
                  /\ IF cl # NoClient
                        THEN /\ cache' = [cache EXCEPT ![k] = NoClient]
                             /\ CloseCli(cl)
                             /\ closedByX' = closedByX \cup {cl}
                             /\ suspect' = suspect \cup {cl}
                        ELSE UNCHANGED <<cache, cliClosing, closedByX, suspect, crashed>>
    /\ UNCHANGED <<dialed, cliKey, cliShutdown, stage, key, err, retries, attempts>>

(* Client.Connect (client_connect.go:34-86): the dial succeeds, fails, or *)
(* succeeds and DoConnCreated rejects the conn; Connect then returns at   *)
(* line 64, neither closing the conn nor calling DoConnCreateFailed.      *)
ConnectOutcomes ==
    {"ok", "dialErr"} \cup (IF ConnPluginCanFail THEN {"rejected"} ELSE {})

(* generateClient (xclient_cache_client.go:107-131) calls Fail on the     *)
(* endpoint's breaker, got by LoadOrStore, when Connect returned an error. *)
BreakerFail(k) == brkFails' = [brkFails EXCEPT ![k] = @ + 1]

(* getCachedClient, second critical section (lines 57-68): the           *)
(* singleflight dial generateClient, under c.mu.  The lookup above        *)
(* released c.mu, so another caller may have installed a client for k     *)
(* meanwhile; it is not looked at again.  A conn that was opened is a new  *)
(* client (MaxDials bounds them); only an "ok" one is returned.            *)
GetCachedDial(p) ==
    /\ pc[p] = "get2"
    /\ \E o \in ConnectOutcomes :
          /\ o # "dialErr" => dialed < MaxDials
          /\ IF o = "dialErr" THEN UNCHANGED <<dialed, cliKey>>
             ELSE /\ dialed' = dialed + 1
                  /\ cliKey' = [cliKey EXCEPT ![dialed + 1] = key[p]]
          /\ IF o = "ok"
                THEN /\ cli' = [cli EXCEPT ![p] = dialed + 1]
                     /\ Goto(p, "get3")
                     /\ UNCHANGED <<getErr, brkFails>>
                ELSE /\ getErr' = [getErr EXCEPT ![p] = "dialErr"]
                     /\ BreakerFail(key[p])
                     /\ Goto(p, "got")
                     /\ UNCHANGED cli
    /\ UNCHANGED <<cache, cliClosing, cliShutdown, stage, key, err, retries,
                   attempts, closedByX, suspect, crashed>>

(* getCachedClient, third critical section (lines 74-78): setCachedClient *)
(* overwrites whatever c.cachedClient[k] holds.                           *)
GetCachedInstall(p) ==
    /\ pc[p] = "get3"
    /\ cache' = [cache EXCEPT ![key[p]] = cli[p]]
    /\ getErr' = [getErr EXCEPT ![p] = "none"]
    /\ Goto(p, "got")
    /\ UNCHANGED <<clientVars, stage, key, cli, err, retries, attempts,
                   closedByX, suspect, crashed>>

-----------------------------------------------------------------------------
(* Call, after a getCachedClient (lines 34-39, 72, 100): the first       *)
(* selection's error ends a Failfast call; in the retry loop the error is *)
(* kept aside as e.                                                       *)
AfterGet(p) ==
    /\ pc[p] = "got"
    /\ IF stage[p] = "first"
          THEN /\ err' = [err EXCEPT ![p] = getErr[p]]
               /\ stage' = [stage EXCEPT ![p] = "loop"]
               /\ Goto(p, CASE getErr[p] # "none" /\ FailMode = "Failfast" -> "done"
                            [] FailMode = "Failfast" -> "call"
                            [] OTHER -> "loop")
          ELSE /\ Goto(p, "loop")
               /\ UNCHANGED <<err, stage>>
    /\ UNCHANGED <<cache, clientVars, key, cli, getErr, retries, attempts,
                   closedByX, suspect, crashed>>

(* wrapCall on client i (lines 173-196): nil gives ErrServerUnavailable;  *)
(* a closing or shut-down client fails with ErrShutdown; a live one may   *)
(* succeed, return a ServiceError, hit the ctx deadline, or fail on the   *)
(* transport, which may end its read loop.                                *)
WrapCall(p, outcome) ==
    LET i == cli[p] IN
    /\ IF i = NoClient THEN outcome = "unavailable"
       ELSE IF ~Live(i) THEN outcome = "shutdown"
       ELSE outcome \in {"none", "svcErr", "ctx", "transport"}
    /\ attempts' = [attempts EXCEPT ![p] = @ + IF i = NoClient THEN 0 ELSE 1]
    /\ IF outcome = "transport"
          THEN \E down \in BOOLEAN : cliShutdown' = [cliShutdown EXCEPT ![i] = down]
          ELSE UNCHANGED cliShutdown
    /\ suspect' = IF outcome \in {"transport", "shutdown"}
                     THEN suspect \cup {i} ELSE suspect

(* The Failfast branch (lines 161-169): one call, evict on an uncovered   *)
(* error.                                                                 *)
CallFailfast(p) ==
    /\ pc[p] = "call"
    /\ \E o \in Errors :
          /\ WrapCall(p, o)
          /\ err' = [err EXCEPT ![p] = o]
          /\ Goto(p, IF o # "none" /\ uncoverError(o) THEN "evict" ELSE "done")
    /\ UNCHANGED <<cache, dialed, cliKey, cliClosing, stage, key, cli, getErr,
                   retries, closedByX, crashed>>

\* Mutant: the loop runs while retries >= -1, one iteration too many.
LoopIterationOffByOne(p) ==
    /\ pc[p] = "loop"
    /\ IF retries[p] < -1
          THEN /\ Goto(p, "done")
               /\ err' = [err EXCEPT ![p] = IF @ = "none" THEN getErr[p] ELSE @]
               /\ UNCHANGED <<retries, attempts, cliShutdown, suspect>>
          ELSE /\ retries' = [retries EXCEPT ![p] = @ - 1]
               /\ IF cli[p] # NoClient
                     THEN \E o \in Errors :
                             /\ WrapCall(p, o)
                             /\ err' = [err EXCEPT ![p] = o]
                             /\ Goto(p, IF o \in {"none", "ctx", "svcErr"}
                                           THEN "done" ELSE "evict")
                     ELSE /\ Goto(p, "evict")
                          /\ UNCHANGED <<err, attempts, cliShutdown, suspect>>
    /\ UNCHANGED <<cache, dialed, cliKey, cliClosing, stage, key, cli, getErr,
                   closedByX, crashed>>

(* One iteration of the Failtry / Failover loop (lines 53-69, 80-96, and  *)
(* the exit 74-77, 103-106):                                              *)
(* stop when the retries are used up; call the client in hand; return on  *)
(* success, a context error or a ServiceError; otherwise go evict.        *)
LoopIteration(p) ==
    /\ pc[p] = "loop"
    /\ IF retries[p] < 0
          THEN /\ Goto(p, "done")
               /\ err' = [err EXCEPT ![p] = IF @ = "none" THEN getErr[p] ELSE @]
               /\ UNCHANGED <<retries, attempts, cliShutdown, suspect>>
          ELSE /\ retries' = [retries EXCEPT ![p] = @ - 1]
               /\ IF cli[p] # NoClient
                     THEN \E o \in Errors :
                             /\ WrapCall(p, o)
                             /\ err' = [err EXCEPT ![p] = o]
                             /\ Goto(p, IF o \in {"none", "ctx", "svcErr"}
                                           THEN "done" ELSE "evict")
                     ELSE /\ Goto(p, "evict")
                          /\ UNCHANGED <<err, attempts, cliShutdown, suspect>>
    /\ UNCHANGED <<cache, dialed, cliKey, cliClosing, stage, key, cli, getErr,
                   closedByX, crashed>>

\* Mutant: deleteCachedClient closes the client but leaves it cached.
RemoveClientLockedNoDelete(p) ==
    /\ pc[p] = "evict"
    /\ IF uncoverError(err[p])
          THEN /\ Goto(p, "close2")
               /\ IF cache[key[p]] = cli[p] /\ cli[p] # NoClient
                     THEN /\ CloseCli(cli[p])
                          /\ closedByX' = closedByX \cup {cli[p]}
                          /\ UNCHANGED cache
                     ELSE UNCHANGED <<cache, cliClosing, closedByX, crashed>>
          ELSE /\ Goto(p, IF FailMode = "Failfast" THEN "done" ELSE "regain")
               /\ UNCHANGED <<cache, cliClosing, closedByX, crashed>>
    /\ UNCHANGED <<dialed, cliKey, cliShutdown, stage, key, cli, err, getErr,
                   retries, attempts, suspect>>

(* removeClient, critical section (lines 143-149): if k still maps to the *)
(* failed client, deleteCachedClient deletes it and closes it.            *)
RemoveClientLocked(p) ==
    /\ pc[p] = "evict"
    /\ IF uncoverError(err[p])
          THEN /\ Goto(p, "close2")
               /\ IF cache[key[p]] = cli[p] /\ cli[p] # NoClient
                     THEN /\ cache' = [cache EXCEPT ![key[p]] = NoClient]
                          /\ CloseCli(cli[p])
                          /\ closedByX' = closedByX \cup {cli[p]}
                     ELSE UNCHANGED <<cache, cliClosing, closedByX, crashed>>
          ELSE /\ Goto(p, IF FailMode = "Failfast" THEN "done" ELSE "regain")
               /\ UNCHANGED <<cache, cliClosing, closedByX, crashed>>
    /\ UNCHANGED <<dialed, cliKey, cliShutdown, stage, key, cli, err, getErr,
                   retries, attempts, suspect>>

(* removeClient, after the unlock (lines 151-154): Close the client again. *)
RemoveClientClose(p) ==
    /\ pc[p] = "close2"
    /\ IF cli[p] # NoClient
          THEN /\ CloseCli(cli[p])
               /\ closedByX' = closedByX \cup {cli[p]}
          ELSE UNCHANGED <<cliClosing, closedByX, crashed>>
    /\ Goto(p, IF FailMode = "Failfast" THEN "done" ELSE "regain")
    /\ UNCHANGED <<cache, dialed, cliKey, cliShutdown, stage, key, cli, err,
                   getErr, retries, attempts, suspect>>

(* End of a loop iteration: Failtry gets a client for the same k again    *)
(* (line 72), Failover selects again (line 100).                          *)
Regain(p) ==
    /\ pc[p] = "regain"
    /\ Goto(p, IF FailMode = "Failtry" THEN "get1" ELSE "start")
    /\ UNCHANGED <<cache, clientVars, stage, key, cli, err, getErr, retries,
                   attempts, closedByX, suspect, crashed>>

-----------------------------------------------------------------------------
(* The server side of client i's connection goes away: its read loop ends *)
(* and sets shutdown.                                                     *)
ConnectionLost(i) ==
    /\ i <= dialed
    /\ ~cliShutdown[i]
    /\ cliShutdown' = [cliShutdown EXCEPT ![i] = TRUE]
    /\ UNCHANGED <<cache, dialed, cliKey, cliClosing, callerVars, closedByX,
                   suspect, crashed>>

Terminated == crashed \/ \A p \in Callers : pc[p] = "done"

Step ==
    /\ UNCHANGED FailMode
    /\ \/ \E p \in Callers : GetCachedDial(p)
       \/ /\ UNCHANGED brkFails
          /\ \/ \E p \in Callers :
                \/ SelectClient(p) \/ GetCachedLookup(p) \/ GetCachedInstall(p)
                \/ AfterGet(p) \/ CallFailfast(p) \/ LoopIteration(p)
                \/ RemoveClientLocked(p) \/ RemoveClientClose(p) \/ Regain(p)
             \/ \E i \in Clients : ConnectionLost(i)

Next ==
    \/ ~crashed /\ Step
    \/ Terminated /\ UNCHANGED vars

Spec == Init /\ [][Next]_vars

-----------------------------------------------------------------------------
(* A call makes at most Retries+1 attempts in Failtry and Failover and one *)
(* in Failfast (spec section 8), however evictions, re-dials and           *)
(* re-selections interleave with the other callers.                        *)
AttemptsBounded ==
    \A p \in Callers :
        attempts[p] <= IF FailMode = "Failfast" THEN 1 ELSE Retries + 1

(* Only an uncovered error evicts (spec section 8: a ServiceError or a     *)
(* context error never does): every client the xClient closed had failed   *)
(* with an uncovered error or was found closing or shut down in the cache. *)
EvictOnlyOnUncoveredError == closedByX \subseteq suspect

(* The cache never hands out a client the xClient has itself closed:       *)
(* removeClient and getCachedClient delete a client from c.cachedClient    *)
(* before or while closing it, under c.mu.                                 *)
CacheHoldsNoClosedClient ==
    \A k \in Endpoints : cache[k] # NoClient => ~cliClosing[cache[k]]

(* At most one open connection per endpoint (spec section 8: concurrent    *)
(* calls with an empty cache dial once); a second one is never cached and  *)
(* never closed.                                                           *)
OneOpenClientPerEndpoint ==
    \A k \in Endpoints :
        Cardinality({i \in 1..dialed : cliKey[i] = k /\ Live(i)}) <= 1

(* The breaker's Ready is read before c.mu is taken (line 40) and the     *)
(* dial happens later: once an endpoint's breaker has tripped, each caller *)
(* can still get at most one dial past it, the one whose Ready check came *)
(* before the trip; every later getCachedClient is refused.                *)
DialsPastOpenBreakerBounded ==
    \A k \in Endpoints : brkFails[k] <= Threshold - 1 + Cardinality(Callers)

(* Every connection Connect opened is owned: held by a caller, cached,    *)
(* or gone (spec section 4.3: plugins may wrap or reject the raw          *)
(* connection; a rejected connection must not stay open unowned).         *)
NoOrphanConnection ==
    \A i \in 1..dialed :
        \/ ~Live(i)
        \/ i \in {cache[k] : k \in Endpoints}
        \/ \E p \in Callers : cli[p] = i /\ pc[p] # "done"

(* Evicting a failed client must not bring the process down (Client.Close *)
(* documents ErrShutdown for a second Close).                              *)
NoFatalUnlock == ~crashed

=============================================================================
