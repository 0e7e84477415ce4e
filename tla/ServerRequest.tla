--------------------------- MODULE ServerRequest ---------------------------
(***************************************************************************)
(* One connection's request pipeline on the server: the request branch of *)
(* serveConn's loop (src/server/server_serve.go:218-252), the handler      *)
(* goroutine it spawns (255-335), handleError and sendResponse (339-361), *)
(* and the dispatch of handleRequest and handleRequestForFunction          *)
(* (src/server/server.go:112-262).                                         *)
(*                                                                         *)
(* A request is abstracted to what the pipeline branches on: heartbeat,    *)
(* oneway, its service path and name, whether its codec is known and       *)
(* whether AuthFunc accepts it.  A response is abstracted to its status.  *)
(* The step of handleRequest that fails (decoding the args, a PreCall or   *)
(* PostCall plugin, the service method, encoding the reply) is chosen      *)
(* when the handler runs.  Shutdown is modelled in ServerShutdown.         *)
(*                                                                         *)
(* The route of a request is looked up, when its handler runs, in the     *)
(* router map that AddHandler fills and in the service map that Register, *)
(* RegisterName, RegisterFunction and RegisterFunctionName fill           *)
(* (src/server/server_register.go).  A receiver is abstracted to the set  *)
(* of its suitable methods, a function to whether its signature passes    *)
(* registerFunction's checks.                                              *)
(***************************************************************************)
EXTENDS Integers, Sequences, FiniteSets, TLC

LOCAL SE == INSTANCE SequencesExt

CONSTANTS
    MaxReqs,   \* the number of requests the client sends on the connection
    Paths,     \* service paths
    Names,     \* method and function names
    MaxRegs,   \* the number of registration and plugin calls the user makes
    Plugins,   \* the plugins the user may install
    Implements,\* per plugin, the extension points (Hooks) it implements
    MaxPlugins \* the longest plugin list considered

Dispatch == {"method", "function", "router", "noService", "noCodec", "noMethod"}
Hooks == {"PreReadRequest", "PostReadRequest", "PreCall", "PostCall"}
\* What a plugin's hook returns: nil, ErrReqReachLimit, or another error.
PluginErrs == {"nil", "limit", "other"}
ASSUME MaxReqs \in Nat /\ MaxRegs \in Nat /\ MaxPlugins \in Nat
ASSUME Implements \in [Plugins -> SUBSET Hooks]

Ids == 1..MaxReqs
NoReq == [none |-> TRUE]
NoRoute == "none"
\* A heartbeat is echoed before any lookup and skips auth, so its path,
\* name, codec and auth result are never read: they take one value.
Req == {r \in [hb : BOOLEAN, oneway : BOOLEAN, path : Paths, name : Names,
               codec : BOOLEAN, auth : BOOLEAN] :
          r.hb => /\ r.path = CHOOSE x \in Paths : TRUE
                  /\ r.name = CHOOSE x \in Names : TRUE
                  /\ r.codec /\ r.auth}
\* A request as serveConn holds it: limited when DoPostReadRequest returned
\* ErrReqReachLimit.
ReadReq == [hb : BOOLEAN, oneway : BOOLEAN, path : Paths, name : Names,
            codec : BOOLEAN, auth : BOOLEAN, limited : BOOLEAN]
NoSvc == [none |-> TRUE]
\* fnMade: the function map was made (a nil map reads as empty).
Service == [methods : SUBSET Names, functions : SUBSET Names, fnMade : BOOLEAN]

VARIABLES
    lpc,      \* serveConn: "loop", or "closed" once it has returned
    n,        \* requests read so far
    rq,       \* per request read: its header bits, route, the auth result
              \* and whether the rate limiter rejected it
    hpc,      \* per request: its handler goroutine, "none", "spawned", "done"
    failed,   \* per request: some step of its handling returned an error
    resp,     \* per request: the statuses of the responses written for it
    route,    \* per request: where its handler dispatched it
    svc,      \* s.serviceMap: per path, its service or NoSvc
    router,   \* s.router: the <<path, name>> pairs with a handler
    regs,     \* registration calls made so far
    fnReg,    \* the <<path, name>> functions registered successfully
    down,     \* a registration panicked and the process died
    plugins   \* s.Plugins: the pluginContainer's list, in registration order

regVars == <<svc, router, regs, fnReg, plugins>>
reqVars == <<lpc, n, rq, hpc, failed, resp, route>>
vars == <<reqVars, regVars, down>>

(* Message.HandleError (src/protocol/message.go:301-312): a non-nil error  *)
(* sets the Error status (and the ServiceError metadata).                  *)
HandleError(status, isErr) == IF isErr THEN "Error" ELSE status

(* Line 142, defer res.HandleError(err): the receiver and argument are     *)
(* evaluated when the defer statement runs, before res and err are         *)
(* assigned, so the deferred call sees err == nil.                         *)
ErrAtDefer == FALSE

(***************************************************************************)
(* The plugin container (src/server/plugin_container.go).  Every extension *)
(* point whose result the server uses is the same loop over p.plugins: a   *)
(* plugin that implements the hook is called, and its first error is       *)
(* returned at once.  out[i] is what the i-th plugin would return.  The    *)
(* result records the error and the positions of the plugins called.       *)
(***************************************************************************)
PluginOuts == [1 .. Len(plugins) -> PluginErrs]

\* Mutant: the loop keeps calling the plugins after an error, and the last
\* error wins.
RECURSIVE DoHookNoEarlyReturn(_, _, _, _)
DoHookNoEarlyReturn(pl, hook, out, i) ==
    IF i > Len(pl) THEN [err |-> "nil", called |-> {}]
    ELSE LET rest == DoHookNoEarlyReturn(pl, hook, out, i + 1) IN
         IF hook \notin Implements[pl[i]] THEN rest
         ELSE [err |-> IF rest.err # "nil" THEN rest.err ELSE out[i],
               called |-> rest.called \cup {i}]

RECURSIVE DoHook(_, _, _, _)
DoHook(pl, hook, out, i) ==
    IF i > Len(pl) THEN [err |-> "nil", called |-> {}]
    ELSE IF hook \notin Implements[pl[i]] THEN DoHook(pl, hook, out, i + 1)
    ELSE IF out[i] # "nil" THEN [err |-> out[i], called |-> {i}]
    ELSE LET rest == DoHook(pl, hook, out, i + 1) IN
         [rest EXCEPT !.called = @ \cup {i}]

DoPreReadRequest(out) == DoHook(plugins, "PreReadRequest", out, 1)
DoPostReadRequest(out) == DoHook(plugins, "PostReadRequest", out, 1)
DoPreCall(out) == DoHook(plugins, "PreCall", out, 1)
DoPostCall(out) == DoHook(plugins, "PostCall", out, 1)

(* The steps of handleRequest (lines 173-212) and handleRequestForFunction *)
(* (230-259) that may fail: only a method has the PreCall and PostCall     *)
(* plugins, and a step fails only if a plugin implementing it is          *)
(* installed; the reply is encoded only for a two-way request.             *)
FailSteps(rt, oneway) ==
    {"none", "decode", "call"}
      \cup {s \in {"preCall", "postCall"} :
              /\ rt = "method"
              /\ \E out \in PluginOuts :
                    IF s = "preCall" THEN DoPreCall(out).err # "nil" ELSE DoPostCall(out).err # "nil"}
      \cup (IF oneway THEN {} ELSE {"encode"})

(* Where a request goes (serveConn lines 292-302, handleRequest lines     *)
(* 145-172): a router handler first, then getService (server_base.go:8-13),*)
(* the codec, the service's methods, then its functions.  Reading a nil    *)
(* function map finds nothing.                                             *)
Route(r) ==
    CASE <<r.path, r.name>> \in router            -> "router"
      [] svc[r.path] = NoSvc                     -> "noService"
      [] ~r.codec                                -> "noCodec"
      [] r.name \in svc[r.path].methods          -> "method"
      [] r.name \in svc[r.path].functions        -> "function"
      [] OTHER                                   -> "noMethod"

(* The status of the response handleRequest returns (lines 141-222).  The  *)
(* lookups that fail call res.HandleError themselves; every other error    *)
(* (a failed decode, plugin, method call or encode: FailSteps) is only     *)
(* returned, to the deferred HandleError, so it leaves the status alone.   *)
HandleRequest(rt) ==
    HandleError(IF rt \in {"noService", "noCodec", "noMethod"} THEN "Error" ELSE "Normal",
                ErrAtDefer)

(* writeResponse (lines 363-374): a response written once serveConn has    *)
(* closed the connection is lost.                                          *)
Write(i, status) ==
    resp' = IF lpc = "loop" THEN [resp EXCEPT ![i] = Append(@, status)] ELSE resp

\* Mutant: handleError answers a oneway request too.
handleErrorNoOneway(i, r) ==
    /\ resp' = [resp EXCEPT ![i] = Append(@, HandleError("Normal", TRUE))]
    /\ failed' = [failed EXCEPT ![i] = TRUE]

(* handleError (lines 339-351): an Error response unless the request is    *)
(* oneway; sendResponse (353-361) writes it.                               *)
handleError(i, r) ==
    /\ resp' = IF r.oneway THEN resp ELSE [resp EXCEPT ![i] = Append(@, HandleError("Normal", TRUE))]
    /\ failed' = [failed EXCEPT ![i] = TRUE]

Read(r, e) ==
    /\ n' = n + 1
    /\ rq' = [rq EXCEPT ![n + 1] = ("limited" :> (e = "limit")) @@ r]

Spawn(i) == hpc' = [hpc EXCEPT ![i] = "spawned"]

\* Mutant: the continue after a rate-limited request (line 226) left out,
\* so its handler is spawned as well.
ServeLimitFallThrough(r, e) ==
    CASE e = "other"     -> lpc' = "closed" /\ UNCHANGED <<n, rq, hpc, failed, resp>>
      [] e = "limit"     -> Read(r, e) /\ handleError(n + 1, r) /\ Spawn(n + 1)
                            /\ UNCHANGED lpc
      [] r.hb \/ r.auth  -> Read(r, e) /\ Spawn(n + 1) /\ UNCHANGED <<lpc, failed, resp>>
      [] OTHER           -> Read(r, e) /\ handleError(n + 1, r) /\ lpc' = "closed"
                            /\ UNCHANGED hpc

\* Mutant: serveConn continues after a failed auth (lines 245-248).
ServeContinueOnAuthFail(r, e) ==
    CASE e = "other"     -> lpc' = "closed" /\ UNCHANGED <<n, rq, hpc, failed, resp>>
      [] e = "limit"     -> Read(r, e) /\ handleError(n + 1, r) /\ UNCHANGED <<lpc, hpc>>
      [] r.hb \/ r.auth  -> Read(r, e) /\ Spawn(n + 1) /\ UNCHANGED <<lpc, failed, resp>>
      [] OTHER           -> Read(r, e) /\ handleError(n + 1, r) /\ UNCHANGED <<lpc, hpc>>

(* serveConn after readRequest decoded request r and DoPostReadRequest     *)
(* returned e (lines 219-252): ErrReqReachLimit is answered by handleError *)
(* and the loop goes on; another error returns.  A heartbeat skips auth    *)
(* (server.go:132-139); a failed auth is answered and serveConn returns;   *)
(* otherwise the handler goroutine is spawned.                             *)
Serve(r, e) ==
    CASE e = "other"     -> lpc' = "closed" /\ UNCHANGED <<n, rq, hpc, failed, resp>>
      [] e = "limit"     -> Read(r, e) /\ handleError(n + 1, r) /\ UNCHANGED <<lpc, hpc>>
      [] r.hb \/ r.auth  -> Read(r, e) /\ Spawn(n + 1) /\ UNCHANGED <<lpc, failed, resp>>
      [] OTHER           -> Read(r, e) /\ handleError(n + 1, r) /\ lpc' = "closed"
                            /\ UNCHANGED hpc

(* The request branch of serveConn's loop with readRequest                 *)
(* (server.go:112-130).  The read fails (io.EOF, net.ErrClosed, a decode   *)
(* error) or DoPreReadRequest fails, and serveConn returns: an             *)
(* ErrReqReachLimit from PreReadRequest reaches handleError with a nil     *)
(* request, whose nil dereference serveConn's recover turns into the same  *)
(* return.  Otherwise DoPostReadRequest runs on the decoded request.       *)
ServeRead ==
    /\ ~down /\ lpc = "loop" /\ n < MaxReqs
    /\ UNCHANGED <<route, regVars, down>>
    /\ \/ lpc' = "closed" /\ UNCHANGED <<n, rq, hpc, failed, resp>>
       \/ /\ \E out \in PluginOuts : DoPreReadRequest(out).err = "nil"
          /\ \E e \in {DoPostReadRequest(out).err : out \in PluginOuts}, r \in Req : Serve(r, e)

\* Mutant: the handler sends a response only when handleRequest returned
\* no error.
HandleSkipOnError(i) ==
    /\ ~down /\ hpc[i] = "spawned"
    /\ hpc' = [hpc EXCEPT ![i] = "done"]
    /\ LET r == rq[i] IN
       CASE r.hb                -> Write(i, "Normal") /\ UNCHANGED failed
         [] Route(r) = "router" -> UNCHANGED <<failed, resp>>
         [] OTHER               ->
              \E step \in FailSteps(Route(r), r.oneway) :
                 /\ failed' = [failed EXCEPT ![i] =
                                 step # "none" \/ Route(r) \in {"noService", "noCodec", "noMethod"}]
                 /\ IF r.oneway \/ step # "none" THEN UNCHANGED resp ELSE Write(i, HandleRequest(Route(r)))
    /\ route' = [route EXCEPT ![i] = IF rq[i].hb THEN NoRoute ELSE Route(rq[i])]
    /\ UNCHANGED <<lpc, n, rq, regVars, down>>

(* The handler goroutine (lines 255-335).  A heartbeat is echoed as a      *)
(* response; a request with a router handler is left to it (its Context   *)
(* writes are not under src); any other goes through handleRequest and,   *)
(* unless oneway, sendResponse, whatever error handleRequest returned.     *)
Handle(i) ==
    /\ ~down /\ hpc[i] = "spawned"
    /\ hpc' = [hpc EXCEPT ![i] = "done"]
    /\ LET r == rq[i] IN
       CASE r.hb                -> Write(i, "Normal") /\ UNCHANGED failed
         [] Route(r) = "router" -> UNCHANGED <<failed, resp>>
         [] OTHER               ->
              \E step \in FailSteps(Route(r), r.oneway) :
                 /\ failed' = [failed EXCEPT ![i] =
                                 step # "none" \/ Route(r) \in {"noService", "noCodec", "noMethod"}]
                 /\ IF r.oneway THEN UNCHANGED resp ELSE Write(i, HandleRequest(Route(r)))
    /\ route' = [route EXCEPT ![i] = IF rq[i].hb THEN NoRoute ELSE Route(rq[i])]
    /\ UNCHANGED <<lpc, n, rq, regVars, down>>

-----------------------------------------------------------------------------
(* The registry (src/server/server_register.go).                           *)

\* Mutant: register without its check that the receiver has a method
\* (lines 86-97).
RegisterNoMethodCheck(p, M, nameOK) ==
    /\ svc' = IF nameOK THEN [svc EXCEPT ![p] = [methods |-> M, functions |-> {}, fnMade |-> FALSE]]
              ELSE svc
    /\ UNCHANGED <<router, fnReg, down, plugins>>

(* Register and RegisterName (lines 22-41) through register (67-105): a    *)
(* name that fails checkServiceName (107-124), or a receiver without any   *)
(* method suitableMethods (service.go:60-132) accepts, is an error;        *)
(* otherwise a new service, with its methods and no function map, is put   *)
(* under the name, replacing whatever was there.  The plugins' Register    *)
(* hooks run afterwards and do not undo it.                                 *)
Register(p, M, nameOK) ==
    /\ svc' = IF nameOK /\ M # {}
              THEN [svc EXCEPT ![p] = [methods |-> M, functions |-> {}, fnMade |-> FALSE]]
              ELSE svc
    /\ UNCHANGED <<router, fnReg, down, plugins>>

\* Mutant: registerFunction stores its service under the path before
\* checking the function's signature.
RegisterFunctionStoreEarly(p, f, sigOK) ==
    LET ss == IF svc[p] = NoSvc THEN [methods |-> {}, functions |-> {}, fnMade |-> TRUE] ELSE svc[p] IN
    /\ CASE ~sigOK                 -> svc' = [svc EXCEPT ![p] = ss] /\ UNCHANGED <<fnReg, down>>
         [] ~ss.fnMade           -> down' = TRUE /\ UNCHANGED <<svc, fnReg>>
         [] OTHER                 ->
              /\ svc' = [svc EXCEPT ![p] = [ss EXCEPT !.functions = @ \cup {f}]]
              /\ fnReg' = fnReg \cup {<<p, f>>}
              /\ UNCHANGED down
    /\ UNCHANGED <<router, plugins>>

(* RegisterFunction and RegisterFunctionName (lines 43-65) through         *)
(* registerFunction (126-203), under the write lock: the service under the *)
(* path, or a new one with an empty function map; a function whose kind,  *)
(* name or signature fails the checks is an error and stores nothing;      *)
(* otherwise the function is put into the service's function map and the  *)
(* service under the path.  A service made by register has a nil function *)
(* map, and the write into it panics, which ends the process.             *)
RegisterFunction(p, f, sigOK) ==
    LET ss == IF svc[p] = NoSvc THEN [methods |-> {}, functions |-> {}, fnMade |-> TRUE] ELSE svc[p] IN
    /\ CASE ~sigOK                 -> UNCHANGED <<svc, fnReg, down>>
         [] ~ss.fnMade           -> down' = TRUE /\ UNCHANGED <<svc, fnReg>>
         [] OTHER                 ->
              /\ svc' = [svc EXCEPT ![p] = [ss EXCEPT !.functions = @ \cup {f}]]
              /\ fnReg' = fnReg \cup {<<p, f>>}
              /\ UNCHANGED down
    /\ UNCHANGED <<router, plugins>>

(* pluginContainer.Add (plugin_container.go:47-50) with one plugin: it is  *)
(* appended, after any copy of it already there.                           *)
AddPlugin(pl) ==
    /\ Len(plugins) < MaxPlugins
    /\ plugins' = Append(plugins, pl)
    /\ UNCHANGED <<svc, router, fnReg, down>>

(* pluginContainer.Remove (lines 52-67): every copy of the plugin is       *)
(* dropped and the others keep their order.                                *)
RemovePlugin(pl) ==
    /\ plugins' = SE!Remove(plugins, pl)
    /\ UNCHANGED <<svc, router, fnReg, down>>

(* AddHandler (src/server/server.go:108-110).                              *)
AddHandler(p, m) ==
    /\ router' = router \cup {<<p, m>>}
    /\ UNCHANGED <<svc, fnReg, down, plugins>>

RegisterCall ==
    /\ ~down /\ regs < MaxRegs
    /\ regs' = regs + 1
    /\ \/ \E p \in Paths, M \in SUBSET Names, ok \in BOOLEAN : Register(p, M, ok)
       \/ \E p \in Paths, f \in Names, ok \in BOOLEAN : RegisterFunction(p, f, ok)
       \/ \E p \in Paths, m \in Names : AddHandler(p, m)
       \/ \E pl \in Plugins : AddPlugin(pl) \/ RemovePlugin(pl)
    /\ UNCHANGED reqVars

(* The plugin lists the user may have installed with Add before serving   *)
(* (spec 183): distinct plugins, in any order.                             *)
InstalledPlugins ==
    {sq \in UNION {[1 .. k -> Plugins] : k \in 0 .. MaxPlugins} :
        \A i, j \in DOMAIN sq : i # j => sq[i] # sq[j]}

Init ==
    /\ lpc = "loop"
    /\ n = 0
    /\ rq = [i \in Ids |-> NoReq]
    /\ hpc = [i \in Ids |-> "none"]
    /\ failed = [i \in Ids |-> FALSE]
    /\ resp = [i \in Ids |-> <<>>]
    /\ route = [i \in Ids |-> NoRoute]
    /\ svc = [p \in Paths |-> NoSvc]
    /\ router = {}
    /\ regs = 0
    /\ fnReg = {}
    /\ down = FALSE
    /\ plugins \in InstalledPlugins

(* Nothing is left to do: the connection is done, every handler has run   *)
(* and the user registers nothing more; or the process has died.          *)
Idle ==
    \/ down
    \/ (lpc = "closed" \/ n = MaxReqs) /\ regs = MaxRegs /\ \A i \in Ids : hpc[i] # "spawned"

Next ==
    \/ ServeRead
    \/ \E i \in Ids : Handle(i)
    \/ RegisterCall
    \/ (Idle /\ UNCHANGED vars)

(* The runtime runs every handler goroutine.  Reading waits for the       *)
(* client, which may never send again, and registering waits for the user, *)
(* so neither ServeRead nor RegisterCall is fair.                          *)
Spec == Init /\ [][Next]_vars /\ \A i \in Ids : WF_vars(Handle(i))

-----------------------------------------------------------------------------
TypeOK ==
    /\ lpc \in {"loop", "closed"}
    /\ n \in 0..MaxReqs
    /\ rq \in [Ids -> ReadReq \cup {NoReq}]
    /\ hpc \in [Ids -> {"none", "spawned", "done"}]
    /\ failed \in [Ids -> BOOLEAN]
    /\ resp \in [Ids -> Seq({"Normal", "Error"})]
    /\ \A i \in Ids : Len(resp[i]) <= 1
    /\ route \in [Ids -> Dispatch \cup {NoRoute}]
    /\ svc \in [Paths -> Service \cup {NoSvc}]
    /\ router \subseteq Paths \X Names
    /\ regs \in 0..MaxRegs
    /\ fnReg \subseteq Paths \X Names
    /\ down \in BOOLEAN
    /\ plugins \in Seq(Plugins) /\ Len(plugins) <= MaxPlugins

(* serveConn's auth gate (lines 238-249): a handler goroutine runs only    *)
(* for a heartbeat or a request AuthFunc accepted, and once a request has  *)
(* failed auth the connection reads nothing more.                          *)
AuthGate ==
    \A i \in Ids :
        /\ hpc[i] # "none" => rq[i].hb \/ rq[i].auth
        /\ (rq[i] # NoReq /\ ~rq[i].limited /\ ~rq[i].hb /\ ~rq[i].auth)
              => \A j \in i + 1 .. MaxReqs : rq[j] = NoReq

(* A oneway request is never answered, on any of the paths that write a    *)
(* response (handleError, the handler's sendResponse); heartbeats are      *)
(* echoed whatever their oneway bit.                                       *)
OnewayNeverAnswered ==
    \A i \in Ids : rq[i] # NoReq /\ rq[i].oneway /\ ~rq[i].hb => resp[i] = <<>>

(* A request that expects an answer gets one while the connection is open: *)
(* every two-way request read, other than one its handler left to a router *)
(* handler, is eventually answered, its connection closed or the process   *)
(* dead, whichever step of its handling failed and whatever was registered *)
(* meanwhile.                                                              *)
Answerable(i) == rq[i] # NoReq /\ ~rq[i].oneway

EveryRequestAnswered ==
    \A i \in Ids : Answerable(i) ~> (resp[i] # <<>> \/ route[i] = "router" \/ lpc = "closed" \/ down)

(* Every service in the map can serve something: register refuses a       *)
(* receiver without a suitable method and registerFunction stores its      *)
(* service only after the function passed its checks, so no path is found *)
(* by getService with neither a method nor a function behind it (which    *)
(* would answer "can't find method" where "can't find service" is due).   *)
NoEmptyService ==
    \A p \in Paths :
        svc[p] # NoSvc => svc[p].methods # {} \/ svc[p].functions # {}

(* Spec 45 and 105: registration adds to a service.  A function that      *)
(* RegisterFunction accepted stays callable: a later Register of a         *)
(* receiver under the same path does not drop it.                          *)
FunctionStaysRegistered ==
    \A pf \in fnReg : svc[pf[1]] # NoSvc /\ pf[2] \in svc[pf[1]].functions

(* Spec 105: RegisterFunction publishes a function on a path; the process  *)
(* survives registering a function on a path a receiver was registered on. *)
NoRegistrationPanic == ~down

(* The reference for every extension point of the plugin container: a    *)
(* Pre* or Post* hook whose result the server uses returns the error of    *)
(* the first plugin, in registration order, that implements the hook and   *)
(* fails, having called exactly the implementing plugins up to that one    *)
(* (spec 163: "order is registration order"), with whatever list Add and   *)
(* Remove have left.                                                       *)
Implementing(pl, hook) == {i \in DOMAIN pl : hook \in Implements[pl[i]]}
FirstFailing(pl, hook, out) ==
    LET F == {i \in Implementing(pl, hook) : out[i] # "nil"} IN
    IF F = {} THEN Len(pl) + 1 ELSE CHOOSE i \in F : \A j \in F : i <= j

HooksStopAtFirstError ==
    \A hook \in Hooks, out \in PluginOuts :
        LET k == FirstFailing(plugins, hook, out) IN
        DoHook(plugins, hook, out, 1) =
            [err |-> IF k > Len(plugins) THEN "nil" ELSE out[k],
             called |-> {i \in Implementing(plugins, hook) : i <= k}]

(* Spec 163: "Post* plugin errors are aggregated or logged": a Post* hook  *)
(* calls every plugin that implements it, whatever an earlier one returned.*)
PostHooksReachAll ==
    \A hook \in {"PostReadRequest", "PostCall"}, out \in PluginOuts :
        DoHook(plugins, hook, out, 1).called = Implementing(plugins, hook)

(* Spec 7: a service error (method not found, the handler returned an      *)
(* error, a recovered panic) reaches the client as a response with status  *)
(* Error and the ServiceError metadata: no failed request is answered      *)
(* with a Normal response, which the client reads as a success.            *)
FailureReported ==
    \A i \in Ids : failed[i] => \A k \in DOMAIN resp[i] : resp[i][k] = "Error"
====
