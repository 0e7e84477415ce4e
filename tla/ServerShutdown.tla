--------------------------- MODULE ServerShutdown ---------------------------
(***************************************************************************)
(* The irpc server's serving loops and graceful shutdown                   *)
(* (src/server/server_serve.go, src/server/server.go): the accept loop     *)
(* ServeListener, one serveConn goroutine per connection, one handler      *)
(* goroutine per request counted in handlerMsgNum, the optional            *)
(* AsyncWrite writer goroutine per connection fed by a channel of          *)
(* capacity 1, Shutdown(ctx) and Close().                                  *)
(*                                                                         *)
(* Requests are identified by <<connection, index>>; their content, the    *)
(* dispatch and the codec do not matter here and are left out.  Every      *)
(* connection is TCP, so Shutdown half-closes it for reads.               *)
(* The plugin container's connection hooks are part of the steps that     *)
(* call them: PostConnAccept plugins may reject a new connection, and     *)
(* every DoPostConnClose call is counted per connection.                  *)
(***************************************************************************)
EXTENDS Naturals, FiniteSets, Sequences

CONSTANTS
    Conns,        \* client connections that may be accepted
    MaxReqs,      \* requests a client writes on one connection
    AsyncWriteModes, \* the values of Server.AsyncWrite to check
    CtxDeadline,  \* the ctx given to Shutdown may expire
    AllowClose,   \* user code may also call Server.Close
    AcceptPluginRejects \* an installed PostConnAccept plugin may reject

ASSUME /\ MaxReqs \in Nat \ {0}
       /\ AsyncWriteModes \subseteq BOOLEAN /\ AsyncWriteModes # {}
       /\ {CtxDeadline, AllowClose, AcceptPluginRejects} \subseteq BOOLEAN

Requests == Conns \X (1..MaxReqs)
ConnOf(r) == r[1]

VARIABLES
    asyncWrite,    \* s.AsyncWrite, fixed for the server's lifetime
    lnOpen,        \* s.ln not closed
    inShutdown,    \* s.inShutdown = 1
    doneClosed,    \* how many times close(s.doneChan) ran (twice panics)
    active,        \* s.activeConn
    readClosed,    \* connections half-closed for reads by Shutdown
    connClosed,    \* connections closed
    cstate,        \* per connection: the serveConn goroutine's position
    sent,          \* per connection: requests the client has written
    nread,         \* per connection: requests serveConn has read
    hstate,        \* per request: its handler goroutine's position
    handlerMsgNum, \* s.handlerMsgNum
    writeChOpen,   \* connections whose writeCh is not closed
    writeQ,        \* per connection: the writeCh buffer
    writerUp,      \* connections whose serveAsyncWrite goroutine runs
    answered,      \* requests whose response reached the connection
    dropped,       \* requests whose response was written to a closed conn
    panicked,      \* requests whose handler panicked sending on a closed writeCh
    acceptPC,      \* ServeListener: "accepting", "waitDone", "returned"
    shutPC,        \* Shutdown: "idle", "polling", "closing", "done"
    ctxExpired,    \* Shutdown stopped waiting because ctx expired
    closeCalled,   \* Close() has been called
    closeNotified  \* per connection: DoPostConnClose calls made for it

vars == <<asyncWrite, lnOpen, inShutdown, doneClosed, active, readClosed, connClosed, cstate,
          sent, nread, hstate, handlerMsgNum, writeChOpen, writeQ, writerUp,
          answered, dropped, panicked, acceptPC, shutPC, ctxExpired, closeCalled,
          closeNotified>>

ConnStates == {"pending", "rejected", "accepted", "serving", "reading",
               "exiting", "waitDone", "closed"}
HandlerStates == {"none", "spawned", "running", "done"}

TypeOK ==
    /\ asyncWrite \in AsyncWriteModes
    /\ {lnOpen, inShutdown, ctxExpired, closeCalled} \subseteq BOOLEAN
    /\ doneClosed \in Nat
    /\ active \subseteq Conns /\ readClosed \subseteq Conns /\ connClosed \subseteq Conns
    /\ cstate \in [Conns -> ConnStates]
    /\ sent \in [Conns -> 0..MaxReqs] /\ nread \in [Conns -> 0..MaxReqs]
    /\ hstate \in [Requests -> HandlerStates]
    /\ handlerMsgNum \in Nat
    /\ writeChOpen \subseteq Conns /\ writerUp \subseteq Conns
    /\ writeQ \in [Conns -> Seq(Requests)]
    /\ answered \subseteq Requests /\ dropped \subseteq Requests
    /\ panicked \subseteq Requests
    /\ acceptPC \in {"accepting", "waitDone", "returned"}
    /\ shutPC \in {"idle", "polling", "closing", "done"}
    /\ closeNotified \in [Conns -> Nat]

Init ==
    /\ asyncWrite \in AsyncWriteModes
    /\ lnOpen = TRUE /\ inShutdown = FALSE /\ doneClosed = 0
    /\ active = {} /\ readClosed = {} /\ connClosed = {}
    /\ cstate = [c \in Conns |-> "pending"]
    /\ sent = [c \in Conns |-> 0] /\ nread = [c \in Conns |-> 0]
    /\ hstate = [r \in Requests |-> "none"]
    /\ handlerMsgNum = 0
    /\ writeChOpen = {} /\ writeQ = [c \in Conns |-> <<>>] /\ writerUp = {}
    /\ answered = {} /\ dropped = {} /\ panicked = {}
    /\ acceptPC = "accepting" /\ shutPC = "idle"
    /\ ctxExpired = FALSE /\ closeCalled = FALSE
    /\ closeNotified = [c \in Conns |-> 0]

\* Groups of variables, for UNCHANGED.
listenVars == <<lnOpen, acceptPC>>
shutVars == <<inShutdown, shutPC, ctxExpired, closeCalled, doneClosed>>
outVars == <<answered, dropped, panicked>>
writeVars == <<writeChOpen, writeQ, writerUp>>

SetConn(c, s) == cstate' = [cstate EXCEPT ![c] = s]
SetHandler(r, s) == hstate' = [hstate EXCEPT ![r] = s]

(* closeDoneChanLocked (server.go:465-474): close doneChan unless closed;  *)
(* doneClosed counts the close() calls, a second one would panic.         *)
CloseDoneChanLocked == doneClosed' = IF doneClosed = 0 THEN 1 ELSE doneClosed

(* DoPostConnAccept (plugin_container.go:129-141): the ok results the     *)
(* accept hooks can give; a rejecting plugin closes the conn itself.      *)
DoPostConnAccept == {TRUE} \cup (IF AcceptPluginRejects THEN {FALSE} ELSE {})

(* DoPostConnClose (plugin_container.go:143-154) on the connections S:   *)
(* the close plugins see each of them once more.                          *)
DoPostConnClose(S) ==
    closeNotified' = [c \in Conns |-> closeNotified[c] + IF c \in S THEN 1 ELSE 0]

\* Mutant: closeConn leaves out DoPostConnClose.
CloseConnNoNotify(c) ==
    /\ active' = active \ {c}
    /\ connClosed' = connClosed \cup {c}
    /\ UNCHANGED closeNotified

(* closeConn (server_base.go:15-20): deleteActiveConn, conn.Close, then   *)
(* DoPostConnClose.                                                       *)
CloseConn(c) ==
    /\ active' = active \ {c}
    /\ connClosed' = connClosed \cup {c}
    /\ DoPostConnClose({c})

(* conn.Write of the response for r: it reaches the client unless the     *)
(* connection is closed (a half-close for reads keeps the write side).    *)
Deliver(r) ==
    IF ConnOf(r) \in connClosed
       THEN /\ dropped' = dropped \cup {r} /\ UNCHANGED <<answered, panicked>>
       ELSE /\ answered' = answered \cup {r} /\ UNCHANGED <<dropped, panicked>>

-----------------------------------------------------------------------------
(* ServeListener loop body (server_serve.go:97-98, 128-162): Accept, then *)
(* DoPostConnAccept; a rejected conn is closed (twice) and the loop goes  *)
(* on; an accepted one is added by setActiveConn and `go serveConn`.      *)
Accept(c) ==
    /\ acceptPC = "accepting" /\ lnOpen
    /\ cstate[c] = "pending"
    /\ \E ok \in DoPostConnAccept :
          IF ok THEN /\ active' = active \cup {c}
                     /\ SetConn(c, "accepted")
                     /\ UNCHANGED connClosed
                ELSE /\ connClosed' = connClosed \cup {c}
                     /\ SetConn(c, "rejected")
                     /\ UNCHANGED active
    /\ UNCHANGED <<asyncWrite, listenVars, shutVars, readClosed, closeNotified, sent,
                   nread, hstate, handlerMsgNum, writeVars, outVars>>

(* Accept fails on the closed listener (lines 99-125): on a shut-down     *)
(* server wait for doneChan then return ErrServerClosed; after Close      *)
(* alone, return the listener error at once.                              *)
AcceptFail ==
    /\ acceptPC = "accepting" /\ ~lnOpen
    /\ acceptPC' = IF inShutdown THEN "waitDone" ELSE "returned"
    /\ UNCHANGED <<asyncWrite, lnOpen, shutVars, active, readClosed, connClosed, closeNotified,
                   cstate, sent, nread, hstate, handlerMsgNum, writeVars, outVars>>

AcceptReturn ==
    /\ acceptPC = "waitDone" /\ doneClosed > 0
    /\ acceptPC' = "returned"
    /\ UNCHANGED <<asyncWrite, lnOpen, shutVars, active, readClosed, connClosed, closeNotified,
                   cstate, sent, nread, hstate, handlerMsgNum, writeVars, outVars>>

-----------------------------------------------------------------------------
(* serveConn entry (server_serve.go:166-204): on a shut-down server       *)
(* closeConn and return; else register the defers, make writeCh and start *)
(* serveAsyncWrite when AsyncWrite is set.                                *)
ServeStart(c) ==
    /\ cstate[c] = "accepted"
    /\ IF inShutdown
          THEN /\ SetConn(c, "closed")
               /\ CloseConn(c)
               /\ UNCHANGED <<writeChOpen, writerUp>>
          ELSE /\ SetConn(c, "serving")
               /\ UNCHANGED <<active, connClosed, closeNotified>>
               /\ IF asyncWrite
                     THEN /\ writeChOpen' = writeChOpen \cup {c}
                          /\ writerUp' = writerUp \cup {c}
                     ELSE UNCHANGED <<writeChOpen, writerUp>>
    /\ UNCHANGED <<asyncWrite, listenVars, shutVars, readClosed, sent, nread, hstate,
                   handlerMsgNum, writeQ, outVars>>

(* Top of the loop (lines 206-209): return once shutdown has begun.       *)
ServeCheck(c) ==
    /\ cstate[c] = "serving"
    /\ SetConn(c, IF inShutdown THEN "exiting" ELSE "reading")
    /\ UNCHANGED <<asyncWrite, listenVars, shutVars, active, readClosed, connClosed, closeNotified,
                   sent, nread, hstate, handlerMsgNum, writeVars, outVars>>

(* readRequest and the spawn of the handler goroutine (lines 218-255).   *)
(* A read returns a request the client wrote while the conn is open; on a *)
(* half-closed or closed conn it fails and serveConn returns.  Auth and   *)
(* decode errors are not modelled.                                        *)
ServeRead(c) ==
    /\ cstate[c] = "reading"
    /\ \/ /\ c \notin readClosed \cup connClosed
          /\ nread[c] < sent[c]
          /\ nread' = [nread EXCEPT ![c] = @ + 1]
          /\ SetHandler(<<c, nread[c] + 1>>, "spawned")
          /\ SetConn(c, "serving")
       \/ /\ c \in readClosed \cup connClosed
          /\ SetConn(c, "exiting")
          /\ UNCHANGED <<nread, hstate>>
    /\ UNCHANGED <<asyncWrite, listenVars, shutVars, active, readClosed, connClosed, closeNotified,
                   sent, handlerMsgNum, writeVars, outVars>>

(* serveConn returns; its defers run last registered first (lines 172-    *)
(* 195, 202): close(writeCh), then, on a shut-down server, wait for       *)
(* doneChan, then closeConn.                                              *)
ServeExit(c) ==
    /\ cstate[c] = "exiting"
    /\ writeChOpen' = writeChOpen \ {c}
    /\ IF inShutdown
          THEN /\ SetConn(c, "waitDone") /\ UNCHANGED <<active, connClosed, closeNotified>>
          ELSE /\ SetConn(c, "closed") /\ CloseConn(c)
    /\ UNCHANGED <<asyncWrite, listenVars, shutVars, readClosed, sent, nread, hstate,
                   handlerMsgNum, writeQ, writerUp, outVars>>

ServeClose(c) ==
    /\ cstate[c] = "waitDone" /\ doneClosed > 0
    /\ SetConn(c, "closed")
    /\ CloseConn(c)
    /\ UNCHANGED <<asyncWrite, listenVars, shutVars, readClosed, sent, nread, hstate,
                   handlerMsgNum, writeVars, outVars>>

-----------------------------------------------------------------------------
\* Mutant: the increment of line 263 left out.
HandlerStartNoCount(r) ==
    /\ hstate[r] = "spawned"
    /\ SetHandler(r, "running")
    /\ UNCHANGED <<asyncWrite, listenVars, shutVars, active, readClosed, connClosed, closeNotified,
                   cstate, sent, nread, handlerMsgNum, writeVars, outVars>>

(* The handler goroutine increments handlerMsgNum itself (line 263),      *)
(* after serveConn has gone on.                                           *)
HandlerStart(r) ==
    /\ hstate[r] = "spawned"
    /\ handlerMsgNum' = handlerMsgNum + 1
    /\ SetHandler(r, "running")
    /\ UNCHANGED <<asyncWrite, listenVars, shutVars, active, readClosed, connClosed, closeNotified,
                   cstate, sent, nread, writeVars, outVars>>

\* Mutant: the deferred decrement of line 264 left out.
HandlerReplyNoDecrement(r) ==
    LET c == ConnOf(r) IN
    /\ hstate[r] = "running"
    /\ IF asyncWrite
          THEN \/ /\ c \notin writeChOpen
                  /\ panicked' = panicked \cup {r}
                  /\ UNCHANGED <<writeQ, answered, dropped>>
               \/ /\ c \in writeChOpen /\ writeQ[c] = <<>>
                  /\ writeQ' = [writeQ EXCEPT ![c] = <<r>>]
                  /\ UNCHANGED outVars
          ELSE /\ Deliver(r) /\ UNCHANGED writeQ
    /\ SetHandler(r, "done")
    /\ UNCHANGED <<asyncWrite, listenVars, shutVars, active, readClosed, connClosed, closeNotified,
                   cstate, sent, nread, handlerMsgNum, writeChOpen, writerUp>>

(* writeResponse (lines 363-374), then the deferred decrement (line 264). *)
(* With AsyncWrite the response is sent on writeCh, capacity 1, blocking  *)
(* while it is full; a send on a closed writeCh (also one blocked when it *)
(* is closed) panics, the panic is recovered (lines 256-261) and the      *)
(* response is lost.  Without AsyncWrite, conn.Write.                    *)
HandlerReply(r) ==
    LET c == ConnOf(r) IN
    /\ hstate[r] = "running"
    /\ IF asyncWrite
          THEN \/ /\ c \notin writeChOpen
                  /\ panicked' = panicked \cup {r}
                  /\ UNCHANGED <<writeQ, answered, dropped>>
               \/ /\ c \in writeChOpen /\ writeQ[c] = <<>>
                  /\ writeQ' = [writeQ EXCEPT ![c] = <<r>>]
                  /\ UNCHANGED outVars
          ELSE /\ Deliver(r) /\ UNCHANGED writeQ
    /\ handlerMsgNum' = handlerMsgNum - 1
    /\ SetHandler(r, "done")
    /\ UNCHANGED <<asyncWrite, listenVars, shutVars, active, readClosed, connClosed, closeNotified,
                   cstate, sent, nread, writeChOpen, writerUp>>

(* serveAsyncWrite (lines 376-392): select between a closed doneChan and  *)
(* a value from writeCh, either ready one; nil from the closed and        *)
(* drained writeCh also ends it.                                          *)
WriterStep(c) ==
    /\ c \in writerUp
    /\ \/ /\ doneClosed > 0
          /\ writerUp' = writerUp \ {c}
          /\ UNCHANGED <<writeQ, outVars>>
       \/ /\ writeQ[c] # <<>>
          /\ Deliver(Head(writeQ[c]))
          /\ writeQ' = [writeQ EXCEPT ![c] = Tail(@)]
          /\ UNCHANGED writerUp
       \/ /\ writeQ[c] = <<>> /\ c \notin writeChOpen
          /\ writerUp' = writerUp \ {c}
          /\ UNCHANGED <<writeQ, outVars>>
    /\ UNCHANGED <<asyncWrite, listenVars, shutVars, active, readClosed, connClosed, closeNotified,
                   cstate, sent, nread, hstate, handlerMsgNum, writeChOpen>>

-----------------------------------------------------------------------------
(* Shutdown (server.go:362-381): CAS inShutdown 0 -> 1, then under s.mu   *)
(* close the listener and CloseRead every active connection.  A second    *)
(* Shutdown fails the CAS and returns at once, changing nothing.          *)
ShutdownBegin ==
    /\ ~inShutdown
    /\ inShutdown' = TRUE
    /\ lnOpen' = FALSE
    /\ readClosed' = readClosed \cup active
    /\ shutPC' = "polling"
    /\ UNCHANGED <<asyncWrite, acceptPC, ctxExpired, closeCalled, doneClosed, active,
                   connClosed, closeNotified, cstate, sent, nread, hstate, handlerMsgNum,
                   writeVars, outVars>>

(* The poll loop (lines 385-396, checkProcessMsg 459-463): leave it when  *)
(* handlerMsgNum is 0, or when ctx is done.                               *)
ShutdownPoll ==
    /\ shutPC = "polling"
    /\ \/ handlerMsgNum = 0 /\ UNCHANGED ctxExpired
       \/ CtxDeadline /\ ctxExpired' = TRUE
    /\ shutPC' = "closing"
    /\ UNCHANGED <<asyncWrite, listenVars, inShutdown, closeCalled, doneClosed, active,
                   readClosed, connClosed, closeNotified, cstate, sent, nread, hstate,
                   handlerMsgNum, writeVars, outVars>>

(* Lines 406-413: under s.mu close, forget and DoPostConnClose every      *)
(* active connection, then closeDoneChanLocked.                           *)
ShutdownClose ==
    /\ shutPC = "closing"
    /\ connClosed' = connClosed \cup active
    /\ active' = {}
    /\ DoPostConnClose(active)
    /\ CloseDoneChanLocked
    /\ shutPC' = "done"
    /\ UNCHANGED <<asyncWrite, listenVars, inShutdown, ctxExpired, closeCalled,
                   readClosed, cstate, sent, nread, hstate, handlerMsgNum,
                   writeVars, outVars>>

(* Close (server.go:321-336): under s.mu close the listener, close, forget *)
(* and DoPostConnClose every active connection and close doneChan,       *)
(* without waiting.                                                       *)
Close ==
    /\ AllowClose /\ ~closeCalled
    /\ closeCalled' = TRUE
    /\ lnOpen' = FALSE
    /\ connClosed' = connClosed \cup active
    /\ active' = {}
    /\ DoPostConnClose(active)
    /\ CloseDoneChanLocked
    /\ UNCHANGED <<asyncWrite, acceptPC, inShutdown, shutPC, ctxExpired, readClosed,
                   cstate, sent, nread, hstate, handlerMsgNum, writeVars, outVars>>

(* A client writes its next request on its connection.                    *)
ClientSend(c) ==
    /\ cstate[c] # "pending"
    /\ sent[c] < MaxReqs
    /\ sent' = [sent EXCEPT ![c] = @ + 1]
    /\ UNCHANGED <<asyncWrite, listenVars, shutVars, active, readClosed, connClosed, closeNotified,
                   cstate, nread, hstate, handlerMsgNum, writeVars, outVars>>

-----------------------------------------------------------------------------
(* Every goroutine has returned: ServeListener, Shutdown if it was        *)
(* called, every serveConn, handler and writer.                           *)
Terminated ==
    /\ shutPC \in {"idle", "done"}
    /\ inShutdown \/ closeCalled
    /\ acceptPC = "returned"
    /\ \A c \in Conns : cstate[c] \in {"pending", "rejected", "closed"}
    /\ \A r \in Requests : hstate[r] \in {"none", "done"}
    /\ writerUp = {}

Next ==
    \/ \E c \in Conns :
          \/ Accept(c) \/ ServeStart(c) \/ ServeCheck(c) \/ ServeRead(c)
          \/ ServeExit(c) \/ ServeClose(c) \/ WriterStep(c) \/ ClientSend(c)
    \/ \E r \in Requests : HandlerStart(r) \/ HandlerReply(r)
    \/ AcceptFail \/ AcceptReturn
    \/ ShutdownBegin \/ ShutdownPoll \/ ShutdownClose \/ Close
    \/ Terminated /\ UNCHANGED vars

(* Every goroutine the server starts is scheduled: weak fairness for      *)
(* them and for Shutdown once called.  The poll is fair only on its       *)
(* handlerMsgNum = 0 exit: the ticker re-checks it every interval.  The   *)
(* clients, the call of Shutdown or Close and the ctx expiring are not    *)
(* fair.                                                                  *)
Fairness ==
    /\ \A c \in Conns : WF_vars(ServeStart(c) \/ ServeCheck(c) \/ ServeRead(c)
                                \/ ServeExit(c) \/ ServeClose(c) \/ WriterStep(c))
    /\ \A r \in Requests : WF_vars(HandlerStart(r) \/ HandlerReply(r))
    /\ WF_vars(AcceptFail \/ AcceptReturn)
    /\ WF_vars(ShutdownClose)
    /\ WF_vars(handlerMsgNum = 0 /\ ShutdownPoll)

Spec == Init /\ [][Next]_vars /\ Fairness

-----------------------------------------------------------------------------
(* Once Shutdown or Close has been called, every goroutine of the server   *)
(* returns: ServeListener, Shutdown, every serveConn, every handler and    *)
(* every serveAsyncWrite writer (none is left blocked on doneChan, on a    *)
(* read, or on a full writeCh).                                            *)
ServerStops == (inShutdown \/ closeCalled) ~> Terminated

(* Graceful shutdown (spec 4.5; Shutdown's doc comment, server.go:355-361): *)
(* when Shutdown returns without its ctx expiring, and Close was not used,  *)
(* every request the server had read has been answered on its connection.  *)
GracefulShutdownAnswersAll ==
    (shutPC = "done" /\ ~ctxExpired /\ ~closeCalled)
        => \A r \in Requests : hstate[r] # "none" => r \in answered

(* No handler's response is lost by sending it on a closed writeCh (the    *)
(* send at server_serve.go:366 panics and lines 256-261 swallow it).       *)
NoSendOnClosedWriteCh == panicked = {}

(* Once Shutdown or Close has been called, the close plugins hear of       *)
(* every connection the accept plugins let in (DoPostConnClose from        *)
(* closeConn, Shutdown or Close), whichever of serveConn and the closing  *)
(* call gets to the connection first.                                      *)
AdmittedConnsCloseNotified ==
    (inShutdown \/ closeCalled)
        ~> \A c \in Conns : cstate[c] \notin {"pending", "rejected"}
                                => closeNotified[c] >= 1

(* Each connection is reported closed to the close plugins once (spec     *)
(* 4.8: a connection-closed hook), not once by Shutdown or Close and      *)
(* again by its serveConn's closeConn.                                     *)
PostConnCloseOnce == \A c \in Conns : closeNotified[c] <= 1

=============================================================================
