------------------------------ MODULE RPCClient ------------------------------
(***************************************************************************)
(* The low-level client session of irpc (src/client/client.go): one        *)
(* connection, a pending map from sequence number to Call, the flags       *)
(* closing / shutdown / pluginClosed guarded by client.mutex, the read     *)
(* loop input(), Close(), and the heartbeat goroutine.                     *)
(*                                                                         *)
(* Client.Go / Client.Call / send are not under src/; they are modelled    *)
(* from spec.md section 4.4 (marked spec_modelled in PROJECT.json).        *)
(*                                                                         *)
(* A sequence number is allocated together with the pending insertion     *)
(* under the mutex and a uint64 never wraps within reach, so seq is        *)
(* identified with the call it was allocated to.  The peer is an abstract  *)
(* server: it reads requests in order, answers them in any order, and may  *)
(* close the connection at any time.                                       *)
(***************************************************************************)
EXTENDS Naturals, Sequences, FiniteSets

CONSTANTS
    Callers,          \* user goroutines, each making one Client.Call
    DeadlineCallers,  \* the callers whose ctx carries a deadline
    HeartbeatCalls,   \* one id per heartbeat tick; {} = heartbeat disabled
    MaxClose          \* how many times user code calls Client.Close

ASSUME /\ DeadlineCallers \subseteq Callers
       /\ Callers \cap HeartbeatCalls = {}
       /\ MaxClose \in Nat

Calls == Callers \cup HeartbeatCalls

\* call.Error as observed by the caller; "ok" is a nil error.
Results == {"ok", "svcErr", "shutdown", "unexpectedEOF", "closedConn",
            "ctx", "writeErr"}
NoResult == "none"

VARIABLES
    callState,    \* per call: "unused", "idle", "sending", "waiting", "returned"
    result,       \* per call: call.Error (last value written)
    returned,     \* per call: the error the caller's Call() returned
    doneCount,    \* per call: how many times call.done() strobed call.Done
    pending,      \* client.pending (as the set of calls it maps to)
    closing,      \* client.closing
    shutdown,     \* client.shutdown
    pluginClosed, \* client.pluginClosed
    connOpen,     \* client.Conn not yet closed locally
    peerClosed,   \* the server has closed its end
    toServer,     \* requests written and not yet read by the server
    serverBusy,   \* requests the server is handling
    toClient,     \* responses written by the server, in order
    answered,     \* calls the server answered with a normal response
    readerPC,     \* input(): "reading", "draining", "done"
    readErr,      \* the error that ended the read loop
    hbPC,         \* heartbeat(): "tick", "stopped", or the call in flight
    closes,       \* user Close() calls made so far
    crashed       \* the process died (fatal: unlock of unlocked mutex)

vars == <<callState, result, returned, doneCount, pending, closing, shutdown,
          pluginClosed, connOpen, peerClosed, toServer, serverBusy, toClient,
          answered, readerPC, readErr, hbPC, closes, crashed>>

clientVars == <<pending, closing, shutdown, pluginClosed, connOpen>>
serverVars == <<peerClosed, toServer, serverBusy, toClient, answered>>

Response == [seq : Calls, status : {"normal", "error"}]

TypeOK ==
    /\ callState \in [Calls -> {"unused", "idle", "sending", "waiting", "returned"}]
    /\ result \in [Calls -> Results \cup {NoResult}]
    /\ returned \in [Calls -> Results \cup {NoResult}]
    /\ doneCount \in [Calls -> Nat]
    /\ pending \subseteq Calls
    /\ {closing, shutdown, pluginClosed, connOpen, peerClosed, crashed} \subseteq BOOLEAN
    /\ toServer \in Seq(Calls)
    /\ serverBusy \subseteq Calls
    /\ toClient \in Seq(Response)
    /\ answered \subseteq Calls
    /\ readerPC \in {"reading", "draining", "done"}
    /\ readErr \in {NoResult, "EOF", "closedConn"}
    /\ hbPC \in {"tick", "stopped"} \cup HeartbeatCalls
    /\ closes \in 0..MaxClose

Init ==
    /\ callState = [c \in Calls |-> IF c \in Callers THEN "idle" ELSE "unused"]
    /\ result = [c \in Calls |-> NoResult]
    /\ returned = [c \in Calls |-> NoResult]
    /\ doneCount = [c \in Calls |-> 0]
    /\ pending = {}
    /\ closing = FALSE /\ shutdown = FALSE /\ pluginClosed = FALSE
    /\ connOpen = TRUE /\ peerClosed = FALSE
    /\ toServer = <<>> /\ serverBusy = {} /\ toClient = <<>> /\ answered = {}
    /\ readerPC = "reading" /\ readErr = NoResult
    /\ hbPC = IF HeartbeatCalls = {} THEN "stopped" ELSE "tick"
    /\ closes = 0
    /\ crashed = FALSE

-----------------------------------------------------------------------------
(* call.done(): set call.Error and strobe call.Done, for every call in S.  *)
Resolve(S, err) ==
    /\ result' = [c \in Calls |-> IF c \in S THEN err ELSE result[c]]
    /\ doneCount' = [c \in Calls |-> IF c \in S THEN doneCount[c] + 1 ELSE doneCount[c]]

(* Client.Close (client.go:275-304), one critical section.  The pending   *)
(* calls are failed with ErrShutdown and removed; the connection is       *)
(* closed once.  On a client already closing or shut down, Close unlocks  *)
(* the mutex explicitly and the deferred Unlock then unlocks it again,    *)
(* which is a fatal, unrecoverable runtime error.                         *)
CloseClient ==
    /\ Resolve(pending, "shutdown")
    /\ pending' = {}
    /\ pluginClosed' = TRUE
    /\ connOpen' = (connOpen /\ pluginClosed)
    /\ IF closing \/ shutdown
          THEN /\ crashed' = TRUE /\ UNCHANGED closing
          ELSE /\ closing' = TRUE /\ UNCHANGED crashed
    /\ UNCHANGED shutdown

-----------------------------------------------------------------------------
(* Client.Go, first half (spec 4.4): under the mutex, allocate the seq and *)
(* insert the call into pending; on a closing or shut-down client the call *)
(* is completed at once with ErrShutdown.                                  *)
GoRegister(c) ==
    /\ callState[c] = "idle"
    /\ IF closing \/ shutdown
          THEN /\ Resolve({c}, "shutdown")
               /\ callState' = [callState EXCEPT ![c] = "waiting"]
               /\ UNCHANGED pending
          ELSE /\ pending' = pending \cup {c}
               /\ callState' = [callState EXCEPT ![c] = "sending"]
               /\ UNCHANGED <<result, doneCount>>
    /\ UNCHANGED <<returned, closing, shutdown, pluginClosed, connOpen,
                   serverVars, readerPC, readErr, hbPC, closes, crashed>>

(* Client.Go, second half: encode and write outside the mutex.  A write on *)
(* a locally closed connection fails; the call is then taken out of        *)
(* pending, if still there, and completed with the write error.            *)
GoWrite(c) ==
    /\ callState[c] = "sending"
    /\ callState' = [callState EXCEPT ![c] = "waiting"]
    /\ IF connOpen
          THEN /\ toServer' = Append(toServer, c)
               /\ UNCHANGED <<pending, result, doneCount>>
          ELSE /\ toServer' = toServer
               /\ pending' = pending \ {c}
               /\ IF c \in pending THEN Resolve({c}, "writeErr")
                                   ELSE UNCHANGED <<result, doneCount>>
    /\ UNCHANGED <<returned, closing, shutdown, pluginClosed, connOpen,
                   peerClosed, serverBusy, toClient, answered,
                   readerPC, readErr, hbPC, closes, crashed>>

(* Client.Call returns when call.Done delivers the call.                  *)
CallReturn(c) ==
    /\ callState[c] = "waiting"
    /\ doneCount[c] > 0
    /\ callState' = [callState EXCEPT ![c] = "returned"]
    /\ returned' = [returned EXCEPT ![c] = result[c]]
    /\ UNCHANGED <<result, doneCount, clientVars, serverVars, readerPC,
                   readErr, hbPC, closes, crashed>>

(* Client.Call returns when ctx is done first: the call is removed from    *)
(* pending and, if it was still there, completed with the context error.   *)
(* Heartbeat calls always carry MaxWaitForHeartbeat.                        *)
CallCancel(c) ==
    /\ callState[c] = "waiting"
    /\ c \in DeadlineCallers \cup HeartbeatCalls
    /\ callState' = [callState EXCEPT ![c] = "returned"]
    /\ returned' = [returned EXCEPT ![c] = "ctx"]
    /\ pending' = pending \ {c}
    /\ IF c \in pending THEN Resolve({c}, "ctx") ELSE UNCHANGED <<result, doneCount>>
    /\ UNCHANGED <<closing, shutdown, pluginClosed, connOpen, serverVars,
                   readerPC, readErr, hbPC, closes, crashed>>

-----------------------------------------------------------------------------
(* input(), one loop iteration that decodes a response (client.go:74-151): *)
(* the call is looked up by seq and deleted from pending under the mutex;  *)
(* a response whose call is gone (cancelled) is dropped; an error status   *)
(* sets ServiceError, a normal status decodes the reply.                   *)
ReadResponse ==
    /\ readerPC = "reading"
    /\ connOpen
    /\ toClient # <<>>
    /\ LET res == Head(toClient)
       IN /\ toClient' = Tail(toClient)
          /\ pending' = pending \ {res.seq}
          /\ IF res.seq \in pending
                THEN Resolve({res.seq}, IF res.status = "error" THEN "svcErr" ELSE "ok")
                ELSE UNCHANGED <<result, doneCount>>
    /\ UNCHANGED <<callState, returned, closing, shutdown, pluginClosed, connOpen,
                   peerClosed, toServer, serverBusy, answered, readerPC, readErr,
                   hbPC, closes, crashed>>

(* input(): Decode fails and the loop breaks (client.go:80-82).  A read on *)
(* a locally closed conn fails with net.ErrClosed; a read after the peer   *)
(* closed, once its data is consumed, fails with io.EOF.                   *)
ReadFail ==
    /\ readerPC = "reading"
    /\ ~connOpen \/ (peerClosed /\ toClient = <<>>)
    /\ readerPC' = "draining"
    /\ readErr' = IF connOpen THEN "EOF" ELSE "closedConn"
    /\ UNCHANGED <<callState, result, returned, doneCount, clientVars, serverVars,
                   hbPC, closes, crashed>>

\* Mutant: io.EOF is passed on unmapped (client.go:180-186 left out).
ReaderDrainNoEOFMap ==
    /\ readerPC = "draining"
    /\ Resolve(pending, readErr)
    /\ pluginClosed' = TRUE
    /\ connOpen' = FALSE
    /\ shutdown' = TRUE
    /\ readerPC' = "done"
    /\ UNCHANGED <<callState, returned, pending, closing, serverVars, readErr,
                   hbPC, closes, crashed>>

\* Mutant: the pending calls are not completed (client.go:187-190 left out).
ReaderDrainNoResolve ==
    /\ readerPC = "draining"
    /\ pluginClosed' = TRUE
    /\ connOpen' = FALSE
    /\ shutdown' = TRUE
    /\ readerPC' = "done"
    /\ UNCHANGED <<callState, result, returned, doneCount, pending, closing,
                   serverVars, readErr, hbPC, closes, crashed>>

(* input(), after the loop (client.go:168-192), under the mutex: close the *)
(* conn, set shutdown, map EOF to ErrShutdown or ErrUnexpectedEOF by the   *)
(* closing flag read now, and complete every pending call with the error.  *)
(* The calls are not deleted from pending.                                 *)
ReaderDrain ==
    /\ readerPC = "draining"
    /\ LET err == CASE readErr = "EOF" /\ closing -> "shutdown"
                    [] readErr = "EOF"            -> "unexpectedEOF"
                    [] OTHER                      -> readErr
       IN Resolve(pending, err)
    /\ pluginClosed' = TRUE
    /\ connOpen' = FALSE
    /\ shutdown' = TRUE
    /\ readerPC' = "done"
    /\ UNCHANGED <<callState, returned, pending, closing, serverVars, readErr,
                   hbPC, closes, crashed>>

-----------------------------------------------------------------------------
(* heartbeat(), one tick (client.go:228-237): stop on a closing or shut    *)
(* down client, otherwise start the next heartbeat Call.                   *)
HeartbeatTick ==
    /\ hbPC = "tick"
    /\ IF shutdown \/ closing \/ \A h \in HeartbeatCalls : callState[h] # "unused"
          THEN /\ hbPC' = "stopped" /\ UNCHANGED callState
          ELSE \E h \in HeartbeatCalls :
                  /\ callState[h] = "unused"
                  /\ callState' = [callState EXCEPT ![h] = "idle"]
                  /\ hbPC' = h
    /\ UNCHANGED <<result, returned, doneCount, clientVars, serverVars,
                   readerPC, readErr, closes, crashed>>

(* heartbeat(), after the Call (client.go:238-255): the tick is abnormal   *)
(* if Call failed or ctx.Err() is set by now (the deadline may pass just   *)
(* after the reply), and an abnormal tick closes the client.               *)
HeartbeatCheck ==
    /\ hbPC \in HeartbeatCalls
    /\ callState[hbPC] = "returned"
    /\ hbPC' = "tick"
    /\ \E lateDeadline \in BOOLEAN :
          IF returned[hbPC] # "ok" \/ lateDeadline
             THEN CloseClient
             ELSE UNCHANGED <<result, doneCount, clientVars, crashed>>
    /\ UNCHANGED <<callState, returned, serverVars, readerPC, readErr, closes>>

(* User code calls Client.Close.                                          *)
UserClose ==
    /\ closes < MaxClose
    /\ closes' = closes + 1
    /\ CloseClient
    /\ UNCHANGED <<callState, returned, serverVars, readerPC, readErr, hbPC>>

-----------------------------------------------------------------------------
(* The peer server: reads requests in order, answers in any order with a  *)
(* normal or an error status, and may close the connection.               *)
ServerRead ==
    /\ ~peerClosed
    /\ toServer # <<>>
    /\ serverBusy' = serverBusy \cup {Head(toServer)}
    /\ toServer' = Tail(toServer)
    /\ UNCHANGED <<callState, result, returned, doneCount, clientVars, peerClosed,
                   toClient, answered, readerPC, readErr, hbPC, closes, crashed>>

ServerReply(c) ==
    /\ ~peerClosed
    /\ c \in serverBusy
    /\ serverBusy' = serverBusy \ {c}
    /\ \E status \in {"normal", "error"} :
          /\ toClient' = Append(toClient, [seq |-> c, status |-> status])
          /\ answered' = IF status = "normal" THEN answered \cup {c} ELSE answered
    /\ UNCHANGED <<callState, result, returned, doneCount, clientVars, peerClosed,
                   toServer, readerPC, readErr, hbPC, closes, crashed>>

ServerClose ==
    /\ ~peerClosed
    /\ peerClosed' = TRUE
    /\ toServer' = <<>>
    /\ serverBusy' = {}
    /\ UNCHANGED <<callState, result, returned, doneCount, clientVars, toClient,
                   answered, readerPC, readErr, hbPC, closes, crashed>>

-----------------------------------------------------------------------------
(* The program has stopped: the process died, or every goroutine is done. *)
Terminated ==
    \/ crashed
    \/ /\ \A c \in Calls : callState[c] \in {"unused", "returned"}
       /\ hbPC = "stopped"
       /\ readerPC = "done"

Step ==
    \/ \E c \in Calls : GoRegister(c) \/ GoWrite(c) \/ CallReturn(c) \/ CallCancel(c)
    \/ ReadResponse \/ ReadFail \/ ReaderDrain
    \/ HeartbeatTick \/ HeartbeatCheck \/ UserClose
    \/ ServerRead \/ \E c \in Calls : ServerReply(c)
    \/ ServerClose

Next ==
    \/ ~crashed /\ Step
    \/ Terminated /\ UNCHANGED vars

(* Goroutines that the Go runtime keeps running are weakly fair: callers,  *)
(* the read loop, the heartbeat loop and the server.  User Close, the      *)
(* server closing the connection and context deadlines are not.            *)
Fairness ==
    /\ \A c \in Calls : WF_vars(~crashed /\ (GoRegister(c) \/ GoWrite(c) \/ CallReturn(c)))
    /\ WF_vars(~crashed /\ (ReadResponse \/ ReadFail \/ ReaderDrain))
    /\ WF_vars(~crashed /\ (HeartbeatTick \/ HeartbeatCheck))
    /\ WF_vars(~crashed /\ ServerRead)
    /\ \A c \in Calls : WF_vars(~crashed /\ ServerReply(c))

Spec == Init /\ [][Next]_vars /\ Fairness

-----------------------------------------------------------------------------
(* Client.Close documents that on a connection already shutting down it    *)
(* returns ErrShutdown; it must never bring the process down.  Checked     *)
(* against Close reached from heartbeat() after a server disconnect.       *)
NoFatalUnlock == ~crashed

(* A Call is completed once (spec section 3: "resolved exactly once"):     *)
(* call.Done is strobed at most once and call.Error written once.          *)
CallDoneOnce == \A c \in Calls : doneCount[c] <= 1

(* The client session implements CallSession: a call is issued when Go   *)
(* registers it, pending while it is sent and awaited, and returned when   *)
(* Call returns; the server's normal answers and the death of the process  *)
(* are the abstract ones.  Every step of the read loop, Close, the         *)
(* heartbeat and the peer is one of CallSession's steps or leaves its      *)
(* state alone, and every call issued returns unless the process died.     *)
AbstractState(s) ==
    CASE s \in {"unused", "idle"}     -> "idle"
      [] s \in {"sending", "waiting"} -> "pending"
      [] OTHER                        -> "returned"

CS == INSTANCE CallSession WITH
        st <- [c \in Calls |-> AbstractState(callState[c])],
        ret <- returned,
        down <- crashed

CallSessionRefined == CS!Spec
=============================================================================
