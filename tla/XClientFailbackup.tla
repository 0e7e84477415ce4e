------------------------- MODULE XClientFailbackup -------------------------
(***************************************************************************)
(* xClient.Call in Failbackup mode (src/client/xclient_call.go:107-160)    *)
(* and the xClient.Go it sends both requests with (lines 199-227).  Call   *)
(* first selects a client k at line 34, which Failbackup does not use for  *)
(* its requests; each Go selects again.  The primary is sent, and if      *)
(* neither ctx nor its reply comes before BackupLatency, the backup is     *)
(* sent and the first of ctx, reply 1 and reply 2 wins.  The deferred      *)
(* cancelFn cancels ctx on return.                                         *)
(*                                                                         *)
(* A request's reply is its call.Error: "ok" (nil), a ServiceError, a      *)
(* transport error or, once ctx is cancelled, a context error.  A Go that  *)
(* fails (ErrXClientShutdown, or selectClient: no server, breaker open,    *)
(* dial failure) is GoErr; all of these are uncovered errors.              *)
(***************************************************************************)
EXTENDS Integers, Sequences, FiniteSets

CONSTANTS
    Endpoints,    \* the endpoints selectClient may choose
    NoEndpoint    \* selectClient at line 34 failed (Failbackup goes on)

Replies == {"ok", "svcErr", "transport", "ctx"}
Rets == {"none", "nil", "err", "ctx"}
Requests == {1, 2}   \* the primary and the backup

VARIABLES
    pc,          \* Call's program counter
    k,           \* the key and client selected at line 34
    req,         \* per request: "unsent", "goErr", "running", "replied", "taken"
    ep,          \* per request: the endpoint its Go selected
    reply,       \* per request: its call.Error once replied
    ctxDone,     \* ctx is cancelled (by the caller, or cancelFn on return)
    ret,         \* what Call returned
    replyFrom,   \* which request's reply was copied into *reply (0: none)
    evicted      \* endpoints whose cached client removeClient closed

vars == <<pc, k, req, ep, reply, ctxDone, ret, replyFrom, evicted>>

(* uncoverError (xclient_call.go:229-243) of a reply.                      *)
Uncovered(r) == r \notin {"svcErr", "ctx"}

(* xClient.Go (lines 199-227): selectClient picks an endpoint, or fails;  *)
(* on success client.Go sends the request and returns its Call.           *)
GoSend(i) ==
    \/ /\ req' = [req EXCEPT ![i] = "goErr"]
       /\ UNCHANGED ep
    \/ \E e \in Endpoints :
         /\ req' = [req EXCEPT ![i] = "running"]
         /\ ep' = [ep EXCEPT ![i] = e]

(* Returning from Call: the deferred cancelFn cancels ctx.                 *)
Return(r, from) ==
    /\ pc' = "returned" /\ ret' = r /\ replyFrom' = from /\ ctxDone' = TRUE

(* Receiving <-call_i (lines 127-132, 148-157): the reply is returned and  *)
(* copied into *reply when it is nil.                                      *)
Take(i) ==
    /\ req[i] = "replied"
    /\ req' = [req EXCEPT ![i] = "taken"]
    /\ Return(IF reply[i] = "ok" THEN "nil"
              ELSE IF reply[i] = "ctx" THEN "ctx" ELSE "err",
              IF reply[i] = "ok" THEN i ELSE 0)

(* Lines 34 and 108-120: the selection of line 34 and the primary's Go.    *)
Primary ==
    /\ pc = "start"
    /\ \E s \in Endpoints \cup {NoEndpoint} : k' = s
    /\ GoSend(1)
    /\ pc' = "wait1"
    /\ UNCHANGED <<reply, ctxDone, ret, replyFrom, evicted>>

(* The low-level client completes a running request: its reply arrives    *)
(* in call1 or call2 (buffered, capacity 10), a context error only once   *)
(* ctx is cancelled.                                                       *)
Complete(i) ==
    /\ req[i] = "running"
    /\ \E r \in Replies :
         /\ r = "ctx" => ctxDone
         /\ reply' = [reply EXCEPT ![i] = r]
    /\ req' = [req EXCEPT ![i] = "replied"]
    /\ UNCHANGED <<pc, k, ep, ctxDone, ret, replyFrom, evicted>>

(* The caller cancels ctx.                                                 *)
CancelCtx ==
    /\ pc # "returned" /\ ~ctxDone
    /\ ctxDone' = TRUE
    /\ UNCHANGED <<pc, k, req, ep, reply, ret, replyFrom, evicted>>

(* Lines 123-126: ctx is done.                                             *)
Wait1Ctx ==
    /\ pc = "wait1" /\ ctxDone
    /\ Return("ctx", 0)
    /\ UNCHANGED <<k, req, ep, reply, evicted>>

(* Lines 127-132: the primary's reply.                                     *)
Wait1Reply ==
    /\ pc = "wait1"
    /\ Take(1)
    /\ UNCHANGED <<k, ep, reply, evicted>>

\* Mutant: removeClient's client != nil check (xclient_cache_client.go:151)
\* left out, so a failed selection at line 34 counts as an eviction.
BackupEvictAlways ==
    /\ pc = "wait1"
    /\ GoSend(2)
    /\ IF req'[2] = "goErr"
       THEN /\ evicted' = evicted \cup {k}
            /\ Return(IF req[1] = "goErr" THEN "err" ELSE "nil", 0)
       ELSE pc' = "wait2" /\ UNCHANGED <<evicted, ctxDone, ret, replyFrom>>
    /\ UNCHANGED <<k, reply>>

\* Mutant: err2 surfaced instead of err1 when the backup's Go fails.
BackupReturnsErr2 ==
    /\ pc = "wait1"
    /\ GoSend(2)
    /\ IF req'[2] = "goErr"
       THEN /\ evicted' = IF k = NoEndpoint THEN evicted ELSE evicted \cup {k}
            /\ Return("err", 0)
       ELSE pc' = "wait2" /\ UNCHANGED <<evicted, ctxDone, ret, replyFrom>>
    /\ UNCHANGED <<k, reply>>

(* Lines 133-143: BackupLatency passes and the backup's Go is called; if  *)
(* it fails, the client of line 34 is removed on an uncovered error and   *)
(* err1, the primary Go's error, is returned.                              *)
Backup ==
    /\ pc = "wait1"
    /\ GoSend(2)
    /\ IF req'[2] = "goErr"
       THEN /\ evicted' = IF k = NoEndpoint THEN evicted ELSE evicted \cup {k}
            /\ Return(IF req[1] = "goErr" THEN "err" ELSE "nil", 0)
       ELSE pc' = "wait2" /\ UNCHANGED <<evicted, ctxDone, ret, replyFrom>>
    /\ UNCHANGED <<k, reply>>

(* Lines 145-158: the first of ctx, reply 1 and reply 2.                   *)
Wait2Ctx ==
    /\ pc = "wait2" /\ ctxDone
    /\ Return("ctx", 0)
    /\ UNCHANGED <<k, req, ep, reply, evicted>>

\* Mutant: the case <-call2 (lines 153-157) left out of the select.
Wait2ReplyPrimaryOnly(i) ==
    /\ i = 1 /\ pc = "wait2"
    /\ Take(i)
    /\ UNCHANGED <<k, ep, reply, evicted>>

(* Lines 145-158: a reply, taken from call1 or call2.                      *)
Wait2Reply(i) ==
    /\ pc = "wait2"
    /\ Take(i)
    /\ UNCHANGED <<k, ep, reply, evicted>>

Init ==
    /\ pc = "start"
    /\ k = NoEndpoint
    /\ req = [i \in Requests |-> "unsent"]
    /\ ep = [i \in Requests |-> NoEndpoint]
    /\ reply = [i \in Requests |-> "none"]
    /\ ctxDone = FALSE
    /\ ret = "none"
    /\ replyFrom = 0
    /\ evicted = {}

Terminated == pc = "returned" /\ \A i \in Requests : req[i] # "running"

Next ==
    \/ Primary \/ Backup \/ CancelCtx
    \/ Wait1Ctx \/ Wait1Reply \/ Wait2Ctx
    \/ \E i \in Requests : Complete(i) \/ Wait2Reply(i)
    \/ (Terminated /\ UNCHANGED vars)

(* The runtime runs the caller and the client's read loop; every request  *)
(* sent is eventually completed by the low-level client (RPCClient's      *)
(* CallSessionRefined); BackupLatency is a timer that fires.  The caller's*)
(* cancellation is not fair: it may never come.                            *)
Fairness ==
    /\ WF_vars(Primary) /\ WF_vars(Backup) /\ WF_vars(Wait1Ctx) /\ WF_vars(Wait2Ctx)
    /\ \A i \in Requests : WF_vars(Complete(i)) /\ WF_vars(Wait2Reply(i))
    /\ WF_vars(Wait1Reply)

Spec == Init /\ [][Next]_vars /\ Fairness

-----------------------------------------------------------------------------
TypeOK ==
    /\ pc \in {"start", "wait1", "wait2", "returned"}
    /\ k \in Endpoints \cup {NoEndpoint}
    /\ req \in [Requests -> {"unsent", "goErr", "running", "replied", "taken"}]
    /\ ep \in [Requests -> Endpoints \cup {NoEndpoint}]
    /\ reply \in [Requests -> Replies \cup {"none"}]
    /\ ctxDone \in BOOLEAN
    /\ ret \in Rets
    /\ replyFrom \in {0} \cup Requests
    /\ evicted \subseteq Endpoints
(* Failbackup ends: Call returns and every request it sent is completed,  *)
(* whether or not the caller ever cancels ctx.                            *)
FailbackupReturns == <>Terminated

(* Spec 4.5: "if the backup Go fails, surface the primary's error": an     *)
(* error other than ctx's is returned only when the primary's Go failed or *)
(* a reply that was received failed.                                       *)
ErrorIsPrimaryOrReceived ==
    ret = "err" => \/ req[1] = "goErr"
                   \/ \E i \in Requests : req[i] = "taken" /\ reply[i] # "ok"

(* Spec 4.5, "return the first successful reply": Failbackup returns nil   *)
(* only with a successful reply copied into *reply.                        *)
NilMeansReply == ret = "nil" => replyFrom # 0

(* Spec 4.5 and 7: only an uncovered error evicts a connection, and only   *)
(* the connection it occurred on: removeClient closes the cached client of *)
(* an endpoint only if a request sent to it failed with such an error.     *)
EvictOnlyFailedEndpoint ==
    \A e \in evicted :
        \E i \in Requests : ep[i] = e /\ reply[i] \in Replies /\ Uncovered(reply[i])

(* Spec 4.5, "return the first successful reply": Failbackup returns a     *)
(* request's failure only when no other request can still succeed.         *)
FirstSuccessWins ==
    ret = "err" => \A i \in Requests : req[i] \notin {"running"}
=============================================================================
