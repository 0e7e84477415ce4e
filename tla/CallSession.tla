----------------------------- MODULE CallSession -----------------------------
(***************************************************************************)
(* What the low-level client promises each call (spec.md sections 3, 4.4  *)
(* and 8), with nothing of how it keeps the promise: a call is issued,     *)
(* the server may answer it, and the call returns once, with a result it  *)
(* keeps.  It returns success only if the server answered that very call  *)
(* normally, and every issued call returns unless the process has died.   *)
(***************************************************************************)
CONSTANTS
    Calls,     \* the calls the users and the heartbeat make
    Results,   \* what a returned call can report; "ok" is success
    NoResult   \* the result of a call that has not returned

ASSUME "ok" \in Results /\ NoResult \notin Results

VARIABLES
    st,        \* per call: "idle", "pending" or "returned"
    ret,       \* per call: what it returned
    answered,  \* the calls the server answered with a normal response
    down       \* the process has died

vars == <<st, ret, answered, down>>

Init ==
    /\ st = [c \in Calls |-> "idle"]
    /\ ret = [c \in Calls |-> NoResult]
    /\ answered = {}
    /\ down = FALSE

Issue(c) ==
    /\ ~down /\ st[c] = "idle"
    /\ st' = [st EXCEPT ![c] = "pending"]
    /\ UNCHANGED <<ret, answered, down>>

(* The server can answer a call only once it was issued; the answer may   *)
(* come after the call has already returned (a cancel).                    *)
Answer(c) ==
    /\ ~down /\ st[c] # "idle"
    /\ answered' = answered \cup {c}
    /\ UNCHANGED <<st, ret, down>>

Return(c, r) ==
    /\ ~down /\ st[c] = "pending"
    /\ r = "ok" => c \in answered
    /\ st' = [st EXCEPT ![c] = "returned"]
    /\ ret' = [ret EXCEPT ![c] = r]
    /\ UNCHANGED <<answered, down>>

Die ==
    /\ ~down
    /\ down' = TRUE
    /\ UNCHANGED <<st, ret, answered>>

Next ==
    \/ \E c \in Calls : Issue(c) \/ Answer(c) \/ \E r \in Results : Return(c, r)
    \/ Die

Spec == Init /\ [][Next]_vars /\ \A c \in Calls : WF_vars(\E r \in Results : Return(c, r))
=============================================================================
