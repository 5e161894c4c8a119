-------------------------------- MODULE Rpc --------------------------------
(***************************************************************************)
(* What muxrpc promises its callers (lib/libixp/rpc.c, used by dofcall in  *)
(* client.c): a call whose request was sent returns the answer the server  *)
(* gave to that very call, or nothing, and then only when the connection   *)
(* is down.                                                                *)
(***************************************************************************)
EXTENDS Naturals

CONSTANTS Callers, MaxCalls

VARIABLES
    state,    \* "idle", "begun", or "sent" once the request is out
    count,    \* calls begun
    answer,   \* "none", or "own" once the call has its answer
    down      \* the connection is closed

vars == <<state, count, answer, down>>

Init ==
    /\ state = [c \in Callers |-> "idle"]
    /\ count = [c \in Callers |-> 0]
    /\ answer = [c \in Callers |-> "none"]
    /\ down = FALSE

Begin(c) ==
    /\ state[c] = "idle" /\ count[c] < MaxCalls
    /\ state' = [state EXCEPT ![c] = "begun"]
    /\ count' = [count EXCEPT ![c] = @ + 1]
    /\ answer' = [answer EXCEPT ![c] = "none"]
    /\ UNCHANGED down

\* The request is sent, or cannot be and the call returns.
Send(c) ==
    /\ state[c] = "begun"
    /\ state' \in {[state EXCEPT ![c] = "sent"], [state EXCEPT ![c] = "idle"]}
    /\ UNCHANGED <<count, answer, down>>

\* The answer to this call arrives.
Arrive(c) ==
    /\ state[c] = "sent" /\ answer[c] = "none"
    /\ answer' = [answer EXCEPT ![c] = "own"]
    /\ UNCHANGED <<state, count, down>>

\* The call returns, possibly at the moment its answer arrives.
Return(c) ==
    /\ state[c] = "sent"
    /\ state' = [state EXCEPT ![c] = "idle"]
    /\ answer' \in {answer, [answer EXCEPT ![c] = "own"]}
    /\ answer'[c] = "none" => down
    /\ UNCHANGED <<count, down>>

GoDown == ~down /\ down' = TRUE /\ UNCHANGED <<state, count, answer>>

Next == (\E c \in Callers : Begin(c) \/ Send(c) \/ Arrive(c) \/ Return(c)) \/ GoDown

Spec == Init /\ [][Next]_vars
=============================================================================
