------------------------------- MODULE Server -------------------------------
(***************************************************************************)
(* ixp_serverloop and the connection list, lib/libixp/server.c, with the   *)
(* timers of timer.c.  One thread runs the loop; what else happens is done *)
(* by the callbacks it makes (a timer's function, preselect, a             *)
(* connection's read), which listen, hang up, set and void timers, and     *)
(* stop the server.                                                        *)
(***************************************************************************)
EXTENDS Timer

CONSTANTS
    Nil,             \* the null pointer
    Fds,             \* descriptors the system hands out
    MaxConns         \* bound: connections listened on

Conns == [id : 1 .. MaxConns, fd : Fds]

ASSUME ServerAssumption ==
    /\ MaxConns \in Nat \ {0}
    /\ Nil \notin Conns

VARIABLES
    pc,         \* where ixp_serverloop is
    running,    \* srv->running
    conns,      \* srv->conn, newest first: a list of [id, fd]
    nconn,      \* connections made
    rd,         \* srv->rd, the descriptors select reported
    chosen,     \* ids of the connections whose descriptor select reported
    reading,    \* the connection whose read callback runs, or Nil
    next,       \* handle_conns: n, or Nil at the end of the list; it may dangle
    wait        \* how long select will still wait; Nil: for ever

loopVars == <<pc, running, rd, chosen, reading, next, wait>>
connVars == <<conns, nconn>>
vars == <<now, timerVars, loopVars, connVars>>

Listening == Members(conns)
FdsInUse == {c.fd : c \in Listening}

Init ==
    /\ TimerInit
    /\ pc = "top" /\ running = TRUE
    /\ \E fd \in Fds : conns = <<[id |-> 1, fd |-> fd]>>
    /\ nconn = 1
    /\ rd = {} /\ chosen = {}
    /\ reading = Nil /\ next = Nil
    /\ wait = Nil

-----------------------------------------------------------------------------
(* What callbacks do.                                                      *)

InCallback == pc \in {"timercb", "preselect", "readcb"}

\* Mutant: new connections go to the end of the list.
LinkedLast(c) == Append(conns, c)

\* ixp_listen links the connection in front.
Linked(c) == <<c>> \o conns

\* ixp_listen, on a descriptor the system has just handed out.
Listen(fd) ==
    /\ InCallback
    /\ nconn < MaxConns
    /\ fd \in Fds \ FdsInUse
    /\ conns' = Linked([id |-> nconn + 1, fd |-> fd])
    /\ nconn' = nconn + 1
    /\ UNCHANGED <<now, timerVars, loopVars>>

\* ixp_hangup: unlink, call close, close the descriptor, free.  A read callback
\* may do it to any connection: ixp_respond does when it cannot write.
HangupConn(c) ==
    /\ InCallback
    /\ conns' = Without(conns, CHOOSE i \in DOMAIN conns : conns[i] = c)
    /\ UNCHANGED <<now, timerVars, loopVars, nconn>>

\* ixp_server_close: ixp_hangup on every connection.
ServerClose ==
    /\ InCallback
    /\ conns # <<>>
    /\ conns' = <<>>
    /\ UNCHANGED <<now, timerVars, loopVars, nconn>>

Stop ==
    /\ InCallback
    /\ running
    /\ running' = FALSE
    /\ UNCHANGED <<now, timerVars, connVars, pc, rd, chosen, reading, next, wait>>

SetsTimer(msec) == InCallback /\ SetTimer(msec) /\ UNCHANGED <<loopVars, connVars>>
VoidsTimer(id) == InCallback /\ UnsetTimer(id) /\ UNCHANGED <<loopVars, connVars>>

-----------------------------------------------------------------------------
(* ixp_serverloop.                                                         *)

\* while(srv->running)
BeginPass ==
    /\ pc = "top"
    /\ pc' = IF running THEN "timers" ELSE "done"
    /\ UNCHANGED <<now, timerVars, connVars, running, rd, chosen, reading, next, wait>>

\* ixp_nexttimer: one iteration of its loop, up to the callback.
Trigger ==
    /\ pc = "timers"
    /\ TriggerHead
    /\ pc' = "timercb"
    /\ UNCHANGED <<connVars, running, rd, chosen, reading, next, wait>>

\* Mutant: the timeout is not given to select.
TimersDoneForgetting ==
    /\ pc = "timers"
    /\ ~HeadDue
    /\ wait' = Nil
    /\ pc' = "preselect"
    /\ UNCHANGED <<now, timerVars, connVars, running, rd, chosen, reading, next>>

\* ixp_nexttimer returns; a positive result becomes select's timeout.
TimersDone ==
    /\ pc = "timers"
    /\ ~HeadDue
    /\ wait' = IF Remaining > 0 THEN Remaining ELSE Nil
    /\ pc' = "preselect"
    /\ UNCHANGED <<now, timerVars, connVars, running, rd, chosen, reading, next>>

\* Mutant: srv->running is not looked at again after preselect.
CallbackReturnsUnchecked ==
    /\ InCallback
    /\ pc' = CASE pc = "timercb" -> "timers"
               [] pc = "readcb" -> "handle"
               [] OTHER -> "select"
    /\ reading' = Nil
    /\ UNCHANGED <<now, timerVars, connVars, running, rd, chosen, next, wait>>

\* A callback returns.  preselect may have stopped the server.
CallbackReturns ==
    /\ InCallback
    /\ pc' = CASE pc = "timercb" -> "timers"
               [] pc = "readcb" -> "handle"
               [] OTHER -> IF running THEN "select" ELSE "done"
    /\ reading' = Nil
    /\ UNCHANGED <<now, timerVars, connVars, running, rd, chosen, next, wait>>

\* select returns with the readable descriptors R of those prepare_select set.
Select(R) ==
    /\ rd' = R
    /\ chosen' = {c.id : c \in {d \in Listening : d.fd \in R}}
    /\ next' = IF conns = <<>> THEN Nil ELSE Head(conns)
    /\ pc' = "handle"
    /\ UNCHANGED <<now, timerVars, connVars, running, reading, wait>>

SelectReady ==
    /\ pc = "select"
    /\ \E R \in SUBSET FdsInUse \ {{}} : Select(R)

SelectTimeout ==
    /\ pc = "select"
    /\ wait = 0
    /\ Select({})

\* EINTR starts a new pass, another error ends the loop.
SelectFails ==
    /\ pc = "select"
    /\ pc' \in {"top", "done"}
    /\ UNCHANGED <<now, timerVars, connVars, running, rd, chosen, reading, next, wait>>

Successor(c) ==
    LET i == CHOOSE k \in DOMAIN conns : conns[k] = c
    IN  IF i = Len(conns) THEN Nil ELSE conns[i + 1]

\* Mutant: the link to the next connection is followed after the callback.
VisitLate ==
    /\ pc = "handle" /\ next \in Listening
    /\ next' = IF next.fd \in rd /\ next # reading THEN next ELSE Successor(next)
    /\ IF next.fd \in rd
       THEN pc' = "readcb" /\ reading' = next
       ELSE UNCHANGED <<pc, reading>>
    /\ UNCHANGED <<now, timerVars, connVars, running, rd, chosen, wait>>

\* handle_conns: one iteration.
Visit ==
    /\ pc = "handle" /\ next \in Listening
    /\ next' = Successor(next)
    /\ IF next.fd \in rd
       THEN pc' = "readcb" /\ reading' = next
       ELSE UNCHANGED <<pc, reading>>
    /\ UNCHANGED <<now, timerVars, connVars, running, rd, chosen, wait>>

\* The saved pointer is to a connection that was freed.
NextLost == next # Nil /\ next \notin Listening

\* handle_conns goes on to a freed connection: there is no telling what follows.
VisitFreed ==
    /\ pc = "handle" /\ NextLost
    /\ pc' = "crashed"
    /\ UNCHANGED <<now, timerVars, connVars, running, rd, chosen, reading, next, wait>>

EndPass ==
    /\ pc = "handle" /\ next = Nil
    /\ pc' = "top"
    /\ UNCHANGED <<now, timerVars, connVars, running, rd, chosen, reading, next, wait>>

Loop ==
    \/ BeginPass \/ Trigger \/ TimersDone \/ CallbackReturns
    \/ SelectTimeout \/ Visit \/ VisitFreed \/ EndPass

Callback ==
    \/ \E fd \in Fds : Listen(fd)
    \/ \E c \in Listening : HangupConn(c)
    \/ ServerClose
    \/ Stop
    \/ \E msec \in 0 .. MaxTime : SetsTimer(msec)
    \/ \E id \in 1 .. MaxTimers : VoidsTimer(id)

Over == pc \in {"done", "crashed"}

\* Time passes; select waits by a clock that nobody sets.
Passes ==
    /\ ~Over
    /\ Tick
    /\ wait' = IF pc = "select" /\ wait \notin {0, Nil} THEN wait - 1 ELSE wait
    /\ UNCHANGED <<connVars, pc, running, rd, chosen, reading, next>>

ClockSetBack == ~Over /\ StepBack /\ UNCHANGED <<loopVars, connVars>>

Next == Loop \/ SelectReady \/ SelectFails \/ Callback \/ Passes \/ ClockSetBack

Spec == Init /\ [][Next]_vars

\* The loop runs, its callbacks return, and time passes.
FairSpec == Spec /\ WF_vars(Loop) /\ WF_vars(CallbackReturns) /\ WF_vars(Passes)

-----------------------------------------------------------------------------
(* Properties.                                                             *)

\* Every variable stays in its type.
TypeOK ==
    /\ TimerTypeOK
    /\ pc \in {"top", "timers", "timercb", "preselect", "select", "handle", "readcb", "done",
              "crashed"}
    /\ running \in BOOLEAN
    /\ conns \in Seq(Conns) /\ nconn \in 1 .. MaxConns
    /\ rd \subseteq Fds /\ chosen \subseteq 1 .. MaxConns
    /\ {reading, next} \subseteq Conns \cup {Nil}
    /\ wait \in 0 .. MaxTime \cup {Nil}

\* Callbacks may hang up connections: timers and preselect any, and a read callback
\* its own.  handle_conns' saved pointer comes to dangle only when a read callback
\* hangs up the connection that is next on the list.
NextKept == [][~NextLost /\ NextLost' => pc = "readcb" /\ next # reading]_vars

\* What the comment on ixp_hangup says: it "stops the server listening on it", so
\* that handle_conns goes on only to connections that are listened on.
NextListed == pc = "handle" => ~NextLost

\* A read callback is called only for a connection whose own descriptor select
\* reported, although a callback may close a reported descriptor and listen on
\* a new connection that gets the same number.
ReadsReported == TypeOK /\ (pc = "readcb" => reading.id \in chosen)

\* ixp_nexttimer returns "the number of milliseconds until the next timer's
\* timeout": when it returns, none is due before.
WakesInTime ==
    pc = "timers" /\ ~HeadDue =>
        \A i \in DOMAIN timers : now + Remaining <= timers[i].msec

Listed(id) == \E i \in DOMAIN timers : timers[i].id = id

\* Once no more timers are set, every timer that is on the list when ixp_nexttimer
\* is called is triggered or voided, unless the loop ends, also when the clock is
\* set back meanwhile.
TimersFire ==
    <>[][lastid' = lastid]_vars =>
        \A id \in 1 .. MaxTimers :
            Listed(id) /\ pc = "timers" ~> id \in fired \cup voided \/ Over

\* What the comment on ixp_settimer says: a timer is "to be triggerred after msec
\* milliseconds", whichever callback sets it.
TimersTriggered ==
    \A id \in 1 .. MaxTimers : Listed(id) ~> id \in fired \cup voided \/ Over

\* "Exits when srv->running becomes false": the loop never blocks once a
\* callback has stopped the server.
ServerStops == ~running ~> Over
=============================================================================
