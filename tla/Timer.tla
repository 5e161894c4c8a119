------------------------------- MODULE Timer -------------------------------
(***************************************************************************)
(* The timers of an IxpServer, lib/libixp/timer.c.  Each operation runs    *)
(* with srv->lk held; ixp_nexttimer lets go of it around a callback, so    *)
(* its loop is one action per iteration and callbacks may set and void     *)
(* timers in between.                                                      *)
(***************************************************************************)
EXTENDS Lists

CONSTANTS
    MaxTime,     \* bound: the clock, and every deadline
    MaxTimers,   \* bound: timers set
    MaxBack      \* bound: how often the clock steps back

ASSUME TimerAssumption == MaxTime \in Nat /\ MaxTimers \in Nat /\ MaxBack \in Nat

VARIABLES
    now,       \* ixp_msec()
    timers,    \* srv->timer, a list of [id, msec]
    lastid,    \* lastid
    fired,     \* ids whose callback has been called
    voided,    \* ids for which ixp_unsettimer returned true
    backs      \* how often the clock has stepped back

timerVars == <<timers, lastid, fired, voided, backs>>

TimerInit ==
    /\ now = 0
    /\ timers = <<>>
    /\ lastid = 1
    /\ fired = {} /\ voided = {}
    /\ backs = 0

\* Where ixp_settimer links a timer: before the first that is due earlier.
Place(list, time) ==
    CHOOSE i \in 1 .. Len(list) + 1 :
        /\ \A j \in 1 .. i - 1 : list[j].msec >= time
        /\ i <= Len(list) => list[i].msec < time

Insert(list, t) == LinkedAt(list, Place(list, t.msec), t)

\* ixp_settimer
SetTimer(msec) ==
    /\ lastid <= MaxTimers
    /\ now + msec <= MaxTime
    /\ timers' = Insert(timers, [id |-> lastid, msec |-> now + msec])
    /\ lastid' = lastid + 1
    /\ UNCHANGED <<now, fired, voided, backs>>

\* Mutant: the timers in front of the voided one are dropped too.
UnlinkTail(list, id) ==
    LET k == CHOOSE i \in DOMAIN list : list[i].id = id
    IN  SubSeq(list, k + 1, Len(list))

Unlink(list, id) == Without(list, CHOOSE i \in DOMAIN list : list[i].id = id)

\* ixp_unsettimer: true, and the timer is gone, when it is still on the list.
UnsetTimer(id) ==
    /\ id \in {timers[i].id : i \in DOMAIN timers}
    /\ timers' = Unlink(timers, id)
    /\ voided' = voided \cup {id}
    /\ UNCHANGED <<now, lastid, fired, backs>>

\* ixp_nexttimer: the loop looks at the head of the list only.
HeadDue == timers # <<>> /\ Head(timers).msec <= now

\* ixp_nexttimer: unlink the head and call its function.
TriggerHead ==
    /\ HeadDue
    /\ timers' = Tail(timers)
    /\ fired' = fired \cup {Head(timers).id}
    /\ UNCHANGED <<now, lastid, voided, backs>>

\* ixp_nexttimer's result: how long until the head is due, 0 without timers.
Remaining == IF timers = <<>> THEN 0 ELSE Head(timers).msec - now

\* The clock stops at MaxTime, when every timer is due.
Tick ==
    /\ now' = IF now < MaxTime THEN now + 1 ELSE now
    /\ UNCHANGED timerVars

\* gettimeofday is the time of day, which somebody may set back.
StepBack ==
    /\ backs < MaxBack
    /\ now > 0
    /\ now' \in 0 .. now - 1
    /\ backs' = backs + 1
    /\ UNCHANGED <<timers, lastid, fired, voided>>

-----------------------------------------------------------------------------
TimerTypeOK ==
    /\ now \in 0 .. MaxTime
    /\ timers \in Seq([id : 1 .. MaxTimers, msec : 0 .. MaxTime])
    /\ lastid \in 1 .. MaxTimers + 1
    /\ fired \subseteq 1 .. MaxTimers /\ voided \subseteq 1 .. MaxTimers
    /\ backs \in 0 .. MaxBack

\* No timer is lost, fires twice, or fires after ixp_unsettimer said that it was
\* stopped: every id given out is on the list, has fired, or was voided, and
\* only one of these, although callbacks change the list while ixp_nexttimer
\* goes through it.
TimersAccounted ==
    LET listed == {timers[i].id : i \in DOMAIN timers}
    IN  /\ Cardinality(listed) = Len(timers)
        /\ listed \cup fired \cup voided = 1 .. lastid - 1
        /\ fired \cap voided = {} /\ listed \cap (fired \cup voided) = {}
=============================================================================
