----------------------------- MODULE PppCallout -----------------------------
(***************************************************************************)
(* The timers of the PPP daemon (ppp/pppLib.c): a list of callouts, each   *)
(* with the number of seconds after its predecessor, one POSIX timer set   *)
(* for the first of them, and schedtime, the time at which it was set.     *)
(*                                                                         *)
(* ppp_timeout() and ppp_untimeout() are called from signal handlers.  The *)
(* handlers of SIGIO, SIGHUP, SIGTERM and SIGINT first call adjtimeout();  *)
(* alrm() does not.  The signals are blocked while a handler runs, and a   *)
(* handler takes less than a second.                                       *)
(*                                                                         *)
(* due is a ghost: the time at which the caller asked to be called.        *)
(***************************************************************************)
EXTENDS Integers, Sequences, SequencesExt

CONSTANTS
    Func,        \* the (c_func, c_arg) pairs
    Seconds,     \* the durations that callers ask for
    Bursts,      \* TRUE: several signals may arrive in one itimer period
    TimeBound, ListBound

ASSUME CalloutAssumption ==
    /\ Seconds \subseteq Nat \ {0}
    /\ Bursts \in BOOLEAN
    /\ {TimeBound, ListBound} \subseteq Nat

VARIABLES
    now,         \* time()
    callout,     \* the list: [func, c_time, due]
    schedtime,
    itimer,      \* the time the POSIX timer expires, 0 when it is disarmed
    alarm,       \* SIGALRM is pending
    list,        \* the callouts that alrm() has detached and not yet called
    handler,     \* the handler that is running: "none", "alrm" or "other"
    adjusted     \* adjtimeout() has decremented the head since schedtime

calloutVars == <<now, callout, schedtime, itimer, alarm, list, handler, adjusted>>

CalloutInit ==
    /\ now = 0 /\ callout = <<>> /\ schedtime = 0 /\ itimer = 0
    /\ alarm = FALSE /\ list = <<>> /\ handler = "none" /\ adjusted = FALSE

\* timer_settime() for the head of the list l, and time() into schedtime; a
\* value of 0 disarms the timer.
SetItimer(l) ==
    /\ itimer' = IF l = <<>> \/ Head(l).c_time = 0 THEN 0
                 ELSE now + Head(l).c_time
    /\ schedtime' = now
    /\ adjusted' = FALSE

KeepItimer == UNCHANGED <<itimer, schedtime, adjusted>>

\* The sum of the c_time of the first i callouts.
Elapsed(l, i) == FoldLeft(LAMBDA s, c : s + c.c_time, 0, SubSeq(l, 1, i))

\* Link in after the callouts that are due no later, and take the time they
\* use off the new one, and what the new one uses off its successor.
LinkIn(l, fn, s) ==
    LET n == CHOOSE i \in 0..Len(l) :
               /\ Elapsed(l, i) <= s
               /\ i < Len(l) => Elapsed(l, i + 1) > s
        c == [func |-> fn, c_time |-> s - Elapsed(l, n), due |-> now + s]
    IN  SubSeq(l, 1, n) \o <<c>> \o
        [i \in 1 .. Len(l) - n |->
            IF i = 1 THEN [l[n + 1] EXCEPT !.c_time = @ - c.c_time] ELSE l[n + i]]

ppp_timeout(fn, s) ==
    /\ handler # "none"
    /\ Len(callout) < ListBound
    /\ callout' = LinkIn(callout, fn, s)
    /\ IF callout = <<>> \/ Head(callout).c_time > s
         THEN SetItimer(callout') ELSE KeepItimer
    /\ UNCHANGED <<now, alarm, list, handler>>

\* If the first callout is unscheduled then we have to set a new itimer.
Reschedule(l, i) == IF i = 1 THEN SetItimer(l) ELSE KeepItimer

\* The first match only; its time goes to its successor.
ppp_untimeout(fn) ==
    /\ handler # "none"
    /\ \E i \in DOMAIN callout :
         /\ callout[i].func = fn
         /\ \A j \in 1 .. i - 1 : callout[j].func # fn
         /\ callout' = [j \in 1 .. Len(callout) - 1 |->
                          IF j < i THEN callout[j]
                          ELSE IF j = i
                            THEN [callout[j + 1] EXCEPT !.c_time = @ + callout[i].c_time]
                            ELSE callout[j + 1]]
         /\ Reschedule(callout', i)
    /\ UNCHANGED <<now, alarm, list, handler>>

\* Mutant: the head is not decremented.
adjtimeout_Forgotten == UNCHANGED callout /\ KeepItimer

adjtimeout ==
    LET timediff == now - schedtime IN
    IF callout = <<>> \/ timediff >= Head(callout).c_time
      THEN UNCHANGED callout /\ KeepItimer
      ELSE /\ callout' = [callout EXCEPT ![1].c_time = @ - timediff]
           /\ adjusted' = (adjusted \/ timediff > 0)
           /\ UNCHANGED <<itimer, schedtime>>

\* SIGIO, SIGHUP, SIGTERM or SIGINT is delivered.
Signal ==
    /\ handler = "none"
    /\ Bursts \/ (~adjusted /\ ~alarm)
    /\ adjtimeout
    /\ handler' = "other"
    /\ UNCHANGED <<now, alarm, list>>

\* Mutant: the timer is not set for what stays on the list.
alrm_NoItimer ==
    /\ handler = "none" /\ alarm
    /\ alarm' = FALSE
    /\ handler' = "alrm"
    /\ list' = SubSeq(callout, 1, 1)
    /\ callout' = SubSeq(callout, 2, Len(callout))
    /\ UNCHANGED now /\ KeepItimer

\* SIGALRM is delivered: the head, and what is scheduled for the same time,
\* comes off the list before any of it is called.
alrm ==
    /\ handler = "none" /\ alarm
    /\ alarm' = FALSE
    /\ IF callout = <<>>
         THEN UNCHANGED <<callout, list, handler>> /\ KeepItimer
         ELSE LET n == CHOOSE i \in 1..Len(callout) :
                         /\ \A j \in 2..i : callout[j].c_time = 0
                         /\ i < Len(callout) => callout[i + 1].c_time # 0
              IN  /\ list' = SubSeq(callout, 1, n)
                  /\ callout' = SubSeq(callout, n + 1, Len(callout))
                  /\ handler' = "alrm"
                  /\ IF callout' # <<>> THEN SetItimer(callout') ELSE KeepItimer
    /\ UNCHANGED now

\* Call the next timeout routine of the list; what it does follows.
CallRoutine ==
    /\ handler = "alrm" /\ list # <<>>
    /\ list' = Tail(list)
    /\ UNCHANGED <<now, callout, alarm, handler>> /\ KeepItimer

Return ==
    /\ handler # "none" /\ list = <<>>
    /\ handler' = "none"
    /\ UNCHANGED <<now, callout, alarm, list>> /\ KeepItimer

\* A second passes; the timer is one-shot.
Tick ==
    /\ handler = "none" /\ ~alarm
    /\ now < TimeBound
    /\ now' = now + 1
    /\ alarm' = (itimer = now + 1)
    /\ itimer' = IF itimer = now + 1 THEN 0 ELSE itimer
    /\ UNCHANGED <<callout, schedtime, list, handler, adjusted>>

CalloutNext ==
    \/ \E fn \in Func : ppp_untimeout(fn) \/ \E s \in Seconds : ppp_timeout(fn, s)
    \/ Signal \/ alrm \/ CallRoutine \/ Return \/ Tick

CalloutSpec == CalloutInit /\ [][CalloutNext]_calloutVars

-----------------------------------------------------------------------------
(***************************************************************************)
(* A waiting callout is never forgotten: while the list is not empty the   *)
(* timer that will serve it is running, or SIGALRM is already pending; and *)
(* none is left on the list beyond the time that was asked for             *)
(* (ppp_timeout(), ppp_untimeout(), alrm()).                               *)
(***************************************************************************)
CalloutsServed ==
    /\ callout # <<>> => itimer > now \/ alarm
    /\ ~alarm => \A i \in DOMAIN callout : callout[i].due > now

(***************************************************************************)
(* A timeout routine is called at the time that was asked for.             *)
(***************************************************************************)
OnTime == [][CallRoutine => Head(list).due = now]_calloutVars
=============================================================================
