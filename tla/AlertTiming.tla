---------------------------- MODULE AlertTiming ----------------------------
(***************************************************************************)
(* Alert leases under a punctual sweep.  AlertLifecycle lets time run      *)
(* freely; here every tick is preceded by a refresh that began and ended   *)
(* after the tick before it, as the loop of scheduler.rs does when calls   *)
(* succeed.  A tick is the period of that loop and the shortest interval.  *)
(***************************************************************************)
EXTENDS AlertLifecycle

VARIABLE swept   \* since the last tick: no refresh, one begun, one ended

timedVars == <<vars, swept>>

TimedInit == Init /\ swept = "no"

(* A refresh that began after the tick and has now run out of rows.        *)
Ended == swept = "begun" /\ sweep.running /\ ~sweep'.running

TimedTick == Tick /\ swept = "ended" /\ swept' = "no"

TimedSweep ==
    /\ SweepStep
    /\ swept' = IF ~sweep.running /\ swept = "no" THEN "begun"
                ELSE IF Ended THEN "ended" ELSE swept

TimedOther ==
    /\ UserStep \/ HolderStep \/ (\E i \in Issues : Notify(i))
    /\ UNCHANGED swept

TimedNext == TimedTick \/ TimedSweep \/ TimedOther

TimedSpec == TimedInit /\ [][TimedNext]_timedVars

(* An alert the table says was delivered is still firing, whatever the     *)
(* administrator does to the settings in between and whichever page of the *)
(* sweep the alert is on: it is renewed before its lease runs out, and a   *)
(* short lease is extended when the interval is raised.                    *)
LeaseHolds ==
    \A i \in Issues :
        Tracked(i) /\ table[i].sent # Never /\ worker.issue # i
            => Firing(i, table[i].id)
=============================================================================
