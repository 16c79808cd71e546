---------------------------- MODULE LifecycleProps ----------------------------
(***************************************************************************)
(* What is expected of a keeper's lifecycle.                               *)
(***************************************************************************)
EXTENDS Lifecycle

(* The values the state ranges over. *)
LifecycleTypeOK ==
    /\ thread \in [Callbacks -> ThreadStates]
    /\ bodies \in [Callbacks -> Nat]
    /\ main \in MainLabels
    /\ turn \in 1 .. Len(Order) + 1
    /\ status \in Statuses
    /\ terminated_internally \in BOOLEAN
    /\ terminated_externally \in BOOLEAN
    /\ fatal_termination \in BOOLEAN
    /\ last_block \in {"None", "recent", "old"}
    /\ at \in [Callbacks -> WatchLabels]
    /\ event_set \in [Callbacks -> BOOLEAN]
    /\ unserved \in [Callbacks -> BOOLEAN]
    /\ late \in [Callbacks -> Nat]

(* A callback never runs twice at once: it is invoked "unless one is       *)
(* already running" (util.py:121).                                         *)
NeverTwice == \A c \in Callbacks : bodies[c] <= 1

LifecycleTypeInv == LifecycleTypeOK /\ NeverTwice

(* Once termination was asked for, each callback is begun at most once     *)
(* more, by a thread that had already looked at the flags: the bound of    *)
(* the tests (test_lifecycle.py:298, 319).                                 *)
OneMoreAtMost == \A c \in Callbacks : late[c] <= 1

(* An event that was set, and whose callback was not begun since, is still *)
(* set, or its thread is on the way to the callback, or the keeper         *)
(* terminates: the callback is "called every time event is triggered"      *)
(* (lifecycle.py:295).  A thread that cannot be started breaks this: then  *)
(* trigger answers True all the same (util.py:150).                        *)
NoLostEvent ==
    \A c \in Events : unserved[c] =>
        event_set[c] \/ Terminating \/ at[c] \in {"check", "trigger", "start"}

(* During the shutdown function only such callbacks run as were begun      *)
(* after termination was asked for; all the others have been waited for.   *)
AwaitedBeforeShutdown ==
    main = "shutdown" => \A c \in Callbacks : bodies[c] > 0 => late[c] > 0

(* Why these hold.  A thread that is created is about to be started by the *)
(* thread that created it, and before that nothing runs; before the keeper *)
(* has started nothing happens; late invocations have left the stretch     *)
(* between the flags and the start; the callbacks that the main thread has *)
(* passed only run late.                                                   *)
CreatedIsStarting ==
    \A c \in Callbacks : /\ at[c] = "start" <=> thread[c] = "created"
                         /\ thread[c] # "started" => bodies[c] = 0

NotYetWatched ==
    /\ main = "init" => turn = 1 /\ ~Terminating
    /\ \A i \in DOMAIN Order :
          main = "init" \/ (main = "starting" /\ i >= turn)
             => at[Order[i]] = "off" /\ bodies[Order[i]] = 0

TurnKept ==
    /\ main = "joining" => turn <= Len(Order)
    /\ main = "shutdown" => turn > Len(Order)

LateIsPast ==
    \A c \in Callbacks : late[c] > 0 => Terminating /\ at[c] \notin {"trigger", "start"}

PassedRunLate ==
    main \in {"waiting", "joining", "shutdown"} =>
        /\ Terminating \/ Order = <<>>
        /\ \A i \in DOMAIN Order : i < turn /\ bodies[Order[i]] > 0 => late[Order[i]] > 0

EventsKept == StartMayFail \/ NoLostEvent

KeeperInv == /\ LifecycleTypeInv /\ CreatedIsStarting /\ NotYetWatched /\ TurnKept
             /\ LateIsPast /\ OneMoreAtMost /\ PassedRunLate /\ EventsKept

(* No callback runs during the shutdown function: "If the `on_block'       *)
(* callback is still running, wait for it to terminate"                    *)
(* (lifecycle.py:166, and 171, 177 for the others).                        *)
QuietShutdown == main = "shutdown" => \A c \in Callbacks : bodies[c] = 0

(* Waiting for a callback never fails: "If the callback isn't running or   *)
(* hasn't even been invoked once, returns instantly" (util.py:158).        *)
WaitReturns == status # "join_error"

-----------------------------------------------------------------------------
(* Progress: threads run, a callback returns some day, a timer and the     *)
(* minimum frequency of an event expire.  Nothing is assumed of the node.  *)

FairLifecycle ==
    /\ LifecycleSpec
    /\ WF_lifecycleVars(Main)
    /\ \A c \in Callbacks : /\ WF_lifecycleVars(Watch(c))
                            /\ WF_lifecycleVars(CallbackEnds(c))

(* Time passes: a dead watch reports no block for 300 seconds. *)
FairClock == /\ FairLifecycle
             /\ WF_lifecycleVars(Silence /\ \A c \in Blocks : at[c] = "dead")

(* A keeper that was asked to stop, by itself or by a signal, stops.       *)
Stops == terminated_internally \/ terminated_externally ~> ~Alive

(* A set event is answered by an invocation that begins later, unless the  *)
(* keeper terminates or never starts.  (With a thread that cannot be       *)
(* started it is not: NoLostEvent.)                                        *)
EventServed == \A c \in Events : unserved[c] ~> ~unserved[c] \/ Terminating \/ ~Alive

(* A dead filter thread makes the keeper terminate: "we detect it and      *)
(* terminate the keeper so it can be restarted" (lifecycle.py:482).        *)
DeadFilterNoticed == (\E c \in Blocks : at[c] = "dead") ~> Terminating \/ ~Alive
=============================================================================
