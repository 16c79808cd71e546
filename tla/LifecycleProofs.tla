---------------------------- MODULE LifecycleProofs ----------------------------
(***************************************************************************)
(* For any number of callbacks: what a keeper's lifecycle never does.      *)
(*                                                                         *)
(* KeeperInv is inductive.  There is one lemma for each action, and in it  *)
(* three groups of conjuncts: the types; what is said of threads and of    *)
(* the turn; what is said of late invocations and of events.               *)
(***************************************************************************)
EXTENDS LifecycleProps, TLAPS

USE DEF callbackVars, mainVars, flags, watchVars, history
USE DEF KeeperInv, LifecycleTypeInv, LifecycleTypeOK, NeverTwice

(* Order lists each callback once. *)
LEMMA OrderFacts ==
  /\ Len(Order) \in Nat
  /\ DOMAIN Order = 1 .. Len(Order)
  /\ \A i \in DOMAIN Order : Order[i] \in Callbacks
  /\ \A c \in Callbacks : \E i \in DOMAIN Order : Order[i] = c
  /\ \A i, j \in DOMAIN Order : Order[i] = Order[j] => i = j
  /\ Order = <<>> => Callbacks = {}
  BY LifecycleAssumption, SMT DEF LifecycleAssumption

(* Initially nothing has happened. *)
LEMMA KeeperStart == LifecycleInit => KeeperInv
<1> SUFFICES ASSUME LifecycleInit PROVE KeeperInv
  OBVIOUS
<1>1. LifecycleTypeOK
  <2>1. /\ thread \in [Callbacks -> ThreadStates] /\ bodies \in [Callbacks -> Nat]
        /\ at \in [Callbacks -> WatchLabels] /\ late \in [Callbacks -> Nat]
    BY SMT DEF LifecycleInit, CallbackInit, ThreadStates, WatchLabels
  <2>2. /\ main \in MainLabels /\ status \in Statuses /\ last_block \in {"None", "recent", "old"}
        /\ terminated_internally \in BOOLEAN /\ terminated_externally \in BOOLEAN
        /\ fatal_termination \in BOOLEAN
    BY DEF LifecycleInit, MainLabels, Statuses
  <2>3. turn \in 1 .. Len(Order) + 1
    BY OrderFacts, SMT DEF LifecycleInit
  <2>4. event_set \in [Callbacks -> BOOLEAN] /\ unserved \in [Callbacks -> BOOLEAN]
    BY Zenon DEF LifecycleInit
  <2>5. QED BY <2>1, <2>2, <2>3, <2>4
<1>2. NeverTwice /\ CreatedIsStarting /\ NotYetWatched /\ TurnKept
  BY OrderFacts, SMT DEF LifecycleInit, CallbackInit, CreatedIsStarting, NotYetWatched, TurnKept,
      Terminating
<1>3. LateIsPast /\ OneMoreAtMost /\ PassedRunLate /\ EventsKept
  BY SMT DEF LifecycleInit, LateIsPast, OneMoreAtMost, PassedRunLate, EventsKept, NoLostEvent, Events
<1>4. QED BY <1>1, <1>2, <1>3

-----------------------------------------------------------------------------

(* The callbacks have not been touched when the keeper starts. *)
LEMMA StartupKeeps ==
  ASSUME KeeperInv, Startup
  PROVE  KeeperInv'
<1>1. LifecycleTypeOK'
  BY OrderFacts, SMT DEF Startup, MainGoes, Over, ThreadStates, MainLabels, WatchLabels, Statuses
<1>2. NeverTwice' /\ CreatedIsStarting' /\ NotYetWatched' /\ TurnKept'
  BY OrderFacts, SMT DEF Startup, MainGoes, Over, CreatedIsStarting, NotYetWatched, Terminating,
      TurnKept
<1>3. LateIsPast' /\ OneMoreAtMost' /\ PassedRunLate' /\ EventsKept'
  BY OrderFacts, SMT DEF Startup, MainGoes, Over, LateIsPast, NotYetWatched, OneMoreAtMost,
      Terminating, PassedRunLate, CreatedIsStarting, TurnKept, EventsKept, NoLostEvent,
      Events
<1>4. QED BY <1>1, <1>2, <1>3

(* The threads that invoke the callbacks are started one by one. *)
LEMMA StartWatchingKeeps ==
  ASSUME KeeperInv, StartWatching
  PROVE  KeeperInv'
<1> DEFINE c == Order[turn]
           label == IF Kind[c] = "event" THEN "check" ELSE "rest"
<1>1. CASE turn <= Len(Order)
  <2>1. main = "starting" /\ turn \in DOMAIN Order /\ c \in Callbacks
    <3>1. main = "starting"
      BY DEF StartWatching
    <3>2. turn \in DOMAIN Order
      BY ONLY turn \in 1 .. Len(Order) + 1, <1>1, OrderFacts, SMT
    <3>3. QED BY <3>1, <3>2, OrderFacts
  <2>2. at[c] = "off" /\ bodies[c] = 0 /\ thread[c] # "created"
    BY <2>1, SMT DEF NotYetWatched, CreatedIsStarting
  <2>3. at' = [at EXCEPT ![c] = label] /\ label \in {"check", "rest"}
    BY <1>1 DEF StartWatching
  <2>4. /\ turn' = turn + 1
        /\ UNCHANGED <<main, status, callbackVars, flags, last_block, event_set, history>>
    BY <1>1 DEF StartWatching
  <2>5. at' \in [Callbacks -> WatchLabels]
    BY <2>1, <2>3 DEF WatchLabels
  <2>6. LifecycleTypeOK'
    <3>1. turn' \in 1 .. Len(Order) + 1
      BY <1>1, <2>4, OrderFacts
    <3>2. QED BY <2>4, <2>5, <3>1
  <2>7. \A k \in Callbacks : k # c => at'[k] = at[k]
    BY <2>3
  <2>8. at'[c] = label
    BY <2>1, <2>3
  <2>9. CreatedIsStarting'
    BY <2>2, <2>4, <2>7, <2>8, SMT DEF CreatedIsStarting
  <2>10. NotYetWatched'
    BY <2>1, <2>4, <2>7, OrderFacts, SMT DEF NotYetWatched, Terminating
  <2>11. NeverTwice' /\ TurnKept'
    BY <2>1, <2>4, SMT DEF TurnKept
  <2>12. LateIsPast' /\ OneMoreAtMost'
    BY <2>4, <2>7, <2>8, SMT DEF LateIsPast, OneMoreAtMost, Terminating
  <2>13. PassedRunLate'
    BY <2>1, <2>4, SMT DEF PassedRunLate
  <2>14. EventsKept'
    <3>1. c \in Events => label = "check"
      BY DEF Events
    <3>2. /\ unserved' = unserved /\ event_set' = event_set
          /\ Terminating' = Terminating /\ Events' = Events
      BY <2>4 DEF Terminating, Events
    <3>3. \A k \in Events : k = c \/ at'[k] = at[k]
      BY <2>7 DEF Events
    <3>4. QED BY <2>2, <2>8, <3>1, <3>2, <3>3 DEF EventsKept, NoLostEvent
  <2>15. QED BY <2>6, <2>9, <2>10, <2>11, <2>12, <2>13, <2>14
<1>2. CASE ~(turn <= Len(Order))
  <2>1. LifecycleTypeOK'
    BY <1>2, OrderFacts, SMT DEF StartWatching, MainGoes, MainLabels
  <2>2. NeverTwice' /\ CreatedIsStarting' /\ NotYetWatched' /\ TurnKept'
    BY <1>2, SMT DEF StartWatching, MainGoes, CreatedIsStarting, NotYetWatched, TurnKept
  <2>3. LateIsPast' /\ OneMoreAtMost' /\ PassedRunLate' /\ EventsKept'
    BY <1>2, SMT DEF StartWatching, MainGoes, LateIsPast, OneMoreAtMost, PassedRunLate,
                     EventsKept, NoLostEvent, Terminating
  <2>4. QED BY <2>1, <2>2, <2>3
<1>3. QED BY <1>1, <1>2

(* The main loop is left with a flag set, or without a callback. *)
LEMMA MainLoopKeeps ==
  ASSUME KeeperInv, MainLoop
  PROVE  KeeperInv'
<1>1. LifecycleTypeOK'
  <2>1. main' \in MainLabels /\ status' \in Statuses /\ turn' \in 1 .. Len(Order) + 1
    BY OrderFacts, SMT DEF MainLoop, MainGoes, Over, MainLabels, Statuses
  <2>2. fatal_termination' \in BOOLEAN
    BY DEF MainLoop
  <2>3. UNCHANGED <<callbackVars, terminated_internally, terminated_externally, watchVars, history>>
    BY DEF MainLoop
  <2>4. QED BY <2>1, <2>2, <2>3, SMT
<1>2. NeverTwice' /\ CreatedIsStarting' /\ NotYetWatched' /\ TurnKept'
  BY OrderFacts, SMT DEF MainLoop, MainGoes, Over, AskedToStop, FilterThreadAlive,
      CreatedIsStarting, NotYetWatched, Terminating, TurnKept
<1>3. LateIsPast' /\ OneMoreAtMost' /\ PassedRunLate' /\ EventsKept'
  BY OrderFacts, SMT DEF MainLoop, MainGoes, Over, AskedToStop, FilterThreadAlive, LateIsPast,
      NotYetWatched, OneMoreAtMost, Terminating, PassedRunLate,
      CreatedIsStarting, TurnKept, EventsKept, NoLostEvent, Events
<1>4. QED BY <1>1, <1>2, <1>3

(* A callback that has no thread does not run. *)
LEMMA WaitKeeps ==
  ASSUME KeeperInv, Wait
  PROVE  KeeperInv'
<1>1. LifecycleTypeOK'
  BY OrderFacts, SMT DEF Wait, MainGoes, LastAwaited, ThreadStates, MainLabels, WatchLabels,
      Statuses
<1>2. NeverTwice' /\ CreatedIsStarting' /\ NotYetWatched' /\ TurnKept'
  BY OrderFacts, SMT DEF Wait, MainGoes, LastAwaited, CreatedIsStarting, NotYetWatched,
      Terminating, TurnKept
<1>3. LateIsPast' /\ OneMoreAtMost' /\ PassedRunLate' /\ EventsKept'
  <2>1. LateIsPast' /\ OneMoreAtMost'
    BY SMT DEF Wait, LateIsPast, OneMoreAtMost, Terminating
  <2>2. \/ turn' = turn
        \/ turn \in DOMAIN Order /\ turn' = turn + 1 /\ bodies[Order[turn]] = 0
    <3>1. CASE turn <= Len(Order) /\ thread[Order[turn]] = "None" /\ turn' = turn + 1
      <4>1. turn \in DOMAIN Order
        BY ONLY turn \in 1 .. Len(Order) + 1, <3>1, OrderFacts, SMT
      <4>2. bodies[Order[turn]] = 0
        BY <3>1, <4>1, OrderFacts, SMT DEF CreatedIsStarting
      <4>3. QED BY <3>1, <4>1, <4>2
    <3>2. QED BY <3>1 DEF Wait, LastAwaited
  <2>3. UNCHANGED <<callbackVars, flags, watchVars, history>> /\ main = "waiting"
    BY DEF Wait
  <2>4. PassedRunLate'
    BY <2>2, <2>3, OrderFacts, SMT DEF PassedRunLate, Terminating
  <2>5. EventsKept'
    <3>1. /\ unserved' = unserved /\ event_set' = event_set /\ at' = at
          /\ Terminating' = Terminating /\ Events' = Events
      BY <2>3 DEF Terminating, Events
    <3>2. QED BY <3>1 DEF EventsKept, NoLostEvent
  <2>6. QED BY <2>1, <2>4, <2>5
<1>4. QED BY <1>1, <1>2, <1>3

(* A callback whose thread has ended does not run. *)
LEMMA JoinKeeps ==
  ASSUME KeeperInv, Join
  PROVE  KeeperInv'
<1>1. LifecycleTypeOK'
  <2>1. main' \in MainLabels /\ status' \in Statuses
    BY DEF Join, MainGoes, Over, MainLabels, Statuses
  <2>2. turn' \in 1 .. Len(Order) + 1
    BY OrderFacts, SMT DEF Join, TurnKept
  <2>3. UNCHANGED <<callbackVars, flags, watchVars, history>>
    BY DEF Join
  <2>4. QED BY <2>1, <2>2, <2>3, SMT
<1>2. NeverTwice' /\ CreatedIsStarting' /\ NotYetWatched' /\ TurnKept'
  BY OrderFacts, SMT DEF Join, MainGoes, Over, JoinReturns, JoinRaises, IsAlive, CreatedIsStarting,
      NotYetWatched, Terminating, TurnKept
<1>3. LateIsPast' /\ OneMoreAtMost' /\ PassedRunLate' /\ EventsKept'
  BY OrderFacts, SMT DEF Join, MainGoes, Over, JoinReturns, JoinRaises, IsAlive, LateIsPast,
      NotYetWatched, OneMoreAtMost, Terminating, PassedRunLate,
      CreatedIsStarting, TurnKept, EventsKept, NoLostEvent, Events
<1>4. QED BY <1>1, <1>2, <1>3

(* The end of the shutdown function. *)
LEMMA ShutdownKeeps ==
  ASSUME KeeperInv, Shutdown
  PROVE  KeeperInv'
<1>1. LifecycleTypeOK'
  BY OrderFacts, SMT DEF Shutdown, Over, ThreadStates, MainLabels, WatchLabels, Statuses
<1>2. NeverTwice' /\ CreatedIsStarting' /\ NotYetWatched' /\ TurnKept'
  BY OrderFacts, SMT DEF Shutdown, Over, CreatedIsStarting, NotYetWatched, Terminating, TurnKept
<1>3. LateIsPast' /\ OneMoreAtMost' /\ PassedRunLate' /\ EventsKept'
  BY OrderFacts, SMT DEF Shutdown, Over, LateIsPast, NotYetWatched, OneMoreAtMost, Terminating,
      PassedRunLate, CreatedIsStarting, TurnKept, EventsKept, NoLostEvent, Events
<1>4. QED BY <1>1, <1>2, <1>3

(* A timer or the wait for an event is over. *)
LEMMA TickKeeps ==
  ASSUME NEW c \in Callbacks, KeeperInv, Tick(c)
  PROVE  KeeperInv'
<1>1. LifecycleTypeOK'
  BY OrderFacts, SMT DEF Tick, WatchGoes, Alive, ThreadStates, MainLabels, WatchLabels, Statuses
<1>2. NeverTwice' /\ CreatedIsStarting' /\ NotYetWatched' /\ TurnKept'
  BY OrderFacts, SMT DEF Tick, WatchGoes, Alive, CreatedIsStarting, NotYetWatched, Terminating,
      TurnKept
<1>3. LateIsPast' /\ OneMoreAtMost' /\ PassedRunLate' /\ EventsKept'
  <2>1. UNCHANGED <<callbackVars, mainVars, flags, last_block, event_set, history>>
    BY DEF Tick
  <2>2. PICK to \in {"check", "clear"} : at[c] = "rest" /\ at' = [at EXCEPT ![c] = to]
    BY DEF Tick, WatchGoes
  <2>3. LateIsPast' /\ OneMoreAtMost'
    BY <2>1, <2>2, SMT DEF LateIsPast, OneMoreAtMost, Terminating
  <2>4. PassedRunLate'
    BY <2>1, SMT DEF PassedRunLate, Terminating
  <2>5. EventsKept'
    <3> SUFFICES ASSUME NoLostEvent, NEW k \in Events, unserved[k]
                 PROVE  event_set[k] \/ Terminating \/ at'[k] \in {"check", "trigger", "start"}
      BY <2>1 DEF EventsKept, NoLostEvent, Terminating
    <3>1. k \in Callbacks
      BY DEF Events
    <3>2. event_set[k] \/ Terminating \/ k # c
      BY <2>2 DEF NoLostEvent
    <3>3. QED BY <2>2, <3>1, <3>2 DEF NoLostEvent
  <2>6. QED BY <2>3, <2>4, <2>5
<1>4. QED BY <1>1, <1>2, <1>3

(* An event is cleared on the way to its callback. *)
LEMMA ClearKeeps ==
  ASSUME NEW c \in Callbacks, KeeperInv, Clear(c)
  PROVE  KeeperInv'
<1>1. LifecycleTypeOK'
  BY OrderFacts, SMT DEF Clear, WatchGoes, Alive, ThreadStates, MainLabels, WatchLabels, Statuses
<1>2. NeverTwice' /\ CreatedIsStarting' /\ NotYetWatched' /\ TurnKept'
  BY OrderFacts, SMT DEF Clear, WatchGoes, Alive, CreatedIsStarting, NotYetWatched, Terminating,
      TurnKept
<1>3. LateIsPast' /\ OneMoreAtMost' /\ PassedRunLate' /\ EventsKept'
  BY OrderFacts, SMT DEF Clear, WatchGoes, Alive, LateIsPast, NotYetWatched, OneMoreAtMost,
      Terminating, PassedRunLate, CreatedIsStarting, TurnKept, EventsKept, NoLostEvent,
      Events
<1>4. QED BY <1>1, <1>2, <1>3

(* The flags are looked at. *)
LEMMA CheckKeeps ==
  ASSUME NEW c \in Callbacks, KeeperInv, Check(c)
  PROVE  KeeperInv'
<1>1. LifecycleTypeOK'
  BY OrderFacts, SMT DEF Check, WatchGoes, Alive, Ignored, Terminating, ThreadStates, MainLabels,
      WatchLabels, Statuses
<1>2. NeverTwice' /\ CreatedIsStarting' /\ NotYetWatched' /\ TurnKept'
  BY OrderFacts, SMT DEF Check, WatchGoes, Alive, Ignored, Terminating, CreatedIsStarting,
      NotYetWatched, TurnKept
<1>3. LateIsPast' /\ OneMoreAtMost' /\ PassedRunLate' /\ EventsKept'
  BY OrderFacts, SMT DEF Check, WatchGoes, Alive, Ignored, Terminating, LateIsPast, NotYetWatched,
      OneMoreAtMost, PassedRunLate, CreatedIsStarting, TurnKept, EventsKept, NoLostEvent,
      Events
<1>4. QED BY <1>1, <1>2, <1>3

(* A thread is created only when no invocation runs. *)
LEMMA TriggerKeeps ==
  ASSUME NEW c \in Callbacks, KeeperInv, Trigger(c)
  PROVE  KeeperInv'
<1>1. LifecycleTypeOK'
  <2>1. thread' \in [Callbacks -> ThreadStates] /\ bodies' \in [Callbacks -> Nat]
    BY SMT DEF Trigger, CreateThread, ThreadStates
  <2>2. at' \in [Callbacks -> WatchLabels]
    BY SMT DEF Trigger, WatchGoes, WatchLabels
  <2>3. UNCHANGED <<mainVars, flags, last_block, event_set, history>>
    BY DEF Trigger
  <2>4. QED BY <2>1, <2>2, <2>3, SMT
<1>2. NeverTwice' /\ CreatedIsStarting' /\ NotYetWatched' /\ TurnKept'
  BY OrderFacts, SMT DEF Trigger, WatchGoes, Alive, IsAlive, CreateThread, CreatedIsStarting,
      NotYetWatched, Terminating, TurnKept
<1>3. LateIsPast' /\ OneMoreAtMost' /\ PassedRunLate' /\ EventsKept'
  BY OrderFacts, SMT DEF Trigger, WatchGoes, Alive, IsAlive, CreateThread, LateIsPast,
      NotYetWatched, OneMoreAtMost, Terminating, PassedRunLate,
      CreatedIsStarting, TurnKept, EventsKept, NoLostEvent, Events
<1>4. QED BY <1>1, <1>2, <1>3

(* A thread is started: nothing ran before, and nothing was begun late. *)
LEMMA StartKeeps ==
  ASSUME NEW c \in Callbacks, KeeperInv, Start(c)
  PROVE  KeeperInv'
<1>a. at[c] = "start" /\ thread[c] = "created" /\ bodies[c] = 0 /\ late[c] = 0
  BY SMT DEF Start, WatchGoes, CreatedIsStarting, LateIsPast
<1>b. /\ thread' \in [Callbacks -> ThreadStates] /\ bodies' \in [Callbacks -> Nat]
      /\ late' \in [Callbacks -> Nat]
  <2>1. CASE StartThread(c)
    <3>1. thread' \in [Callbacks -> ThreadStates] /\ bodies' \in [Callbacks -> Nat]
      BY <2>1, SMT DEF StartThread, ThreadStates
    <3>2. late' \in [Callbacks -> Nat]
      BY ONLY late \in [Callbacks -> Nat], c \in Callbacks, Start(c), SMT DEF Start
    <3>3. QED BY <3>1, <3>2
  <2>2. CASE StartFails(c)
    <3>1. thread' \in [Callbacks -> ThreadStates] /\ bodies' \in [Callbacks -> Nat]
      BY <2>2, SMT DEF StartFails, ThreadStates
    <3>2. late' \in [Callbacks -> Nat]
      BY ONLY late \in [Callbacks -> Nat], c \in Callbacks, Start(c), SMT DEF Start
    <3>3. QED BY <3>1, <3>2
  <2>3. QED BY <2>1, <2>2 DEF Start
<1>c. \/ /\ bodies'[c] = 1 /\ thread'[c] = "started"
         /\ late'[c] = IF Terminating THEN 1 ELSE 0
      \/ bodies'[c] = 0 /\ thread'[c] = "None" /\ late'[c] = 0
  <2>1. CASE StartThread(c) /\ late' = [late EXCEPT ![c] = IF Terminating THEN @ + 1 ELSE @]
    <3>1. bodies'[c] = bodies[c] + 1 /\ thread'[c] = "started"
      BY <2>1 DEF StartThread
    <3>2. late'[c] = IF Terminating THEN late[c] + 1 ELSE late[c]
      BY <2>1
    <3>3. CASE Terminating
      BY ONLY <1>a, <3>1, <3>2, <3>3, SMT
    <3>4. CASE ~Terminating
      BY ONLY <1>a, <3>1, <3>2, <3>4, SMT
    <3>5. QED BY <3>3, <3>4
  <2>2. CASE StartFails(c) /\ UNCHANGED history
    BY <1>a, <2>2, SMT DEF StartFails
  <2>3. QED BY <2>1, <2>2 DEF Start
<1>d. \A k \in Callbacks : k # c =>
         bodies'[k] = bodies[k] /\ thread'[k] = thread[k] /\ late'[k] = late[k]
  BY SMT DEF Start, StartThread, StartFails
<1>e. UNCHANGED <<mainVars, flags, last_block, event_set>>
  BY DEF Start
<1>f. /\ unserved' = [unserved EXCEPT ![c] = FALSE] \/ (StartMayFail /\ unserved' = unserved)
      /\ at' \in [Callbacks -> WatchLabels] /\ at'[c] \in {"join", "rest"}
      /\ \A k \in Callbacks : k # c => at'[k] = at[k]
  BY SMT DEF Start, StartFails, WatchGoes, WatchLabels
<1>1. LifecycleTypeOK'
  <2>1. unserved' \in [Callbacks -> BOOLEAN]
    BY <1>f, Zenon
  <2>2. QED BY <1>b, <1>e, <1>f, <2>1
<1>2. NeverTwice' /\ CreatedIsStarting' /\ NotYetWatched' /\ TurnKept'
  <2>1. CreatedIsStarting'
    BY <1>a, <1>c, <1>d, <1>f, SMT DEF CreatedIsStarting
  <2>2. NeverTwice'
    BY <1>c, <1>d, SMT
  <2>3. TurnKept'
    BY <1>e DEF TurnKept
  <2>4. NotYetWatched'
    BY <1>a, <1>d, <1>e, <1>f, OrderFacts, SMT DEF NotYetWatched, Terminating
  <2>5. QED BY <2>1, <2>2, <2>3, <2>4
<1>3. LateIsPast' /\ OneMoreAtMost' /\ PassedRunLate' /\ EventsKept'
  <2>0. Terminating' = Terminating
    BY <1>e DEF Terminating
  <2>1. LateIsPast'
    <3> SUFFICES ASSUME NEW k \in Callbacks, late'[k] > 0
                 PROVE  Terminating' /\ at'[k] \notin {"trigger", "start"}
      BY DEF LateIsPast
    <3>1. CASE k = c
      <4>1. Terminating
        BY ONLY late'[k] > 0, <3>1, <1>c, SMT
      <4>2. at'[k] \notin {"trigger", "start"}
        BY ONLY <3>1, <1>f, SMT
      <4>3. QED BY <4>1, <4>2, <2>0
    <3>2. CASE k # c
      <4>1. late[k] > 0 /\ at'[k] = at[k]
        BY <3>2, <1>d, <1>f
      <4>2. QED BY <4>1, <2>0 DEF LateIsPast
    <3>3. QED BY <3>1, <3>2
  <2>2. OneMoreAtMost'
    <3>1. late'[c] <= 1
      BY ONLY <1>c, SMT
    <3>2. QED BY <1>d, <3>1 DEF OneMoreAtMost
  <2>3. PassedRunLate'
    <3>1. Terminating /\ bodies'[c] > 0 => late'[c] > 0
      BY ONLY <1>c, SMT
    <3>2. QED
      BY ONLY PassedRunLate, <1>e, <2>0, <3>1, <1>d, OrderFacts, SMT DEF PassedRunLate, mainVars
  <2>4. EventsKept'
    <3> SUFFICES ASSUME ~StartMayFail, NEW k \in Events, unserved'[k]
                 PROVE  event_set'[k] \/ Terminating' \/ at'[k] \in {"check", "trigger", "start"}
      BY DEF EventsKept, NoLostEvent
    <3>1. k \in Callbacks /\ unserved' = [unserved EXCEPT ![c] = FALSE]
      BY <1>f DEF Events
    <3>2. k # c /\ unserved[k] /\ at'[k] = at[k] /\ event_set' = event_set
      BY <3>1, <1>e, <1>f, Zenon
    <3>3. QED BY <3>2, <2>0 DEF EventsKept, NoLostEvent
  <2>5. QED BY <2>1, <2>2, <2>3, <2>4
<1>4. QED BY <1>1, <1>2, <1>3

(* An event's thread has waited. *)
LEMMA EventJoinKeeps ==
  ASSUME NEW c \in Callbacks, KeeperInv, EventJoin(c)
  PROVE  KeeperInv'
<1>1. LifecycleTypeOK'
  BY OrderFacts, SMT DEF EventJoin, WatchGoes, Alive, LeaveEvent, JoinReturns, IsAlive,
      ThreadStates, MainLabels, WatchLabels, Statuses
<1>2. NeverTwice' /\ CreatedIsStarting' /\ NotYetWatched' /\ TurnKept'
  BY OrderFacts, SMT DEF EventJoin, WatchGoes, Alive, LeaveEvent, JoinReturns, IsAlive,
      CreatedIsStarting, NotYetWatched, Terminating, TurnKept
<1>3. LateIsPast' /\ OneMoreAtMost' /\ PassedRunLate' /\ EventsKept'
  BY OrderFacts, SMT DEF EventJoin, WatchGoes, Alive, LeaveEvent, JoinReturns, IsAlive, LateIsPast,
      NotYetWatched, OneMoreAtMost, Terminating, PassedRunLate,
      CreatedIsStarting, TurnKept, EventsKept, NoLostEvent, Events
<1>4. QED BY <1>1, <1>2, <1>3

(* A block is reported. *)
LEMMA NewBlockKeeps ==
  ASSUME NEW c \in Callbacks, KeeperInv, NewBlock(c)
  PROVE  KeeperInv'
<1>1. LifecycleTypeOK'
  <2>1. PICK to \in WatchLabels : last_block' = "recent" /\ at' = [at EXCEPT ![c] = to]
    BY DEF NewBlock, WatchGoes, WatchLabels
  <2>2. UNCHANGED <<callbackVars, mainVars, flags, event_set, history>>
    BY DEF NewBlock
  <2>3. QED BY <2>1, <2>2, SMT
<1>2. NeverTwice' /\ CreatedIsStarting' /\ NotYetWatched' /\ TurnKept'
  BY OrderFacts, SMT DEF NewBlock, WatchGoes, Alive, CreatedIsStarting, NotYetWatched, Terminating,
      TurnKept
<1>3. LateIsPast' /\ OneMoreAtMost' /\ PassedRunLate' /\ EventsKept'
  <2>1. LateIsPast' /\ OneMoreAtMost' /\ PassedRunLate'
    BY SMT DEF NewBlock, WatchGoes, LateIsPast, OneMoreAtMost, PassedRunLate, Terminating
  <2>2. c \notin Events /\ \A k \in Callbacks : k # c => at'[k] = at[k]
    BY SMT DEF NewBlock, WatchGoes, Events
  <2>3. \A k \in Events : k \in Callbacks /\ k # c
    BY <2>2 DEF Events
  <2>4. EventsKept'
    BY <2>2, <2>3, SMT DEF NewBlock, EventsKept, NoLostEvent, Terminating
  <2>5. QED BY <2>1, <2>4
<1>4. QED BY <1>1, <1>2, <1>3

(* The block watch ends. *)
LEMMA WatchDiesKeeps ==
  ASSUME NEW c \in Callbacks, KeeperInv, WatchDies(c)
  PROVE  KeeperInv'
<1>1. LifecycleTypeOK'
  BY OrderFacts, SMT DEF WatchDies, WatchGoes, Alive, ThreadStates, MainLabels, WatchLabels,
      Statuses
<1>2. NeverTwice' /\ CreatedIsStarting' /\ NotYetWatched' /\ TurnKept'
  BY OrderFacts, SMT DEF WatchDies, WatchGoes, Alive, CreatedIsStarting, NotYetWatched,
      Terminating, TurnKept
<1>3. LateIsPast' /\ OneMoreAtMost' /\ PassedRunLate' /\ EventsKept'
  <2>1. LateIsPast' /\ OneMoreAtMost' /\ PassedRunLate'
    BY SMT DEF WatchDies, WatchGoes, LateIsPast, OneMoreAtMost, PassedRunLate, Terminating
  <2>2. c \notin Events /\ \A k \in Callbacks : k # c => at'[k] = at[k]
    BY SMT DEF WatchDies, WatchGoes, Events
  <2>3. \A k \in Events : k \in Callbacks /\ k # c
    BY <2>2 DEF Events
  <2>4. EventsKept'
    BY <2>2, <2>3, SMT DEF WatchDies, EventsKept, NoLostEvent, Terminating
  <2>5. QED BY <2>1, <2>4
<1>4. QED BY <1>1, <1>2, <1>3

(* A callback returns. *)
LEMMA CallbackEndsKeeps ==
  ASSUME NEW c \in Callbacks, KeeperInv, CallbackEnds(c)
  PROVE  KeeperInv'
<1>1. LifecycleTypeOK'
  BY OrderFacts, SMT DEF CallbackEnds, BodyEnds, Alive, ThreadStates, MainLabels, WatchLabels,
      Statuses
<1>2. NeverTwice' /\ CreatedIsStarting' /\ NotYetWatched' /\ TurnKept'
  BY OrderFacts, SMT DEF CallbackEnds, BodyEnds, Alive, CreatedIsStarting, NotYetWatched,
      Terminating, TurnKept
<1>3. LateIsPast' /\ OneMoreAtMost' /\ PassedRunLate' /\ EventsKept'
  BY OrderFacts, SMT DEF CallbackEnds, BodyEnds, Alive, LateIsPast, NotYetWatched, OneMoreAtMost,
      Terminating, PassedRunLate, CreatedIsStarting, TurnKept, EventsKept, NoLostEvent,
      Events
<1>4. QED BY <1>1, <1>2, <1>3

(* A callback asks for termination. *)
LEMMA TerminateKeeps ==
  ASSUME NEW c \in Callbacks, KeeperInv, Terminate(c)
  PROVE  KeeperInv'
<1>1. LifecycleTypeOK'
  BY OrderFacts, SMT DEF Terminate, Alive, ThreadStates, MainLabels, WatchLabels, Statuses
<1>2. NeverTwice' /\ CreatedIsStarting' /\ NotYetWatched' /\ TurnKept'
  BY OrderFacts, SMT DEF Terminate, Alive, CreatedIsStarting, NotYetWatched, Terminating, TurnKept
<1>3. LateIsPast' /\ OneMoreAtMost' /\ PassedRunLate' /\ EventsKept'
  BY OrderFacts, SMT DEF Terminate, Alive, LateIsPast, NotYetWatched, OneMoreAtMost, Terminating,
      PassedRunLate, CreatedIsStarting, TurnKept, EventsKept, NoLostEvent, Events
<1>4. QED BY <1>1, <1>2, <1>3

(* An event is set. *)
LEMMA SetEventKeeps ==
  ASSUME NEW c \in Callbacks, KeeperInv, SetEvent(c)
  PROVE  KeeperInv'
<1>1. LifecycleTypeOK'
  BY OrderFacts, SMT DEF SetEvent, Alive, Events, ThreadStates, MainLabels, WatchLabels, Statuses
<1>2. NeverTwice' /\ CreatedIsStarting' /\ NotYetWatched' /\ TurnKept'
  BY OrderFacts, SMT DEF SetEvent, Alive, Events, CreatedIsStarting, NotYetWatched, Terminating,
      TurnKept
<1>3. LateIsPast' /\ OneMoreAtMost' /\ PassedRunLate' /\ EventsKept'
  BY OrderFacts, SMT DEF SetEvent, Alive, Events, LateIsPast, NotYetWatched, OneMoreAtMost,
      Terminating, PassedRunLate, CreatedIsStarting, TurnKept, EventsKept, NoLostEvent
<1>4. QED BY <1>1, <1>2, <1>3

(* A signal arrives. *)
LEMMA SignalKeeps ==
  ASSUME KeeperInv, Signal
  PROVE  KeeperInv'
<1>1. LifecycleTypeOK'
  BY OrderFacts, SMT DEF Signal, ThreadStates, MainLabels, WatchLabels, Statuses
<1>2. NeverTwice' /\ CreatedIsStarting' /\ NotYetWatched' /\ TurnKept'
  BY OrderFacts, SMT DEF Signal, CreatedIsStarting, NotYetWatched, Terminating, TurnKept
<1>3. LateIsPast' /\ OneMoreAtMost' /\ PassedRunLate' /\ EventsKept'
  BY OrderFacts, SMT DEF Signal, LateIsPast, NotYetWatched, OneMoreAtMost, Terminating,
      PassedRunLate, CreatedIsStarting, TurnKept, EventsKept, NoLostEvent, Events
<1>4. QED BY <1>1, <1>2, <1>3

(* No block for a while. *)
LEMMA SilenceKeeps ==
  ASSUME KeeperInv, Silence
  PROVE  KeeperInv'
<1>1. LifecycleTypeOK'
  BY OrderFacts, SMT DEF Silence, Alive, ThreadStates, MainLabels, WatchLabels, Statuses
<1>2. NeverTwice' /\ CreatedIsStarting' /\ NotYetWatched' /\ TurnKept'
  BY OrderFacts, SMT DEF Silence, Alive, CreatedIsStarting, NotYetWatched, Terminating, TurnKept
<1>3. LateIsPast' /\ OneMoreAtMost' /\ PassedRunLate' /\ EventsKept'
  BY OrderFacts, SMT DEF Silence, Alive, LateIsPast, NotYetWatched, OneMoreAtMost, Terminating,
      PassedRunLate, CreatedIsStarting, TurnKept, EventsKept, NoLostEvent, Events
<1>4. QED BY <1>1, <1>2, <1>3

-----------------------------------------------------------------------------

(* Every step keeps the invariant. *)
LEMMA KeeperStep == KeeperInv /\ [LifecycleNext]_lifecycleVars => KeeperInv'
<1> SUFFICES ASSUME KeeperInv, [LifecycleNext]_lifecycleVars PROVE KeeperInv'
  OBVIOUS
<1>1. CASE Main
  BY <1>1, StartupKeeps, StartWatchingKeeps, MainLoopKeeps, WaitKeeps, JoinKeeps, ShutdownKeeps
     DEF Main
<1>2. CASE \E c \in Callbacks : Watch(c)
  <2>1. PICK c \in Callbacks : Watch(c)
    BY <1>2
  <2>2. QED
    BY <2>1, TickKeeps, ClearKeeps, CheckKeeps, TriggerKeeps, StartKeeps, EventJoinKeeps DEF Watch
<1>3. CASE \E c \in Callbacks :
              NewBlock(c) \/ WatchDies(c) \/ CallbackEnds(c) \/ Terminate(c) \/ SetEvent(c)
  BY <1>3, NewBlockKeeps, WatchDiesKeeps, CallbackEndsKeeps, TerminateKeeps, SetEventKeeps
<1>4. CASE Signal \/ Silence
  BY <1>4, SignalKeeps, SilenceKeeps
<1>5. CASE UNCHANGED lifecycleVars
  <2>1. LifecycleTypeOK'
    BY <1>5, SMT DEF lifecycleVars
  <2>2. NeverTwice' /\ CreatedIsStarting' /\ NotYetWatched' /\ TurnKept'
    BY <1>5, SMT DEF lifecycleVars, CreatedIsStarting, NotYetWatched, TurnKept, Terminating
  <2>3. LateIsPast' /\ OneMoreAtMost' /\ PassedRunLate' /\ EventsKept'
    BY <1>5, SMT DEF lifecycleVars, LateIsPast, OneMoreAtMost, PassedRunLate, EventsKept, NoLostEvent,
                     Terminating
  <2>4. QED BY <2>1, <2>2, <2>3
<1>6. QED BY <1>1, <1>2, <1>3, <1>4, <1>5 DEF LifecycleNext

(* The inductive invariant, for any number of callbacks. *)
THEOREM Keeper == LifecycleSpec => []KeeperInv
  BY KeeperStart, KeeperStep, PTL DEF LifecycleSpec

(* A callback never runs twice at once, and the state keeps its types: the *)
(* promise of AsyncCallback.trigger (util.py:121).                         *)
THEOREM KeeperTypes == LifecycleSpec => []LifecycleTypeInv
<1>1. KeeperInv => LifecycleTypeInv
  OBVIOUS
<1>2. QED BY <1>1, Keeper, PTL

(* Each callback is begun at most once after termination was asked for,    *)
(* although the flags are not looked at and acted on in one step           *)
(* (lifecycle.py:339, 406, 434).                                           *)
THEOREM AtMostOneMore == LifecycleSpec => []OneMoreAtMost
<1>1. KeeperInv => OneMoreAtMost
  OBVIOUS
<1>2. QED BY <1>1, Keeper, PTL

(* Callbacks begun before termination have ended when the shutdown         *)
(* function runs (lifecycle.py:166-180).                                   *)
THEOREM ShutdownAwaits == LifecycleSpec => []AwaitedBeforeShutdown
<1>1. KeeperInv => AwaitedBeforeShutdown
  <2> SUFFICES ASSUME KeeperInv, main = "shutdown", NEW c \in Callbacks, bodies[c] > 0
               PROVE  late[c] > 0
    BY DEF AwaitedBeforeShutdown
  <2>1. PICK i \in DOMAIN Order : Order[i] = c
    BY OrderFacts
  <2>2. i < turn
    BY OrderFacts, SMT DEF TurnKept
  <2>3. QED BY <2>1, <2>2, SMT DEF PassedRunLate
<1>2. QED BY <1>1, Keeper, PTL

(* No event is lost between its set and its callback (lifecycle.py:453),   *)
(* if threads can be started.                                              *)
THEOREM EventsAreKept ==
  ASSUME ~StartMayFail
  PROVE  LifecycleSpec => []NoLostEvent
<1>1. KeeperInv => NoLostEvent
  BY DEF EventsKept
<1>2. QED BY <1>1, Keeper, PTL
==============================================================================
