------------------------------- MODULE Lifecycle -------------------------------
(***************************************************************************)
(* Lifecycle of src/pymaker/lifecycle.py: the main thread of a keeper, the *)
(* threads that invoke its callbacks (the block watch, a timer for each    *)
(* `every', a thread for each `on_event') and the callbacks, each in a     *)
(* thread of its own (AsyncCallback).  All of them read the three          *)
(* termination flags; nothing is locked.                                   *)
(***************************************************************************)
EXTENDS AsyncCallback, Sequences

CONSTANTS
    Order,      \* the callbacks as __exit__ waits for them: on_block, every, on_event
    Kind,       \* Kind[c]: "block", "every" or "event"
    RpcMayFail  \* a remote call may raise what the block watch does not catch

ASSUME LifecycleAssumption ==
    /\ Order \in Seq(Callbacks)
    /\ Callbacks = {Order[i] : i \in DOMAIN Order}
    /\ \A i, j \in DOMAIN Order : Order[i] = Order[j] => i = j
    /\ Kind \in [Callbacks -> {"block", "every", "event"}]
    /\ \A i \in DOMAIN Order : Kind[Order[i]] = "block" => i = 1
    /\ RpcMayFail \in BOOLEAN

VARIABLES
    main,                   \* where __exit__ is
    turn,                   \* the callback it starts or waits for
    status,                 \* how the process ended
    terminated_internally,
    terminated_externally,
    fatal_termination,
    last_block,             \* _last_block_time: None, recent, or over 300 s ago

    at,                     \* where the thread that invokes each callback is
    event_set,              \* the threading.Event of each on_event

    unserved,               \* history: set, and no invocation begun since
    late                    \* history: invocations begun after a flag was set

flags == <<terminated_internally, terminated_externally, fatal_termination>>
mainVars == <<main, turn, status>>
watchVars == <<last_block, at, event_set>>
history == <<unserved, late>>
lifecycleVars == <<callbackVars, mainVars, flags, watchVars, history>>

MainLabels == {"init", "starting", "loop", "waiting", "joining", "shutdown", "over"}

WatchLabels == {"off", "rest", "clear", "check", "trigger", "start", "join",
                "unwinding", "dead"}

Statuses == {"running", "exit_0", "exit_10", "account_locked", "startup_error", "join_error",
             "connection_error"}

Blocks == {c \in Callbacks : Kind[c] = "block"}
Events == {c \in Callbacks : Kind[c] = "event"}

Terminating == terminated_internally \/ terminated_externally \/ fatal_termination

(* The process is over with its main thread: all others are daemons.       *)
Alive == main # "over"

LifecycleInit ==
    /\ CallbackInit
    /\ main = "init" /\ turn = 1 /\ status = "running"
    /\ terminated_internally = FALSE
    /\ terminated_externally = FALSE
    /\ fatal_termination = FALSE
    /\ last_block = "None"
    /\ at = [c \in Callbacks |-> "off"]
    /\ event_set = [c \in Callbacks |-> FALSE]
    /\ unserved = [c \in Callbacks |-> FALSE]
    /\ late = [c \in Callbacks |-> 0]

MainGoes(label) == main' = label /\ UNCHANGED status

Over(how) == main' = "over" /\ status' = how

-----------------------------------------------------------------------------
(* The main thread. *)

(* Account, node, delay and initial checks, then the startup function,     *)
(* which may already ask for termination.                                  *)
Startup ==
    /\ main = "init"
    /\ \/ Over("account_locked") /\ UNCHANGED terminated_internally
       \/ Over("startup_error") /\ UNCHANGED terminated_internally
       \/ MainGoes("starting") /\ terminated_internally' \in BOOLEAN
    /\ UNCHANGED <<callbackVars, turn, terminated_externally, fatal_termination,
                   watchVars, history>>

(* The threads that invoke the callbacks are started one after another.    *)
(* That of an event begins with an invocation.                             *)
StartWatching ==
    /\ main = "starting"
    /\ IF turn <= Len(Order)
       THEN /\ LET c == Order[turn]
               IN  at' = [at EXCEPT ![c] = IF Kind[c] = "event" THEN "check" ELSE "rest"]
            /\ turn' = turn + 1
            /\ UNCHANGED <<main, status>>
       ELSE MainGoes("loop") /\ UNCHANGED <<at, turn>>
    /\ UNCHANGED <<callbackVars, flags, last_block, event_set, history>>

(* A mutant: SIGINT and SIGTERM are not looked at. *)
AskedInternally == terminated_internally

AskedToStop == terminated_internally \/ terminated_externally

(* filter_thread_alive: a Thread loses _args when its run ends; when the   *)
(* thread is dead it counts as alive again.                                *)
FilterThreadAlive(c) == at[c] # "unwinding"

(* One turn of _main_loop that leaves it.  Asking a node that is gone      *)
(* whether it is syncing raises out of __exit__.                           *)
MainLoop ==
    /\ main = "loop"
    /\ \/ /\ Order = <<>> \/ AskedToStop
          /\ MainGoes("waiting")
          /\ UNCHANGED fatal_termination
       \/ /\ ~AskedToStop
          /\ \E c \in Blocks : ~FilterThreadAlive(c)
          /\ MainGoes("waiting")
          /\ fatal_termination' = TRUE
       \/ /\ ~AskedToStop
          /\ \A c \in Blocks : FilterThreadAlive(c)
          /\ last_block = "old"
          /\ \/ MainGoes("waiting") /\ fatal_termination' = TRUE
             \/ RpcMayFail /\ Over("connection_error") /\ UNCHANGED fatal_termination
    /\ turn' = 1
    /\ UNCHANGED <<callbackVars, terminated_internally, terminated_externally,
                   watchVars, history>>

(* A mutant: the last callback is not waited for. *)
AllButLast == Len(Order) - 1

LastAwaited == Len(Order)

(* AsyncCallback.wait on the next callback, or the shutdown function. *)
Wait ==
    /\ main = "waiting"
    /\ \/ turn > LastAwaited /\ MainGoes("shutdown") /\ UNCHANGED turn
       \/ /\ turn <= LastAwaited
          /\ IF thread[Order[turn]] = "None"
             THEN turn' = turn + 1 /\ MainGoes("waiting")
             ELSE UNCHANGED turn /\ MainGoes("joining")
    /\ UNCHANGED <<callbackVars, flags, watchVars, history>>

Join ==
    /\ main = "joining"
    /\ \/ JoinReturns(Order[turn]) /\ turn' = turn + 1 /\ MainGoes("waiting")
       \/ JoinRaises(Order[turn]) /\ Over("join_error") /\ UNCHANGED turn
    /\ UNCHANGED <<callbackVars, flags, watchVars, history>>

(* The shutdown function ends, and the process. *)
Shutdown ==
    /\ main = "shutdown"
    /\ Over(IF fatal_termination THEN "exit_10" ELSE "exit_0")
    /\ UNCHANGED <<callbackVars, turn, flags, watchVars, history>>

Main == Startup \/ StartWatching \/ MainLoop \/ Wait \/ Join \/ Shutdown

-----------------------------------------------------------------------------
(* The threads that invoke the callbacks. *)

WatchGoes(c, from, to) == /\ Alive
                          /\ at[c] = from
                          /\ at' = [at EXCEPT ![c] = to]

(* A timer expires, or the wait for an event is over, because it was set   *)
(* or because of the minimum frequency.                                    *)
Tick(c) ==
    /\ \/ Kind[c] = "every" /\ WatchGoes(c, "rest", "check")
       \/ Kind[c] = "event" /\ WatchGoes(c, "rest", "clear")
    /\ UNCHANGED <<callbackVars, mainVars, flags, last_block, event_set, history>>

Clear(c) ==
    /\ WatchGoes(c, "clear", "check")
    /\ event_set' = [event_set EXCEPT ![c] = FALSE]
    /\ UNCHANGED <<callbackVars, mainVars, flags, last_block, history>>

(* The block filter reports a block: it is dealt with, or ignored (the     *)
(* node is syncing, there is a newer one, the filter has to be recreated); *)
(* or a remote call raises something else and the thread ends.             *)
NewBlock(c) ==
    /\ Kind[c] = "block"
    /\ last_block' = "recent"
    /\ \/ WatchGoes(c, "rest", "check")
       \/ WatchGoes(c, "rest", "rest")
       \/ RpcMayFail /\ WatchGoes(c, "rest", "unwinding")
    /\ UNCHANGED <<callbackVars, mainVars, flags, event_set, history>>

(* The thread ends without having seen a block; the thread is gone.        *)
WatchDies(c) ==
    /\ Kind[c] = "block"
    /\ \/ RpcMayFail /\ WatchGoes(c, "rest", "unwinding")
       \/ WatchGoes(c, "unwinding", "dead")
    /\ UNCHANGED <<callbackVars, mainVars, flags, last_block, event_set, history>>

(* A mutant: the flags are not looked at. *)
AlwaysGo == FALSE

Ignored == Terminating

(* Nothing is invoked once a flag is set. *)
Check(c) ==
    /\ WatchGoes(c, "check", IF Ignored THEN "rest" ELSE "trigger")
    /\ UNCHANGED <<callbackVars, mainVars, flags, last_block, event_set, history>>

(* AsyncCallback.trigger.  For an event it is asserted to return True: if  *)
(* not, the thread starts another one in its place.                        *)
Trigger(c) ==
    /\ \/ /\ IsAlive(c)
          /\ WatchGoes(c, "trigger", IF Kind[c] = "event" THEN "check" ELSE "rest")
          /\ UNCHANGED callbackVars
       \/ CreateThread(c) /\ WatchGoes(c, "trigger", "start")
    /\ UNCHANGED <<mainVars, flags, last_block, event_set, history>>

Start(c) ==
    /\ WatchGoes(c, "start", IF Kind[c] = "event" THEN "join" ELSE "rest")
    /\ \/ /\ StartThread(c)
          /\ late' = [late EXCEPT ![c] = IF Terminating THEN @ + 1 ELSE @]
          /\ unserved' = [unserved EXCEPT ![c] = FALSE]
       \/ StartFails(c) /\ UNCHANGED history
    /\ UNCHANGED <<mainVars, flags, last_block, event_set>>

(* A mutant: the event is cleared after the callback instead of before. *)
ClearAfter(c) == event_set' = [event_set EXCEPT ![c] = FALSE]

LeaveEvent(c) == UNCHANGED event_set

(* The thread of an event waits for the invocation. *)
EventJoin(c) ==
    /\ thread[c] = "None" \/ JoinReturns(c)
    /\ WatchGoes(c, "join", "rest")
    /\ LeaveEvent(c)
    /\ UNCHANGED <<callbackVars, mainVars, flags, last_block, history>>

Watch(c) == \/ Tick(c) \/ Clear(c) \/ Check(c) \/ Trigger(c) \/ Start(c) \/ EventJoin(c)

-----------------------------------------------------------------------------
(* The callbacks and the world. *)

CallbackEnds(c) ==
    /\ Alive
    /\ BodyEnds(c)
    /\ UNCHANGED <<mainVars, flags, watchVars, history>>

(* A callback calls terminate. *)
Terminate(c) ==
    /\ Alive
    /\ bodies[c] > 0
    /\ terminated_internally' = TRUE
    /\ UNCHANGED <<callbackVars, mainVars, terminated_externally, fatal_termination,
                   watchVars, history>>

(* SIGINT or SIGTERM, once _main_loop has installed the handlers. *)
Signal ==
    /\ main \in {"loop", "waiting", "joining", "shutdown"}
    /\ terminated_externally' = TRUE
    /\ UNCHANGED <<callbackVars, mainVars, terminated_internally, fatal_termination,
                   watchVars, history>>

(* Another thread of the keeper sets an event. *)
SetEvent(c) ==
    /\ Alive
    /\ c \in Events
    /\ event_set' = [event_set EXCEPT ![c] = TRUE]
    /\ unserved' = [unserved EXCEPT ![c] = TRUE]
    /\ UNCHANGED <<callbackVars, mainVars, flags, last_block, at, late>>

(* 300 seconds without a block. *)
Silence ==
    /\ Alive
    /\ last_block = "recent"
    /\ last_block' = "old"
    /\ UNCHANGED <<callbackVars, mainVars, flags, at, event_set, history>>

LifecycleNext ==
    \/ Main
    \/ \E c \in Callbacks :
          Watch(c) \/ NewBlock(c) \/ WatchDies(c) \/ CallbackEnds(c) \/ Terminate(c) \/ SetEvent(c)
    \/ Signal
    \/ Silence

LifecycleSpec == LifecycleInit /\ [][LifecycleNext]_lifecycleVars
=============================================================================
