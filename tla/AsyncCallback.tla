----------------------------- MODULE AsyncCallback -----------------------------
(***************************************************************************)
(* AsyncCallback of src/pymaker/util.py: a callback that is invoked in a   *)
(* thread of its own unless the previous invocation still runs, and that   *)
(* another thread may wait for.                                            *)
(*                                                                         *)
(* The attribute `thread' is read and written by two threads, without a    *)
(* lock: the one that triggers and the one that waits.                     *)
(***************************************************************************)
EXTENDS Integers

CONSTANTS
    Callbacks,      \* the AsyncCallback objects
    StartMayFail    \* Thread.start may raise (no thread can be started)

ASSUME CallbackAssumption == StartMayFail \in BOOLEAN

VARIABLES
    thread,         \* the attribute: None, a Thread not yet started, a started one
    bodies          \* how many invocations of the callback are running

callbackVars == <<thread, bodies>>

ThreadStates == {"None", "created", "started"}

CallbackInit ==
    /\ thread = [c \in Callbacks |-> "None"]
    /\ bodies = [c \in Callbacks |-> 0]

(* A mutant: an invocation that has begun is not noticed. *)
OnlyCreated(c) == thread[c] = "created"

(* A mutant: a thread that has ended is not forgotten. *)
HasThread(c) == thread[c] = "started"

IsAlive(c) == thread[c] = "started" /\ bodies[c] > 0

(* trigger, first half: the attribute gets a new Thread. *)
CreateThread(c) ==
    /\ ~IsAlive(c)
    /\ thread' = [thread EXCEPT ![c] = "created"]
    /\ UNCHANGED bodies

(* trigger, second half: the thread is started; if that fails, the         *)
(* attribute is reset and nobody is told.                                  *)
StartThread(c) ==
    /\ thread' = [thread EXCEPT ![c] = "started"]
    /\ bodies' = [bodies EXCEPT ![c] = @ + 1]

StartFails(c) ==
    /\ StartMayFail
    /\ thread' = [thread EXCEPT ![c] = "None"]
    /\ UNCHANGED bodies

(* The callback returns, or raises: the thread ends. *)
BodyEnds(c) ==
    /\ bodies[c] > 0
    /\ bodies' = [bodies EXCEPT ![c] = @ - 1]
    /\ UNCHANGED thread

(* wait: join is called on whatever the attribute is by now, and returns   *)
(* when that thread has ended.                                             *)
JoinReturns(c) == thread[c] = "started" /\ ~IsAlive(c)

JoinRaises(c) == thread[c] # "started"
=============================================================================
