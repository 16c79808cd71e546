----------------------------- MODULE MCLifecycle -----------------------------
(***************************************************************************)
(* Small instances of Lifecycle: one callback of each kind, or a second    *)
(* event in place of the timer.                                            *)
(***************************************************************************)
EXTENDS LifecycleProps

CONSTANTS block, timer, event

AllThree == <<block, timer, event>>

BlockAndEvent == <<block, event>>

BlockOnly == <<block>>

MCKind == [c \in Callbacks |->
              CASE c = block -> "block" [] c = timer -> "every" [] c = event -> "event"]
=============================================================================
