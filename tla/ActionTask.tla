------------------------------ MODULE ActionTask ------------------------------
(***************************************************************************)
(* The state machine of one action, core/order/action_task.cpp.            *)
(*                                                                         *)
(* Each C++ state class accepts some transitions and throws                *)
(* VDA5050PPInvalidState on the others, which leaves the state as it was.  *)
(* The state a transition leads to depends on the transition alone, so the *)
(* machine is a target per transition and a set of accepted transitions    *)
(* per state.  "do_*" transitions are made by the scheduler, "is_*"        *)
(* transitions are reported by the AGV's action handler.                   *)
(***************************************************************************)

ActionState ==
  {"Waiting", "Initializing", "InitializingNoEffect", "Running", "Pausing",
   "Resuming", "Paused", "Canceling", "Failed", "Finished"}

\* What the AGV's handler may report through handler::ActionState.
ActionReport ==
  {"is_initializing", "is_running", "is_paused", "is_failed", "is_finished"}

ActionTransition ==
  ActionReport \cup {"do_start", "do_pause", "do_resume", "do_cancel"}

\* The state constructed by the branch that accepts the transition.
ActionTarget ==
  [t \in ActionTransition |->
     CASE t = "do_start"        -> "Initializing"
       [] t = "do_pause"        -> "Pausing"
       [] t = "do_resume"       -> "Resuming"
       [] t = "do_cancel"       -> "Canceling"
       [] t = "is_initializing" -> "InitializingNoEffect"
       [] t = "is_running"      -> "Running"
       [] t = "is_paused"       -> "Paused"
       [] t = "is_failed"       -> "Failed"
       [] t = "is_finished"     -> "Finished"]

\* The transitions a state's switch has a case for.
ActionAccepts ==
  [Waiting              |-> {"do_start", "do_cancel"},
   Initializing         |-> {"is_initializing", "is_running", "is_paused",
                             "is_failed", "is_finished", "do_pause", "do_cancel"},
   InitializingNoEffect |-> {"is_initializing", "is_running", "is_paused",
                             "is_failed", "is_finished", "do_pause", "do_cancel"},
   Running              |-> {"is_failed", "is_finished", "do_pause", "do_cancel"},
   Pausing              |-> {"is_paused", "is_failed", "do_cancel"},
   Resuming             |-> {"is_initializing", "is_running", "is_failed", "do_cancel"},
   Paused               |-> {"is_initializing", "is_running", "is_failed",
                             "do_resume", "do_cancel"},
   Canceling            |-> {"is_failed", "is_finished"},
   Failed               |-> {},
   Finished             |-> {}]

\* ActionStateT<terminal, paused> of the state classes.
ActionTerminal == {"Failed", "Finished"}
ActionPaused   == {"Resuming", "Paused"}
===============================================================================
