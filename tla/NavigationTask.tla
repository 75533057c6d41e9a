---------------------------- MODULE NavigationTask ----------------------------
(***************************************************************************)
(* The state machine of the navigation to one node,                        *)
(* core/order/navigation_task.cpp.  As for actions, the target depends on  *)
(* the transition alone and a transition without a case throws.            *)
(*                                                                         *)
(* "to_seq_id" carries a sequence id and is accepted only for the task's   *)
(* own goal; "is_resumed", "is_paused", "is_failed" and "to_seq_id" are    *)
(* reported by the AGV's navigation handler.                               *)
(***************************************************************************)

NavState ==
  {"Waiting", "FirstInProgress", "InProgress", "Pausing", "Paused",
   "Resuming", "Canceling", "Failed", "Done"}

NavReport == {"is_paused", "is_resumed", "is_failed", "to_seq_id"}

NavTransition ==
  NavReport \cup {"do_start", "do_pause", "do_resume", "do_cancel"}

NavTarget ==
  [t \in NavTransition |->
     CASE t = "do_start"   -> "FirstInProgress"
       [] t = "do_pause"   -> "Pausing"
       [] t = "do_resume"  -> "Resuming"
       [] t = "do_cancel"  -> "Canceling"
       [] t = "is_resumed" -> "InProgress"
       [] t = "is_paused"  -> "Paused"
       [] t = "is_failed"  -> "Failed"
       [] t = "to_seq_id"  -> "Done"]

NavAccepts ==
  [Waiting         |-> {"do_start", "do_cancel", "is_failed"},
   FirstInProgress |-> {"do_cancel", "do_pause", "is_failed", "is_paused", "to_seq_id"},
   InProgress      |-> {"do_cancel", "do_pause", "is_failed", "is_paused", "to_seq_id"},
   Pausing         |-> {"do_cancel", "is_paused", "is_failed", "to_seq_id"},
   Paused          |-> {"do_cancel", "do_resume", "is_resumed", "is_failed"},
   Resuming        |-> {"do_cancel", "is_resumed", "is_failed", "is_paused"},
   Canceling       |-> {"is_failed", "to_seq_id"},
   Failed          |-> {},
   Done            |-> {}]

\* NavigationStateT<terminal, failed, paused> of the state classes.
NavTerminal == {"Failed", "Done"}
NavPaused   == {"Paused", "Resuming"}
===============================================================================
