---------------------------- MODULE MCBlockingQueue ----------------------------
(* Four threads: two can sleep while two push, or one pushes and one pops.  *)
EXTENDS BlockingQueue
===============================================================================
