------------------------- MODULE MCQueueGenericSycl -------------------------
(* QueueGenericSycl for TLC.                                               *)
EXTENDS QueueGenericSycl
=============================================================================
