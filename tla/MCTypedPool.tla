----------------------------- MODULE MCTypedPool -----------------------------
(* A typed pool with one worker and one job.                                     *)
EXTENDS TypedPool

OneWorker == <<[types |-> <<"RealTime", "Batch">>]>>
OneJob == <<[type |-> "Batch", kind |-> "typed"]>>
=============================================================================
