------------------------- MODULE MCCancellationToken -------------------------
(* CancellationToken for TLC: a job token linked to a worker and a pool token, *)
(* the worker token itself linked to the pool token.                           *)
EXTENDS CancellationToken

CONSTANTS pool, worker, job

PoolWorkerJob == {<<pool, worker>>, <<pool, job>>, <<worker, job>>}
===============================================================================
