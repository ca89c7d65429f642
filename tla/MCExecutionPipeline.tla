------------------------ MODULE MCExecutionPipeline ------------------------
(***************************************************************************)
(* Instances of ExecutionPipeline for TLC, and the refinement of           *)
(* ExecutionLifecycle by the pipeline when every task is submitted once.   *)
(***************************************************************************)
EXTENDS ExecutionPipeline, TLC

\* The document's status is the lifecycle's status, deaths are its restarts.
Lifecycle == INSTANCE ExecutionLifecycle WITH status <- exec, restarts <- deaths

\* The pipeline implements ExecutionLifecycle: whatever the interleaving, the
\* crashes and the failed writes, a document never leaves a verdict or an
\* analysis except to rerun after a worker died.
ImplementsLifecycle == Lifecycle!Spec

\* Workers are interchangeable.
WorkerSymmetry == Permutations(Worker)

=============================================================================
