----------------------------- MODULE MCPipeline -----------------------------
(* The instance of Pipeline for TLC. *)
EXTENDS Pipeline

\* One goroutine per process.
OneEach == CHOOSE f \in [Worker -> Process] :
             \A v, w \in Worker : f[v] = f[w] => v = w

\* All notifications belong to one user, whose events share a partition.
OneUser == [n \in Notification |-> CHOOSE p \in Partition : TRUE]

\* A worker process dies, one is told to stop, an event is written twice, a
\* fetch or a commit fails.
PipelineBudget ==
  [f \in Fault |->
     IF f \in {"crash", "stop", "duplicate", "broker"} THEN 1 ELSE 0]
=============================================================================
