------------------------------- MODULE MCPool -------------------------------
(* Instances of Pool for TLC. *)
EXTENDS Pool, TLC

\* Every goroutine belongs to the same process.
OnePool == [w \in Worker |-> CHOOSE i \in Process : TRUE]

\* One goroutine per process.
OneEach == CHOOSE f \in [Worker -> Process] :
             \A v, w \in Worker : f[v] = f[w] => v = w

\* All notifications belong to one user, whose events share a partition.
OneUser == [n \in Notification |-> CHOOSE p \in Partition : TRUE]

Faults(crash, stop, rebalance, db, broker, duplicate, poison) ==
  [f \in Fault |->
     CASE f = "crash" -> crash
       [] f = "stop" -> stop
       [] f = "rebalance" -> rebalance
       [] f = "db" -> db
       [] f = "broker" -> broker
       [] f = "duplicate" -> duplicate
       [] f = "poison" -> poison]

WorkersBudget == Faults(1, 1, 0, 1, 1, 0, 0)

GroupBudget == Faults(1, 1, 1, 0, 0, 1, 1)

NoFaults == Faults(0, 0, 0, 0, 0, 0, 0)

OneStop == Faults(0, 1, 0, 0, 0, 0, 0)

Symmetry == Permutations(Worker)
=============================================================================
