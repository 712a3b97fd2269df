----------------------------- MODULE MCStorage ------------------------------
(* In the large instance two chunks share a batch.  In the other, as with   *)
(* MAX_BATCH_PAYLOAD of 900 KiB and chunks of 768 KiB, none do.             *)
EXTENDS Storage, TLC

MCChunkSize == [i \in Indices |-> 1]
RepushChunkSize == [i \in Indices |-> 2]

\* No property is a liveness property, and cores and processes are alike.
Alike == Permutations(Cores) \cup Permutations(Procs)

=============================================================================
