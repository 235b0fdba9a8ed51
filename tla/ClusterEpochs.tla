--------------------------- MODULE ClusterEpochs ---------------------------
(***************************************************************************)
(* What the parts of a cluster's failover share: the NIDs of its nodes and *)
(* the epochs that fence its owners.                                       *)
(***************************************************************************)
EXTENDS Integers

CONSTANTS
  Nid,       \* NIDs that announce themselves, send frames or own the cluster
  MaxEpoch   \* model bound: the highest epoch used

ASSUME EpochAssumption == MaxEpoch \in Nat \ {0}

Epoch == 1 .. MaxEpoch

Higher(e, f) == IF e > f THEN e ELSE f

\* A cluster's owner as others know it (ClusterAnchorInfo); epoch 0 stands for
\* "no owner known".
ClusterAnchorInfo == [activeNid : Nid, clusterEpoch : Epoch]
None == [activeNid |-> "none", clusterEpoch |-> 0]
=============================================================================
