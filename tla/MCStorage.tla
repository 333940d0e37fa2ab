----------------------------- MODULE MCStorage ------------------------------
(***************************************************************************)
(* The disk driver and the buffer cache for TLC.  The cache sees the disk  *)
(* as what the driver implements, so they share no state here: Init        *)
(* chooses the part that is explored, and the other stays at its start.    *)
(***************************************************************************)
EXTENDS Bio, TLC

CONSTANTS b1, b2, k1, k2, k3, p1, p2, w1, w2, t1, t2, t3, v1, v2

VARIABLES
  part,
  free, desc, info, avail, availIdx, used, usedIdx, seen, taken, work, irq, intr, owned,
  dma, blocks, vpc, write, idx, vpanic

diskvars == <<free, desc, info, avail, availIdx, used, usedIdx, seen, taken, work, irq, intr,
              owned, dma, blocks, vpc, write, idx, vpanic>>

Drv == INSTANCE VirtioDisk WITH
  Threads <- {t1, t2, t3}, Contents <- {v1, v2}, NUM <- 7, Uint16 <- 7, Statuses <- {0, 1},
  data <- dma, platter <- blocks, pc <- vpc, panicked <- vpanic

StorageInit ==
  /\ part \in {"disk", "cache"}
  /\ Init /\ Drv!Init
  /\ part # "disk" => blocks = [t \in {t1, t2, t3} |-> v1]
  /\ part # "cache" => data = [b \in Bufs |-> w1] /\ platter = [k \in Blocks |-> w1]

StorageNext ==
  \/ part = "disk" /\ Drv!Next /\ UNCHANGED <<part, vars>>
  \/ part = "cache" /\ Next /\ UNCHANGED <<part, diskvars>>

StorageSpec == StorageInit /\ [][StorageNext]_<<part, vars, diskvars>>

Symmetry == Permutations({t1, t2, t3}) \cup Permutations({v1, v2})

-----------------------------------------------------------------------------
(* The properties of the driver *)

\* VirtioDisk's RequestServed: the driver implements DiskService.
RequestServed == Drv!RequestServed

\* VirtioDisk's DescriptorsOwned: no descriptor leaks or is shared.
DescriptorsOwned == Drv!DescriptorsOwned

\* VirtioDisk's CompletionNoticed: no completion is missed.
CompletionNoticed == Drv!CompletionNoticed
=============================================================================
