----------------------------- MODULE BaseImages -----------------------------
(***************************************************************************)
(* Which image a GPU worker boots from (ops/gpu_snapshot.py and            *)
(* provision_with_fallback of ops/gpu_pipeline.py), which run bakes a new  *)
(* one, and which are pruned afterwards.                                   *)
(*                                                                         *)
(* An image is [at, hash, regions]: at is its place in the order of        *)
(* creation, hash the digest of the worker's inputs its name holds, or     *)
(* NoHash for a name without one.                                          *)
(***************************************************************************)
EXTENDS Naturals, FiniteSets, Sequences

CONSTANTS
  KeepSnapshots,  \* KEEP_SNAPSHOTS: 2
  Stock,          \* DEFAULT_GPU_IMAGE
  NoHash

ASSUME BaseImagesAssumption == KeepSnapshots \in Nat \ {0}

\* worker_inputs_hash: what the worker is built from.  The store counts with its
\* layout, not with its content, which every bootstrap ships anew.
Hash(inputs) ==
  <<inputs.pinned, inputs.install, inputs.script, inputs.venv, inputs.layout, inputs.series>>

\* select_snapshot: the newest image of the hash and the region.
Matching(images, hash, region) == {i \in images : i.hash = hash /\ region \in i.regions}

Select(images, hash, region) ==
  LET matching == Matching(images, hash, region)
  IN IF matching = {} THEN Stock
     ELSE CHOOSE i \in matching : \A j \in matching : j.at <= i.at

\* snapshot_boot_image: without a hash, the stock image.
BootImage(images, hash, region) == IF hash = NoHash THEN Stock ELSE Select(images, hash, region)

\* provision_with_fallback: the regions of the plan are tried in order, as long as
\* what they miss is stock; <<>> when none has any.
Provisioned(plan, stocked, images, hash) ==
  LET inStock == {k \in DOMAIN plan : plan[k] \in stocked}
  IN IF inStock = {} THEN <<>>
     ELSE LET k == CHOOSE k \in inStock : \A l \in inStock : k <= l
          IN <<plan[k], BootImage(images, hash, plan[k])>>

\* rebake_needed: the run that paid a full bootstrap bakes, or the one that is
\* told to.
RebakeNeeded(mode, image, bootstrapped, reused) ==
  /\ bootstrapped = "yes" /\ mode # "off"
  /\ mode = "bake" \/ (image = Stock /\ reused = "no")

\* prune_snapshots: all but the newest, whatever their hash and region.
Superseded(images) ==
  {i \in images : Cardinality({j \in images : j.at > i.at}) >= KeepSnapshots}
=============================================================================
