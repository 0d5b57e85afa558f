------------------------------ MODULE MCWorker ------------------------------
(***************************************************************************)
(* Worker with up to three pipelines and two droplets.  The choice of the  *)
(* image a worker boots from is checked here too, for every few images.    *)
(***************************************************************************)
EXTENDS Worker, BaseImages

CONSTANTS p1, p2, p3, d1, d2

Regions == {"tor1", "nyc2"}
Hashes == {"now", "before"}
Kind == [hash : Hashes \cup {NoHash}, regions : {{r} : r \in Regions}]
ImageSets ==
  {{[at |-> k, hash |-> kind[k].hash, regions |-> kind[k].regions] : k \in DOMAIN kind} :
     kind \in UNION {[ages -> Kind] : ages \in SUBSET (1 .. 3)}}

\* A worker boots from an image of its own region and of the inputs of its launch,
\* or from the stock image (select_snapshot, provision_with_fallback).
ASSUME BootsWhatItNeeds ==
  \A images \in ImageSets, stocked \in SUBSET Regions, hash \in Hashes \cup {NoHash} :
    LET boot == Provisioned(<<"tor1", "nyc2">>, stocked, images, hash)
    IN (boot # <<>> /\ boot[2] # Stock) =>
         /\ boot[2] \in images
         /\ boot[1] \in stocked \cap boot[2].regions
         /\ boot[2].hash = hash

\* A full bootstrap is paid once: after the bake and the pruning, whichever of
\* its deletions fail, the next launch of unchanged inputs in the region boots
\* from what was baked and bakes nothing (cmd_snapshot, prune_snapshots).
ASSUME BakedIsBooted ==
  \A images \in ImageSets, hash \in Hashes, region \in Regions :
    LET baked == [at |-> 5, hash |-> hash, regions |-> {region}]
        superseded == Superseded(images \cup {baked})
    IN \A failed \in SUBSET superseded :
         LET image == BootImage((images \cup {baked}) \ (superseded \ failed), hash, region)
         IN /\ image = baked
            /\ ~RebakeNeeded("auto", image, "yes", "no")
=============================================================================
