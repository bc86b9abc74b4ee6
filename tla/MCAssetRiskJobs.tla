-------------------------- MODULE MCAssetRiskJobs --------------------------
(* Instances of AssetRiskJobs for TLC. *)
EXTENDS AssetRiskJobs

CONSTANTS w1, w2, r1, r2
=============================================================================
