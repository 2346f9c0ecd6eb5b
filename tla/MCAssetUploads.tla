---------------------------- MODULE MCAssetUploads ----------------------------
(* One asset and whatever two uploadComplete requests, a PutObject, the       *)
(* expiry and a delete may do to it; its owner may have one upload awaiting.  *)
EXTENDS AssetUploads

CONSTANTS a1, c1, c2

=============================================================================
