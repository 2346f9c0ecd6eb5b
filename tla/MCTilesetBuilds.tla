--------------------------- MODULE MCTilesetBuilds ---------------------------
(* Numbered tilesets, which a .cfg cannot write as a range. *)
EXTENDS TilesetBuilds

OneTileset == 1..1
TwoTilesets == 1..2

=============================================================================
