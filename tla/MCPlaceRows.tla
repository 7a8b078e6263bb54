----------------------------- MODULE MCPlaceRows -----------------------------
(* Small instances of PlaceRows. *)
EXTENDS PlaceRows

CONSTANT other

Small == INSTANCE PlaceWorlds
SmallUpstream == Small!SmallUpstream
SmallPatches == Small!SmallPatches
==============================================================================
