------------------------- MODULE MCServerLifecycle -------------------------
(* Two servers race for one process; clients ask for three versions. *)
EXTENDS ServerLifecycle
=============================================================================
