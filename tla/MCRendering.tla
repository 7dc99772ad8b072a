---------------------------- MODULE MCRendering ----------------------------
(* Two renders through one Renderer, on each tier. *)
EXTENDS Rendering
AllModes == {"managed", "local", "cloud"}
=============================================================================
