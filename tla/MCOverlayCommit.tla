--------------------------- MODULE MCOverlayCommit ---------------------------
(* Two templates, one of them with a subpackage.                           *)
EXTENDS OverlayCommit

MCSrc   == {"mesa", "zlib"}
MCBins  == {"mesa", "mesa-dri", "zlib"}
MCSrcOf == [b \in MCBins |-> IF b = "zlib" THEN "zlib" ELSE "mesa"]
=============================================================================
