------------------------- MODULE MCConfigResolution -------------------------
(* ConfigResolution with a secret and an identifier that must be a GUID.    *)
EXTENDS ConfigResolution
=============================================================================
