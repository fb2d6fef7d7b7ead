--------------------------- MODULE MCExtendTable ---------------------------
(***************************************************************************)
(* An instance of ExtendTable for TLC.  There are more names than ids, so  *)
(* that ids run out and are reused.                                        *)
(***************************************************************************)
EXTENDS ExtendTable

CONSTANTS g1, g2, g3, g4

MCNames == {g1, g2, g3, g4}
=============================================================================
