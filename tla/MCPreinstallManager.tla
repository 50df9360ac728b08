------------------------- MODULE MCPreinstallManager ------------------------
(* One version of two packages, for TLC.                                    *)
EXTENDS PreinstallManager

OneVersion == <<<<1, 0, 0, 0>>>>
=============================================================================
