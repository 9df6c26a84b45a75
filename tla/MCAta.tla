-------------------------------- MODULE MCAta --------------------------------
(***************************************************************************)
(* Model-checking instances of Ata.                                        *)
(***************************************************************************)
EXTENDS Ata
==============================================================================
