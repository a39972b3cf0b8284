--------------------------- MODULE MCRegistryRace ---------------------------
(***************************************************************************)
(* RegistryRace on the instances of MCRegistry.                            *)
(***************************************************************************)
EXTENDS MCRegistry, RegistryRace
=============================================================================
