---------------------------- MODULE GasSponsorMC ----------------------------
(* Small instances of GasSponsor for TLC.                                  *)
EXTENDS GasSponsor, TLC

(* The request slots of the backend are interchangeable.                    *)
Interchangeable == Permutations(Relay)

=============================================================================
