-------------------------- MODULE MCDownloadObject --------------------------
(* Instances of DownloadObject for TLC.                                    *)
EXTENDS DownloadObject, TLC

CONSTANTS d1, d2

\* A multiple of the chunk length, and not.
Sizes == d1 :> 4 @@ d2 :> 5
=============================================================================
