------------------------------- MODULE MCLchan -------------------------------
(* Instances of Lchan: a lone SDCCH, and an SDCCH beside a TCH/F. *)
EXTENDS Lchan, TLC

CONSTANTS sdcch, tchf   \* model values: the channels

OneSdcch == sdcch :> "SDCCH"
SdcchAndTch == (sdcch :> "SDCCH") @@ (tchf :> "TCH_F")

\* Whatever may go wrong.
AllFaults == FaultKinds

=============================================================================
