------------------------------- MODULE MCOta -------------------------------
(* Instances of OtaManager whose slots lie inside the flash.               *)
EXTENDS MCOtaImages, OtaLayout
=============================================================================
