----------------------------- MODULE OtaLayout -----------------------------
(***************************************************************************)
(* OtaManager with slots that lie inside the simulated flash, as the       *)
(* header comments of bootloader.h mean them to.  The addresses in that    *)
(* file do not: run OtaShipped checks those, without this assumption.      *)
(***************************************************************************)
EXTENDS OtaManager

ASSUME LayoutAssumption ==
    /\ APP_SLOT_A_ADDRESS + HEADER_SIZE <= APP_SLOT_B_ADDRESS
    /\ APP_SLOT_B_ADDRESS + HEADER_SIZE <= FLASH_TOTAL_SIZE
    /\ APP_SLOT_B_ADDRESS % FLASH_PAGE_SIZE = 0
=============================================================================
