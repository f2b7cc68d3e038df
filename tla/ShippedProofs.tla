--------------------------- MODULE ShippedProofs ---------------------------
(* Theorems about OtaManager with the update slot behind the end of the     *)
(* flash, where bootloader.h puts it: 0x08020000 against a flash of         *)
(* 0x100000 bytes.  This is the layout that LayoutAssumption excludes.      *)
EXTENDS OtaManager, TLAPS

\* Slot B begins behind the last byte of the flash.
SlotBehindFlash == FLASH_TOTAL_SIZE <= APP_SLOT_B_ADDRESS

\* Then flash_erase_page() fails and no firmware in the slot validates.
LEMMA NothingThere ==
    ASSUME SlotBehindFlash
    PROVE  EraseFails(APP_SLOT_B_ADDRESS) /\ \A f : ~ValidFirmware(f, APP_SLOT_B_ADDRESS)
<1>1. ~(APP_SLOT_B_ADDRESS < FLASH_TOTAL_SIZE) /\ APP_SLOT_B_ADDRESS >= FLASH_TOTAL_SIZE
  BY FlashAssumption, BootloaderAssumption DEF SlotBehindFlash
<1>2. EraseFails(APP_SLOT_B_ADDRESS)
  BY <1>1 DEF EraseFails
<1>3. \A f : ~ValidFirmware(f, APP_SLOT_B_ADDRESS)
  BY <1>1, Zenon DEF ValidFirmware
<1> QED
  BY <1>2, <1>3

\* What a step from such a state may do: nothing is received or pending after
\* it, and the flash is as before it.
LEMMA StepOfShipped ==
    ASSUME SlotBehindFlash, NeverReceives, [Next]_vars
    PROVE  NeverReceives' /\ flash' = flash
<1>1. EraseFails(APP_SLOT_B_ADDRESS) /\ ~ValidFirmware(flash, APP_SLOT_B_ADDRESS)
  BY NothingThere
<1>2. ~update_pending /\ ota_state \notin {"WAITING_FOR_START", "RECEIVING_DATA"}
  BY DEF NeverReceives
<1>3. CASE OtaManagerInit
  BY <1>2, <1>3 DEF OtaManagerInit, UpdateState, bootVars, NeverReceives
<1>4. ASSUME NEW total_size \in TotalSizes, NEW chunk_size \in ChunkSizes,
             StartUpdate(total_size, chunk_size)
      PROVE  NeverReceives' /\ flash' = flash
  BY <1>1, <1>2, <1>4 DEF StartUpdate, UpdateState, bootVars, NeverReceives
<1>5. ASSUME NEW chunk_number \in ChunkNumbers, NEW size \in DataSizes, NEW i \in Images,
             ReceiveChunk(chunk_number, size, i)
      PROVE  FALSE
  BY <1>2, <1>5 DEF ReceiveChunk, ChunkAccepted
<1>6. CASE FinalizeUpdate
  BY <1>2, <1>6 DEF FinalizeUpdate
<1>7. CASE ValidateUpdate
  BY <1>2, <1>7 DEF ValidateUpdate, Rejected, Validated, UpdateState, bootVars, NeverReceives
<1>8. CASE AbortUpdate
  BY <1>2, <1>8 DEF AbortUpdate, UpdateState, bootVars, NeverReceives
<1>9. CASE ApplyUpdate
  <2>1. SwitchFails /\ UpdateState("ERROR", "FLASH_ERROR")
    BY <1>2, <1>9 DEF ApplyUpdate, SwitchDone
  <2> QED
    BY <1>2, <2>1 DEF SwitchFails, UpdateState, NeverReceives
<1>10. CASE BootloaderStep
  <2>1. CASE CheckUpdate
    BY <1>1, <1>2, <1>10, <2>1 DEF BootloaderStep, CheckUpdate, otaVars, NeverReceives
  <2>2. CASE Rollback \/ JumpToApp \/ SwitchFails
    BY <1>2, <1>10, <2>2 DEF BootloaderStep, Rollback, JumpToApp, SwitchFails, otaVars, NeverReceives
  <2>3. CASE SwitchDone
    BY <1>2, <2>3 DEF SwitchDone
  <2> QED
    BY <1>10, <2>1, <2>2, <2>3 DEF BootloaderStep
<1>11. CASE UNCHANGED vars
  BY <1>2, <1>11 DEF vars, bootVars, otaVars, NeverReceives
<1> QED
  BY <1>3, <1>4, <1>5, <1>6, <1>7, <1>8, <1>9, <1>10, <1>11 DEF Next

\* As shipped no transfer begins and no update is ever pending: bootloader.h:10
\* and bootloader.h:12, through the erase in ota_manager_start_update() and the
\* validation in bootloader_check_update().
THEOREM NothingIsEverReceived ==
    ASSUME SlotBehindFlash
    PROVE  Spec => []NeverReceives
<1>1. Init => NeverReceives
  BY DEF Init, BootInit, NeverReceives
<1>2. NeverReceives /\ [Next]_vars => NeverReceives'
  BY StepOfShipped
<1> QED
  BY <1>1, <1>2, PTL DEF Spec

\* So no call of the OTA manager or the bootloader changes a byte of the flash.
THEOREM FlashStaysAsBuilt ==
    ASSUME SlotBehindFlash
    PROVE  Spec => [][flash' = flash]_vars
<1>1. NeverReceives /\ [Next]_vars => flash' = flash
  BY StepOfShipped
<1> QED
  BY <1>1, NothingIsEverReceived, PTL DEF Spec
=============================================================================
