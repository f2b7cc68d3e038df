----------------------------- MODULE Bootloader -----------------------------
(***************************************************************************)
(* src/ota/bootloader.c: two application slots in one flash, the header of *)
(* the running image and of the update, and the switch between the slots.  *)
(* Left out, because no code reads them back: last_error, boot_count,      *)
(* rollback_requested and last_boot_time.                                  *)
(***************************************************************************)
EXTENDS Flash

CONSTANTS
    APP_SLOT_A_ADDRESS,
    APP_SLOT_B_ADDRESS,   \* the OTA slot
    FactoryA, FactoryB    \* the compiled-in images simulated_firmware_a and _b

ASSUME BootloaderAssumption ==
    /\ APP_SLOT_A_ADDRESS \in Nat /\ APP_SLOT_B_ADDRESS \in Nat
    /\ APP_SLOT_A_ADDRESS < APP_SLOT_B_ADDRESS
    /\ FactoryA \in Images /\ FactoryB \in Images

VARIABLES
    flash,           \* flash_memory
    boot_state,      \* bootloader_ctx.state
    active_slot,     \* bootloader_ctx.active_slot
    active_header,   \* bootloader_ctx.active_header
    update_header,   \* bootloader_ctx.update_header
    update_pending   \* bootloader_ctx.update_pending

bootVars == <<boot_state, active_slot, active_header, update_header, update_pending>>

Slots == {APP_SLOT_A_ADDRESS, APP_SLOT_B_ADDRESS}

BootTypeOK ==
    /\ flash \in Flash
    /\ boot_state \in {"INIT", "CHECK_UPDATE", "JUMP_TO_APP", "UPDATE_IN_PROGRESS", "ERROR"}
    /\ active_slot \in Slots
    /\ active_header \in Header
    /\ update_header \in Header
    /\ update_pending \in BOOLEAN

\* bootloader_init(), called once when the program starts: the arrays hold the headers of
\* the factory images only, the rest of the flash is erased.  The memcpy() of a header to an
\* address outside the array, as bootloader.h has both, is undefined behaviour; here it
\* writes nothing in the array.
FactoryByte(x) ==
    IF x \in APP_SLOT_A_ADDRESS .. APP_SLOT_A_ADDRESS + HEADER_SIZE - 1
    THEN <<FactoryA, x - APP_SLOT_A_ADDRESS>>
    ELSE IF x \in APP_SLOT_B_ADDRESS .. APP_SLOT_B_ADDRESS + HEADER_SIZE - 1
         THEN <<FactoryB, x - APP_SLOT_B_ADDRESS>>
         ELSE Erased

BootInit ==
    /\ flash = [x \in Addresses |-> FactoryByte(x)]
    /\ boot_state = "INIT"
    /\ active_slot = APP_SLOT_A_ADDRESS
    /\ active_header \in HeadersAt(flash, APP_SLOT_A_ADDRESS)
    /\ update_header = ZeroHeader
    /\ update_pending = FALSE

\* bootloader_check_update().
CheckUpdate ==
    /\ boot_state' = "CHECK_UPDATE"
    /\ \/ /\ ValidFirmware(flash, APP_SLOT_B_ADDRESS)
          /\ update_header' \in HeadersAt(flash, APP_SLOT_B_ADDRESS)
          /\ update_pending' = (update_header'.version > active_header.version)
       \/ /\ ~ValidFirmware(flash, APP_SLOT_B_ADDRESS)
          /\ update_pending' = FALSE
          /\ UNCHANGED update_header
    /\ UNCHANGED <<flash, active_slot, active_header>>

\* bootloader_switch_to_update() without success: nothing is pending, or slot B
\* does not validate.
SwitchFails ==
    /\ ~update_pending \/ ~ValidFirmware(flash, APP_SLOT_B_ADDRESS)
    /\ boot_state' = IF update_pending THEN "ERROR" ELSE boot_state
    /\ UNCHANGED <<flash, active_slot, active_header, update_header, update_pending>>

\* Mutant: the update stays pending.
SwitchDone_StaysPending ==
    /\ update_pending
    /\ ValidFirmware(flash, APP_SLOT_B_ADDRESS)
    /\ boot_state' = "UPDATE_IN_PROGRESS"
    /\ active_slot' = APP_SLOT_B_ADDRESS
    /\ active_header' = update_header
    /\ UNCHANGED <<flash, update_header, update_pending>>

\* BOOT_OK: the header loaded by the last bootloader_check_update() becomes the
\* active one.
SwitchDone ==
    /\ update_pending
    /\ ValidFirmware(flash, APP_SLOT_B_ADDRESS)
    /\ boot_state' = "UPDATE_IN_PROGRESS"
    /\ active_slot' = APP_SLOT_B_ADDRESS
    /\ active_header' = update_header
    /\ update_pending' = FALSE
    /\ UNCHANGED <<flash, update_header>>

\* bootloader_rollback(); when slot A does not validate it changes nothing.
Rollback ==
    /\ ValidFirmware(flash, APP_SLOT_A_ADDRESS)
    /\ active_slot' = APP_SLOT_A_ADDRESS
    /\ active_header' \in HeadersAt(flash, APP_SLOT_A_ADDRESS)
    /\ UNCHANGED <<flash, boot_state, update_header, update_pending>>

\* bootloader_jump_to_app(), which only records the jump; an address that is no
\* slot changes nothing.
JumpToApp ==
    /\ boot_state' = "JUMP_TO_APP"
    /\ UNCHANGED <<flash, active_slot, active_header, update_header, update_pending>>
=============================================================================
