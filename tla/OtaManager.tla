----------------------------- MODULE OtaManager -----------------------------
(***************************************************************************)
(* src/ota/ota_manager.c on top of the bootloader: a firmware image is     *)
(* received in numbered chunks, written to slot B as it arrives, validated *)
(* and handed to the bootloader.                                           *)
(*                                                                         *)
(* The caller (a transport that is not in the repository) numbers the      *)
(* chunks from 0 and takes chunk n from byte n * chunk_size of an image; a *)
(* chunk may be short, may be repeated, lost, or come from another image   *)
(* than the one before.  A call that fails before it changes anything is   *)
(* no step of the model.  Left out, because no code reads them:            *)
(* abort_requested, start_time, last_activity_time, timeout_ms, the        *)
(* counters behind the statistics, and firmware_header outside of the      *)
(* validation that loads it.                                               *)
(***************************************************************************)
EXTENDS Bootloader, Sequences

CONSTANTS
    UINT,         \* number of values of a uint32_t (2^32)
    MAX_CHUNK,    \* largest chunk_size that is accepted (1024)
    TotalSizes,   \* total_size arguments of ota_manager_start_update()
    ChunkSizes,   \* its chunk_size arguments
    DataSizes,    \* the sizes of the chunks that arrive
    ChunkNumbers  \* the chunk numbers that arrive

ASSUME OtaAssumption ==
    /\ UINT \in Nat /\ FLASH_TOTAL_SIZE < UINT /\ APP_SLOT_B_ADDRESS < UINT
    /\ TotalSizes \subseteq 0 .. UINT - 1
    /\ ChunkSizes \subseteq 0 .. UINT - 1 /\ DataSizes \subseteq 0 .. UINT - 1
    /\ ChunkNumbers \subseteq 0 .. UINT - 1
    /\ MAX_CHUNK \in Nat

VARIABLES
    ota_state,          \* ota_ctx.state
    last_error,         \* ota_ctx.last_error
    chunk_info,         \* ota_ctx.chunk_info without total_chunks, which is only printed
    restart_required,   \* ota_ctx.restart_required
    progress_percent,   \* ota_ctx.progress_percent
    accepted            \* history: the bytes of the chunks accepted since the last start

otaVars == <<ota_state, last_error, chunk_info, restart_required, progress_percent, accepted>>
vars == <<flash, bootVars, otaVars>>

ChunkInfo == [total_size : 0 .. UINT - 1, chunk_size : 0 .. UINT - 1,
              received_bytes : 0 .. UINT - 1, next_expected_chunk : 0 .. UINT - 1]

OtaStates == {"IDLE", "WAITING_FOR_START", "RECEIVING_DATA", "UPDATING", "COMPLETE", "ERROR"}
OtaErrors == {"NONE", "CRC_MISMATCH", "FLASH_ERROR", "COMMUNICATION", "VALIDATION_FAILED"}

\* The bytes that the size check leaves to an update, FLASH_TOTAL_SIZE -
\* APP_SLOT_B_ADDRESS as the comparison with a uint32_t converts it.
UpdateArea == IF FLASH_TOTAL_SIZE >= APP_SLOT_B_ADDRESS
              THEN FLASH_TOTAL_SIZE - APP_SLOT_B_ADDRESS
              ELSE UINT + FLASH_TOTAL_SIZE - APP_SLOT_B_ADDRESS

\* memset(&ota_ctx, 0, ...).
ZeroChunkInfo == [total_size |-> 0, chunk_size |-> 0, received_bytes |-> 0, next_expected_chunk |-> 0]

Init ==
    /\ BootInit
    /\ ota_state = "IDLE"
    /\ last_error = "NONE"
    /\ chunk_info = ZeroChunkInfo
    /\ restart_required = FALSE
    /\ progress_percent = 0
    /\ accepted = <<>>

\* update_state().
UpdateState(state, error) == ota_state' = state /\ last_error' = error

\* ota_manager_init(), which may be called again.
OtaManagerInit ==
    /\ UpdateState("IDLE", "NONE")
    /\ chunk_info' = ZeroChunkInfo
    /\ restart_required' = FALSE
    /\ progress_percent' = 0
    /\ accepted' = <<>>
    /\ UNCHANGED <<flash, bootVars>>

-----------------------------------------------------------------------------
(* ota_manager_start_update().                                             *)

SizesAccepted(total_size, chunk_size) ==
    /\ total_size # 0 /\ chunk_size # 0 /\ chunk_size <= MAX_CHUNK
    /\ total_size <= UpdateArea

\* It erases the one page at APP_SLOT_B_ADDRESS, whatever the total size.
StartUpdate(total_size, chunk_size) ==
    /\ ota_state = "IDLE"
    /\ SizesAccepted(total_size, chunk_size)
    /\ chunk_info' = [ZeroChunkInfo EXCEPT !.total_size = total_size, !.chunk_size = chunk_size]
    /\ restart_required' = FALSE
    /\ accepted' = <<>>
    /\ \/ /\ EraseFails(APP_SLOT_B_ADDRESS)
          /\ UpdateState("ERROR", "FLASH_ERROR")
          /\ UNCHANGED <<flash, progress_percent>>
       \/ /\ ~EraseFails(APP_SLOT_B_ADDRESS)
          /\ flash' = PageErased(flash, APP_SLOT_B_ADDRESS)
          /\ UpdateState("WAITING_FOR_START", "NONE")
          /\ progress_percent' = 0
    /\ UNCHANGED bootVars

-----------------------------------------------------------------------------
(* ota_manager_receive_chunk().                                            *)

\* Mutant: the size of the chunk is not compared with what is left.
ChunkAccepted_NoTotalCheck(chunk_number, size) ==
    /\ ota_state \in {"WAITING_FOR_START", "RECEIVING_DATA"}
    /\ chunk_number = chunk_info.next_expected_chunk
    /\ size # 0 /\ size <= chunk_info.chunk_size

\* Mutant: a chunk is taken whatever its number.
ChunkAccepted_AnyNumber(chunk_number, size) ==
    /\ ota_state \in {"WAITING_FOR_START", "RECEIVING_DATA"}
    /\ size # 0 /\ size <= chunk_info.chunk_size
    /\ chunk_info.received_bytes + size <= chunk_info.total_size

\* The four checks; received_bytes + size does not wrap, since received_bytes
\* is at most the size of the update area and size at most MAX_CHUNK.
ChunkAccepted(chunk_number, size) ==
    /\ ota_state \in {"WAITING_FOR_START", "RECEIVING_DATA"}
    /\ chunk_number = chunk_info.next_expected_chunk
    /\ size # 0 /\ size <= chunk_info.chunk_size
    /\ chunk_info.received_bytes + size <= chunk_info.total_size

\* Mutant: the address follows the chunk number, not the bytes received.
WriteAddress_ByNumber == APP_SLOT_B_ADDRESS + chunk_info.next_expected_chunk * chunk_info.chunk_size

\* Mutant: the offset in the image is taken for an address.
WriteAddress_NoBase == chunk_info.received_bytes

WriteAddress == APP_SLOT_B_ADDRESS + chunk_info.received_bytes

\* "size" bytes of image i arrive as chunk "chunk_number".  When a word fails,
\* the words before it stay written and the counters do not move.
ReceiveChunk(chunk_number, size, i) ==
    LET offset == chunk_number * chunk_info.chunk_size
    IN  /\ ChunkAccepted(chunk_number, size)
        /\ flash' = ChunkWritten(flash, WriteAddress, size, i, offset)
        /\ \/ /\ FailingWords(flash, WriteAddress, size) # {}
              /\ UpdateState("ERROR", "FLASH_ERROR")
              /\ UNCHANGED <<chunk_info, progress_percent, accepted>>
           \/ /\ FailingWords(flash, WriteAddress, size) = {}
              /\ UpdateState("RECEIVING_DATA", "NONE")
              /\ chunk_info' = [chunk_info EXCEPT !.received_bytes = @ + size,
                                                  !.next_expected_chunk = @ + 1]
              /\ progress_percent' =
                    ((chunk_info.received_bytes + size) * 100) \div chunk_info.total_size
              /\ accepted' = accepted \o [k \in 1 .. size |-> <<i, offset + k - 1>>]
        /\ UNCHANGED <<bootVars, restart_required>>

-----------------------------------------------------------------------------
(* ota_manager_validate_update(), by outcome.  It has no guard on the      *)
(* state: a caller may run it at any time.                                 *)

HeaderMatches(header) == HeaderAccepted(header) /\ header.size = chunk_info.total_size

\* Mutant: the payload is not looked at.
PayloadVerdicts_NoCrc(header) == {TRUE}

PayloadVerdicts(header) == CrcVerdicts(flash, APP_SLOT_B_ADDRESS, header)

\* The last alternative is validate_callback() saying no.
ErrorOf(header, error) ==
    \/ ~HeaderMatches(header) /\ error = "VALIDATION_FAILED"
    \/ HeaderMatches(header) /\ FALSE \in PayloadVerdicts(header) /\ error = "CRC_MISMATCH"
    \/ HeaderMatches(header) /\ TRUE \in PayloadVerdicts(header) /\ error = "VALIDATION_FAILED"

Rejected ==
    /\ \E header \in HeadersAt(flash, APP_SLOT_B_ADDRESS), error \in OtaErrors :
            ErrorOf(header, error) /\ UpdateState("ERROR", error)
    /\ UNCHANGED restart_required

Validated ==
    /\ \E header \in HeadersAt(flash, APP_SLOT_B_ADDRESS) :
            HeaderMatches(header) /\ TRUE \in PayloadVerdicts(header)
    /\ UpdateState("COMPLETE", "NONE")
    /\ progress_percent' = 100
    /\ restart_required' = TRUE

ValidateUpdate ==
    /\ \/ Rejected /\ UNCHANGED progress_percent
       \/ Validated
    /\ UNCHANGED <<flash, bootVars, chunk_info, accepted>>

\* ota_manager_finalize_update(): the state VALIDATING, with progress 95, is
\* left again before the call returns.
FinalizeUpdate ==
    /\ ota_state = "RECEIVING_DATA"
    /\ chunk_info.received_bytes = chunk_info.total_size
    /\ \/ Rejected /\ progress_percent' = 95
       \/ Validated
    /\ UNCHANGED <<flash, bootVars, chunk_info, accepted>>

\* ota_manager_abort_update(): in any state.
AbortUpdate ==
    /\ UpdateState("ERROR", "COMMUNICATION")
    /\ UNCHANGED <<flash, bootVars, chunk_info, restart_required, progress_percent, accepted>>

\* ota_manager_apply_update(), with the bootloader's switch as its middle.
ApplyUpdate ==
    /\ ota_state = "COMPLETE"
    /\ \/ /\ SwitchFails
          /\ UpdateState("ERROR", "FLASH_ERROR")
          /\ UNCHANGED restart_required
       \/ /\ SwitchDone
          /\ UpdateState("UPDATING", "NONE")
          /\ restart_required' = TRUE
    /\ UNCHANGED <<chunk_info, progress_percent, accepted>>

-----------------------------------------------------------------------------
\* The bootloader's operations that the application calls directly.
BootloaderStep ==
    /\ CheckUpdate \/ Rollback \/ JumpToApp \/ SwitchFails \/ SwitchDone
    /\ UNCHANGED otaVars

Next ==
    \/ OtaManagerInit
    \/ \E total_size \in TotalSizes, chunk_size \in ChunkSizes : StartUpdate(total_size, chunk_size)
    \/ \E chunk_number \in ChunkNumbers, size \in DataSizes, i \in Images :
          ReceiveChunk(chunk_number, size, i)
    \/ FinalizeUpdate
    \/ ValidateUpdate
    \/ AbortUpdate
    \/ ApplyUpdate
    \/ BootloaderStep

Spec == Init /\ [][Next]_vars
-----------------------------------------------------------------------------
(* Properties.                                                             *)

\* Type correctness; received_bytes never exceeds total_size, nor progress 100
\* (ota_manager_get_progress() returns a percentage in a uint8_t).
TypeOK ==
    /\ BootTypeOK
    /\ ota_state \in OtaStates /\ last_error \in OtaErrors
    /\ chunk_info \in ChunkInfo
    /\ chunk_info.received_bytes <= chunk_info.total_size
    /\ restart_required \in BOOLEAN
    /\ progress_percent \in 0 .. 100
    /\ accepted \in Seq(ImageByte)

\* ota_manager_is_update_available(), which monitor_task() shows to the user,
\* never announces an image that the bootloader's own validation would refuse:
\* not after a failed, aborted or repeated validation, nor after a new start.
UpdateAvailableIsReal == restart_required => ValidFirmware(flash, APP_SLOT_B_ADDRESS)

\* What keeps UpdateAvailableIsReal: no byte is written while the flag is set,
\* and the size that a validation compares with was accepted by a start.
OtaInv ==
    /\ UpdateAvailableIsReal
    /\ ota_state \in {"WAITING_FOR_START", "RECEIVING_DATA"} => ~restart_required
    /\ ota_state = "IDLE" => ~restart_required
    /\ chunk_info.total_size <= UpdateArea

\* The bytes of the chunks that ota_manager_receive_chunk() accepted lie in slot B
\* in the order of arrival, also when a later chunk fails half way.
AcceptedIsStored ==
    /\ Len(accepted) = chunk_info.received_bytes
    /\ \A k \in 1 .. Len(accepted) : flash[APP_SLOT_B_ADDRESS + k - 1] = accepted[k]

\* While all chunks were full, byte k of slot B is byte k of an image: a chunk
\* that is repeated, lost or out of order shifts nothing.
StoredInOrder ==
    chunk_info.received_bytes = chunk_info.next_expected_chunk * chunk_info.chunk_size =>
        \A k \in 0 .. chunk_info.received_bytes - 1 :
            \E i \in Images : flash[APP_SLOT_B_ADDRESS + k] = <<i, k>>

\* An update never touches the flash below slot B, where the bootloader and the
\* image to roll back to are.
LowerFlashUntouched ==
    [][\A x \in Addresses : x < APP_SLOT_B_ADDRESS => flash'[x] = flash[x]]_vars

\* The next chunk, if it is full, or its padding ends outside the erased page.
LeavesFirstPage ==
    WriteAddress + chunk_info.chunk_size > PageStart(APP_SLOT_B_ADDRESS) + FLASH_PAGE_SIZE

\* A chunk is refused by the flash only when an earlier chunk ended inside a word,
\* or when its words lie beyond the page that ota_manager_start_update() erased.
FirstPageTransferSucceeds ==
    [][(ota_state \in {"WAITING_FOR_START", "RECEIVING_DATA"} /\ last_error' = "FLASH_ERROR") =>
        (chunk_info.received_bytes % WORD_SIZE # 0 \/ LeavesFirstPage)]_vars

\* An update that bootloader_check_update() found pending stays newer than the
\* running firmware until the switch, through rollbacks and further updates.
PendingIsNewer == update_pending => update_header.version > active_header.version

\* As shipped, APP_SLOT_A_ADDRESS and APP_SLOT_B_ADDRESS lie above
\* FLASH_TOTAL_SIZE: no transfer begins and nothing is ever pending.
NeverReceives == ota_state \notin {"WAITING_FOR_START", "RECEIVING_DATA"} /\ ~update_pending


\* bootloader.c:80, "Check if update is newer than current": the image in slot B
\* at the switch is newer than the running one.  Violated, the switch trusts the
\* header that an earlier bootloader_check_update() loaded.
SwitchesToNewer ==
    [][update_pending /\ ~update_pending' /\ active_header' = update_header
         /\ boot_state' = "UPDATE_IN_PROGRESS" =>
            \A header \in HeadersAt(flash, APP_SLOT_B_ADDRESS) :
                header.version > active_header.version]_vars
=============================================================================
