------------------------------- MODULE Flash -------------------------------
(***************************************************************************)
(* The simulated flash of src/ota/bootloader.c: one array of bytes that is *)
(* erased by the page and written by the word, and the firmware images     *)
(* stored in it.  Everything here is a pure operator on a flash content f, *)
(* a function on 0 .. FLASH_TOTAL_SIZE - 1.                                *)
(***************************************************************************)
EXTENDS Integers

CONSTANTS
    FLASH_TOTAL_SIZE,  \* bytes of flash_memory (0x100000)
    FLASH_PAGE_SIZE,   \* 0x800
    WORD_SIZE,         \* bytes of a flash word (4)
    HEADER_SIZE,       \* sizeof(firmware_header_t) (80)
    FieldOffsets,      \* the bytes of the header that each field takes
    Images,            \* the firmware images that exist
    Meta,              \* Meta[i]: what the header of image i says
    TornNumber,        \* what a number reads as whose bytes are not those of one image
    Erased,            \* the byte 0xFF
    Pad                \* the byte 0x00 that completes a partial word

\* Byte k of image i is the pair <<i, k>>: the checks of the code tell images
\* and positions apart, not byte values.
ImageByte == Images \X Nat
Byte == ImageByte \union {Erased, Pad}

\* The fields of firmware_header_t that the code compares or uses.
NumberFields == {"version", "size", "entry_point"}
HeaderFields == NumberFields \union {"magic", "crc32"}

\* A header as the code reads it.  magic_ok is the comparison with FIRMWARE_MAGIC,
\* version the packed number, and crc_of stands for crc32: the images whose payload
\* has that CRC.
Header == [magic_ok : BOOLEAN, version : Nat, size : Nat, crc_of : SUBSET Images,
           entry_point : Nat]

\* Where a byte comes from.
Origin == Images \union {Erased, Pad}

ASSUME FlashAssumption ==
    /\ FLASH_TOTAL_SIZE \in Nat /\ FLASH_PAGE_SIZE \in Nat \ {0}
    /\ FLASH_TOTAL_SIZE % FLASH_PAGE_SIZE = 0
    /\ WORD_SIZE \in Nat \ {0} /\ HEADER_SIZE \in Nat \ {0}
    /\ FLASH_PAGE_SIZE % WORD_SIZE = 0  \* a page is a number of words
    /\ FieldOffsets \in [HeaderFields -> SUBSET (0 .. HEADER_SIZE - 1)]
    /\ \A field \in HeaderFields : FieldOffsets[field] # {}
    /\ Meta \in [Images -> Header]
    /\ TornNumber \in [NumberFields -> [SUBSET Origin -> Nat]]
    \* No header says a size from 1 to HEADER_SIZE - 1, of which the CRC length
    \* size - HEADER_SIZE would wrap around in the code.
    /\ \A i \in Images : Meta[i].size >= HEADER_SIZE
    /\ \A o \in SUBSET Origin : TornNumber["size"][o] \notin 1 .. HEADER_SIZE - 1
    /\ Erased # Pad /\ {Erased, Pad} \intersect ImageByte = {}

Addresses == 0 .. FLASH_TOTAL_SIZE - 1

Flash == [Addresses -> Byte]

-----------------------------------------------------------------------------
(* flash_erase_page().                                                     *)

\* Mutant: no range check.
EraseFails_Never(address) == FALSE

EraseFails(address) == address >= FLASH_TOTAL_SIZE

\* Mutant: rounds up.
PageStart_NextPage(address) == address - (address % FLASH_PAGE_SIZE) + FLASH_PAGE_SIZE

PageStart(address) == address - (address % FLASH_PAGE_SIZE)

PageErased(f, address) ==
    LET start == PageStart(address)
    IN  [x \in Addresses |->
            IF start <= x /\ x < start + FLASH_PAGE_SIZE THEN Erased ELSE f[x]]

-----------------------------------------------------------------------------
(* flash_write_word(), and the loop of ota_manager_receive_chunk() that    *)
(* calls it for the words of one chunk and stops at the first failure.     *)

WriteFails(f, address) ==
    \/ address >= FLASH_TOTAL_SIZE - (WORD_SIZE - 1)
    \/ \E i \in 0 .. WORD_SIZE - 1 : f[address + i] # Erased

\* The addresses of the words that a chunk of "size" bytes at "address" takes.
WordsOf(address, size) == {address + i : i \in {j \in 0 .. size - 1 : j % WORD_SIZE = 0}}

FailingWords(f, address, size) == {w \in WordsOf(address, size) : WriteFails(f, w)}

\* The flash after the loop: chunk byte k (of image i, from its byte "offset"
\* on) at address + k, the last word completed with Pad, and nothing written
\* from the first failing word on.
ChunkWritten(f, address, size, i, offset) ==
    LET failing == FailingWords(f, address, size)
        written(x) == /\ \E w \in WordsOf(address, size) : w <= x /\ x < w + WORD_SIZE
                      /\ \A w \in failing : x < w
    IN  [x \in Addresses |->
            IF ~written(x) THEN f[x]
            ELSE IF x < address + size THEN <<i, offset + (x - address)>> ELSE Pad]

-----------------------------------------------------------------------------
(* Headers and firmware in flash.                                          *)

\* What memset() leaves of a header.
ZeroHeader == [magic_ok |-> FALSE, version |-> 0, size |-> 0, crc_of |-> {}, entry_point |-> 0]

\* The bytes of a field of the header at "address" are those of image i, in place.
\* Chunks of different images may each bring some of the fields.
HoldsField(f, address, field, i) ==
    \A k \in FieldOffsets[field] : f[address + k] = <<i, k>>

FieldHolder(f, address, field) == CHOOSE i \in Images : HoldsField(f, address, field, i)

IsWhole(f, address, field) == \E i \in Images : HoldsField(f, address, field, i)

OriginOf(byte) == IF byte \in {Erased, Pad} THEN byte ELSE byte[1]

\* The number in a field, which its bytes determine: that of an image, or any
\* other when they are erased, padding, out of place or of several images.
NumberAt(f, address, field) ==
    IF IsWhole(f, address, field) THEN Meta[FieldHolder(f, address, field)][field]
    ELSE TornNumber[field][{OriginOf(f[address + k]) : k \in FieldOffsets[field]}]

\* The header that a memcpy() from "address" delivers, field by field.  The bytes
\* of FIRMWARE_MAGIC are the same in every image that has it; a torn crc32 is
\* taken to be the CRC of no payload.
HeaderAt(f, address) ==
    [magic_ok |-> \A k \in FieldOffsets["magic"] :
                     \E i \in Images : Meta[i].magic_ok /\ f[address + k] = <<i, k>>,
     version |-> NumberAt(f, address, "version"),
     size |-> NumberAt(f, address, "size"),
     crc_of |-> IF IsWhole(f, address, "crc32")
                THEN Meta[FieldHolder(f, address, "crc32")].crc_of ELSE {},
     entry_point |-> NumberAt(f, address, "entry_point")]

InFlash(address) == address + HEADER_SIZE <= FLASH_TOTAL_SIZE

\* What a field outside the array may be found to hold: nothing, or what some image says.
Found(field) == {ZeroHeader[field]} \union {Meta[i][field] : i \in Images}

\* The headers that a read may deliver: outside the array, any fields.
HeadersAt(f, address) ==
    IF InFlash(address) THEN {HeaderAt(f, address)}
    ELSE [magic_ok : BOOLEAN, version : Found("version"), size : Found("size"),
          crc_of : Found("crc_of"), entry_point : Found("entry_point")]

\* The bytes behind the header up to "size" are the payload of image i.
HoldsPayload(f, address, size, i) ==
    Meta[i].size = size /\ \A k \in HEADER_SIZE .. size - 1 : f[address + k] = <<i, k>>

\* The results of comparing the CRC of what lies behind the header at "address"
\* with its crc32.  The header itself is not under the CRC.  Distinct payloads are
\* taken to have distinct CRCs.  Reading outside the array finds anything.
CrcVerdicts(f, address, header) ==
    IF address + header.size > FLASH_TOTAL_SIZE THEN BOOLEAN
    ELSE {\E i \in header.crc_of : HoldsPayload(f, address, header.size, i)}

\* bootloader_validate_firmware() = BOOT_OK.
ValidFirmware(f, address) ==
    /\ address < FLASH_TOTAL_SIZE
    /\ \E header \in HeadersAt(f, address) :
          /\ header.magic_ok
          /\ header.size # 0 /\ header.size <= FLASH_TOTAL_SIZE - address
          /\ TRUE \in CrcVerdicts(f, address, header)

\* validate_firmware_header().
HeaderAccepted(header) == header.magic_ok /\ header.size > 0 /\ header.entry_point # 0
=============================================================================
