----------------------------- MODULE OtaProofs -----------------------------
(***************************************************************************)
(* Theorems about OtaManager for every flash geometry, every set of images *)
(* and every chunking, under the assumption that the slots lie inside the  *)
(* flash (LayoutAssumption).                                               *)
(***************************************************************************)
EXTENDS OtaLayout, TLAPS

-----------------------------------------------------------------------------
(* The flash operators.                                                    *)

\* What is known of the constants that describe headers.
LEMMA HeaderConstants ==
    /\ \A i \in Images : Meta[i] \in Header
    /\ \A field \in HeaderFields :
          FieldOffsets[field] \subseteq 0 .. HEADER_SIZE - 1 /\ FieldOffsets[field] # {}
    /\ \A field \in NumberFields, o \in SUBSET Origin : TornNumber[field][o] \in Nat
<1>1. /\ Meta \in [Images -> Header]
      /\ FieldOffsets \in [HeaderFields -> SUBSET (0 .. HEADER_SIZE - 1)]
      /\ TornNumber \in [NumberFields -> [SUBSET Origin -> Nat]]
  BY FlashAssumption
<1>2. \A i \in Images : Meta[i] \in Header  BY <1>1
<1>3. \A field \in HeaderFields :
         FieldOffsets[field] \subseteq 0 .. HEADER_SIZE - 1 /\ FieldOffsets[field] # {}
  BY <1>1, FlashAssumption
<1>4. ASSUME NEW field \in NumberFields, NEW o \in SUBSET Origin
      PROVE  TornNumber[field][o] \in Nat
  <2>1. TornNumber[field] \in [SUBSET Origin -> Nat]  BY <1>1
  <2> QED  BY <2>1
<1> QED  BY <1>2, <1>3, <1>4

\* A number field of a header in flash reads as a number.
LEMMA NumberAtType ==
    ASSUME NEW f \in Flash, NEW a \in Nat, InFlash(a), NEW field \in NumberFields
    PROVE  NumberAt(f, a, field) \in Nat
<1>1. CASE IsWhole(f, a, field)
  <2>1. FieldHolder(f, a, field) \in Images  BY <1>1 DEF IsWhole, FieldHolder
  <2>2. ASSUME NEW i \in Images PROVE Meta[i][field] \in Nat
    BY HeaderConstants DEF Header, NumberFields
  <2> QED  BY <1>1, <2>1, <2>2 DEF NumberAt
<1>2. CASE ~IsWhole(f, a, field)
  <2>1. ASSUME NEW k \in FieldOffsets[field] PROVE OriginOf(f[a + k]) \in Origin
    <3>1. k \in 0 .. HEADER_SIZE - 1  BY HeaderConstants DEF HeaderFields
    <3>2. a + k \in Addresses  BY <3>1, FlashAssumption DEF InFlash, Addresses
    <3>3. f[a + k] \in Byte  BY <3>2 DEF Flash
    <3> QED  BY <3>3 DEF Byte, ImageByte, OriginOf, Origin
  <2>2. {OriginOf(f[a + k]) : k \in FieldOffsets[field]} \in SUBSET Origin  BY <2>1
  <2> QED  BY <1>2, <2>2, HeaderConstants DEF NumberAt
<1> QED  BY <1>1, <1>2

\* What a header read delivers is a header.
LEMMA HeadersAtType ==
    ASSUME NEW f \in Flash, NEW a \in Nat
    PROVE  HeadersAt(f, a) \subseteq Header
<1>1. /\ Found("version") \subseteq Nat /\ Found("size") \subseteq Nat
      /\ Found("entry_point") \subseteq Nat /\ Found("crc_of") \subseteq SUBSET Images
  BY HeaderConstants DEF Found, ZeroHeader, Header
<1>2. ASSUME InFlash(a) PROVE HeaderAt(f, a) \in Header
  <2> DEFINE magic == \A k \in FieldOffsets["magic"] :
                         \E i \in Images : Meta[i].magic_ok /\ f[a + k] = <<i, k>>
             crc == IF IsWhole(f, a, "crc32")
                    THEN Meta[FieldHolder(f, a, "crc32")].crc_of ELSE {}
             version == NumberAt(f, a, "version")
             size == NumberAt(f, a, "size")
             entry == NumberAt(f, a, "entry_point")
  <2>1. version \in Nat /\ size \in Nat /\ entry \in Nat
    BY <1>2, NumberAtType DEF NumberFields
  <2>2. crc \in SUBSET Images
    <3>1. IsWhole(f, a, "crc32") => FieldHolder(f, a, "crc32") \in Images  BY DEF IsWhole, FieldHolder
    <3>2. \A i \in Images : Meta[i].crc_of \in SUBSET Images  BY HeaderConstants DEF Header
    <3> QED  BY <3>1, <3>2
  <2>3. magic \in BOOLEAN  OBVIOUS
  <2>4. HeaderAt(f, a) = [magic_ok |-> magic, version |-> version, size |-> size, crc_of |-> crc,
                          entry_point |-> entry]
    BY DEF HeaderAt
  <2> HIDE DEF magic, crc, version, size, entry
  <2> QED  BY <2>1, <2>2, <2>3, <2>4 DEF Header
<1>3. ASSUME ~InFlash(a) PROVE HeadersAt(f, a) \subseteq Header
  BY <1>1, <1>3 DEF HeadersAt, Header
<1> QED  BY <1>2, <1>3 DEF HeadersAt

\* Erasing a page keeps a flash a flash.
LEMMA PageErasedType ==
    ASSUME NEW f \in Flash, NEW a \in Nat
    PROVE  PageErased(f, a) \in Flash
BY DEF PageErased, Flash, Byte

\* Erasing the page at slot B changes nothing below it.
LEMMA PageErasedBelow ==
    ASSUME NEW f \in Flash, NEW x \in Addresses, x < APP_SLOT_B_ADDRESS
    PROVE  PageErased(f, APP_SLOT_B_ADDRESS)[x] = f[x]
<1>1. PageStart(APP_SLOT_B_ADDRESS) = APP_SLOT_B_ADDRESS
  BY LayoutAssumption, BootloaderAssumption, FlashAssumption DEF PageStart
<1>2. x \in Int  BY DEF Addresses
<1> QED  BY <1>1, <1>2, BootloaderAssumption, FlashAssumption DEF PageErased

\* The words of a chunk begin at its address or after it.
LEMMA WordsOfBounds ==
    ASSUME NEW a \in Nat, NEW size \in Nat, NEW w \in WordsOf(a, size)
    PROVE  w \in Nat /\ a <= w /\ w < a + size
BY DEF WordsOf

\* A chunk keeps a flash a flash.
LEMMA ChunkWrittenType ==
    ASSUME NEW f \in Flash, NEW a \in Nat, NEW size \in Nat, NEW i \in Images, NEW offset \in Nat
    PROVE  ChunkWritten(f, a, size, i, offset) \in Flash
<1> DEFINE written(x) == /\ \E w \in WordsOf(a, size) : w <= x /\ x < w + WORD_SIZE
                         /\ \A w \in FailingWords(f, a, size) : x < w
           new(x) == IF ~written(x) THEN f[x]
                     ELSE IF x < a + size THEN <<i, offset + (x - a)>> ELSE Pad
<1>1. ASSUME NEW x \in Addresses PROVE new(x) \in Byte
  <2>1. f[x] \in Byte /\ Pad \in Byte /\ x \in Int  BY DEF Flash, Byte, Addresses
  <2>2. CASE written(x)
    <3>1. PICK w \in WordsOf(a, size) : w <= x  BY <2>2
    <3>2. a <= x  BY <3>1, <2>1, WordsOfBounds
    <3>3. <<i, offset + (x - a)>> \in Byte  BY <3>2, <2>1 DEF Byte, ImageByte
    <3> HIDE DEF written
    <3> QED  BY <2>1, <2>2, <3>3
  <2>3. CASE ~written(x)
    <3> HIDE DEF written
    <3> QED  BY <2>1, <2>3
  <2> QED  BY <2>2, <2>3
<1>2. ChunkWritten(f, a, size, i, offset) = [x \in Addresses |-> new(x)]
  BY DEF ChunkWritten
<1> HIDE DEF new
<1> QED  BY <1>1, <1>2 DEF Flash

\* A chunk changes nothing below its address.
LEMMA ChunkWrittenBelow ==
    ASSUME NEW f \in Flash, NEW a \in Nat, NEW size \in Nat, NEW i \in Images, NEW offset \in Nat,
           NEW x \in Addresses, x < a
    PROVE  ChunkWritten(f, a, size, i, offset)[x] = f[x]
<1>1. x \in Int  BY DEF Addresses
<1>2. ~ \E w \in WordsOf(a, size) : w <= x
  BY <1>1, WordsOfBounds
<1> QED  BY <1>2 DEF ChunkWritten

-----------------------------------------------------------------------------
(* Type correctness.                                                       *)

\* A part of a whole is at most 100 percent of it.
LEMMA Percent ==
    ASSUME NEW part \in Nat, NEW whole \in Nat \ {0}, part <= whole
    PROVE  (part * 100) \div whole \in 0 .. 100
<1> DEFINE q == (part * 100) \div whole
<1>1. q \in Int /\ q * whole <= part * 100 /\ part * 100 < (q + 1) * whole
  BY Z3
<1>2. q <= 100
  <2> SUFFICES ASSUME q >= 101 PROVE FALSE  BY <1>1
  <2>1. q * whole >= 101 * whole  BY <1>1, Z3
  <2> QED  BY <1>1, <2>1
<1>3. q >= 0
  <2> SUFFICES ASSUME q + 1 <= 0 PROVE FALSE  BY <1>1
  <2>1. (q + 1) * whole <= 0  BY <1>1, Z3
  <2> QED  BY <1>1, <2>1
<1> HIDE DEF q
<1> QED  BY <1>1, <1>2, <1>3

\* Every chunk brings at least one byte.
TypeInv == TypeOK /\ chunk_info.next_expected_chunk <= chunk_info.received_bytes

\* The layout constants are numbers, and so are the sizes a caller passes.
LEMMA Numbers ==
    /\ FLASH_TOTAL_SIZE \in Nat /\ FLASH_PAGE_SIZE \in Nat /\ WORD_SIZE \in Nat /\ HEADER_SIZE \in Nat
    /\ APP_SLOT_A_ADDRESS \in Nat /\ APP_SLOT_B_ADDRESS \in Nat /\ UINT \in Nat
    /\ TotalSizes \subseteq 0 .. UINT - 1 /\ ChunkSizes \subseteq 0 .. UINT - 1
    /\ ChunkNumbers \subseteq 0 .. UINT - 1 /\ DataSizes \subseteq 0 .. UINT - 1
BY FlashAssumption, BootloaderAssumption, OtaAssumption

\* A system that has just been initialised is well typed.
LEMMA InitType == Init => TypeInv
<1> SUFFICES ASSUME Init PROVE TypeInv  OBVIOUS
<1>1. flash \in Flash
  <2>1. \A x \in Addresses : FactoryByte(x) \in Byte
    BY Numbers, BootloaderAssumption DEF FactoryByte, Byte, ImageByte, Addresses
  <2> QED  BY <2>1 DEF Init, BootInit, Flash
<1>2. active_header \in Header  BY <1>1, HeadersAtType, Numbers DEF Init, BootInit
<1>3. update_header \in Header  BY DEF Init, BootInit, ZeroHeader, Header
<1>4. chunk_info \in ChunkInfo /\ chunk_info.received_bytes = 0 /\ chunk_info.total_size = 0
      /\ chunk_info.next_expected_chunk = 0
  BY OtaAssumption, Numbers DEF Init, ChunkInfo, ZeroChunkInfo
<1>5. accepted \in Seq(ImageByte)  BY DEF Init
<1>6. BootTypeOK  BY <1>1, <1>2, <1>3 DEF Init, BootInit, BootTypeOK, Slots
<1>7. progress_percent \in 0 .. 100 /\ ota_state \in OtaStates /\ last_error \in OtaErrors
  BY DEF Init, OtaStates, OtaErrors
<1>8. restart_required \in BOOLEAN  BY Zenon DEF Init
<1> QED  BY <1>4, <1>5, <1>6, <1>7, <1>8 DEF TypeInv, TypeOK

\* The bootloader's operations keep the bootloader's types.
LEMMA BootloaderType ==
    ASSUME BootTypeOK, CheckUpdate \/ Rollback \/ JumpToApp \/ SwitchFails \/ SwitchDone
    PROVE  BootTypeOK' /\ flash' = flash
<1>1. CASE CheckUpdate
  <2>1. update_header' \in Header
    BY <1>1, HeadersAtType, Numbers DEF CheckUpdate, BootTypeOK
  <2>2. update_pending' \in BOOLEAN
    <3>1. (update_header'.version > active_header.version) \in BOOLEAN  OBVIOUS
    <3> QED  BY <1>1, <3>1, Zenon DEF CheckUpdate
  <2> QED  BY <1>1, <2>1, <2>2 DEF CheckUpdate, BootTypeOK
<1>2. CASE Rollback
  BY <1>2, HeadersAtType, Numbers DEF Rollback, BootTypeOK, Slots
<1>3. CASE JumpToApp
  BY <1>3 DEF JumpToApp, BootTypeOK
<1>4. CASE SwitchFails
  BY <1>4 DEF SwitchFails, BootTypeOK
<1>5. CASE SwitchDone
  BY <1>5 DEF SwitchDone, BootTypeOK, Slots
<1> QED  BY <1>1, <1>2, <1>3, <1>4, <1>5

\* ReceiveChunk() keeps the types: this is where the size checks are needed.
LEMMA ReceiveChunkType ==
    ASSUME TypeInv, NEW chunk_number \in ChunkNumbers, NEW size \in DataSizes, NEW i \in Images,
           ReceiveChunk(chunk_number, size, i)
    PROVE  TypeInv'
<1> DEFINE offset == chunk_number * chunk_info.chunk_size
           received == chunk_info.received_bytes
<1>1. /\ received \in Nat /\ chunk_info.total_size \in Nat /\ chunk_info.next_expected_chunk \in Nat
      /\ chunk_info.chunk_size \in Nat /\ chunk_info.total_size < UINT
      /\ chunk_info.next_expected_chunk <= received /\ received <= chunk_info.total_size
  BY Numbers DEF TypeInv, TypeOK, ChunkInfo
<1>2. size \in Nat /\ chunk_number \in Nat  BY Numbers
<1>3. offset \in Nat
  BY <1>1, <1>2, Z3
<1>4. WriteAddress \in Nat  BY <1>1, Numbers DEF WriteAddress
<1>5. flash' \in Flash
  <2> HIDE DEF offset
  <2>1. flash' = ChunkWritten(flash, WriteAddress, size, i, offset)  BY DEF ReceiveChunk, offset
  <2> QED  BY <2>1, <1>2, <1>3, <1>4, ChunkWrittenType DEF TypeInv, TypeOK, BootTypeOK
<1>6. BootTypeOK'
  BY <1>5 DEF ReceiveChunk, TypeInv, TypeOK, BootTypeOK, bootVars
<1>7. size # 0 /\ received + size <= chunk_info.total_size
  BY DEF ReceiveChunk, ChunkAccepted
<1>8. restart_required' \in BOOLEAN /\ ota_state' \in OtaStates /\ last_error' \in OtaErrors
  <2>1. restart_required' = restart_required  BY DEF ReceiveChunk
  <2>2. ota_state' \in OtaStates /\ last_error' \in OtaErrors
    BY DEF ReceiveChunk, UpdateState, OtaStates, OtaErrors
  <2> QED  BY <2>1, <2>2 DEF TypeInv, TypeOK
<1>9. CASE FailingWords(flash, WriteAddress, size) # {}
  <2>1. UNCHANGED <<chunk_info, progress_percent, accepted>>  BY <1>9 DEF ReceiveChunk
  <2> QED  BY <2>1, <1>6, <1>8 DEF TypeInv, TypeOK
<1>10. CASE FailingWords(flash, WriteAddress, size) = {}
  <2>1. chunk_info' = [chunk_info EXCEPT !.received_bytes = @ + size, !.next_expected_chunk = @ + 1]
    BY <1>10 DEF ReceiveChunk
  <2>2. /\ chunk_info' \in ChunkInfo
        /\ chunk_info'.received_bytes <= chunk_info'.total_size
        /\ chunk_info'.next_expected_chunk <= chunk_info'.received_bytes
    <3>1. /\ chunk_info'.received_bytes = received + size
          /\ chunk_info'.next_expected_chunk = chunk_info.next_expected_chunk + 1
          /\ chunk_info'.total_size = chunk_info.total_size
      BY <2>1 DEF TypeInv, TypeOK, ChunkInfo
    <3>2. received + size \in 0 .. UINT - 1 /\ chunk_info.next_expected_chunk + 1 \in 0 .. UINT - 1
          /\ chunk_info.next_expected_chunk + 1 <= received + size
      BY <1>1, <1>2, <1>7, Numbers
    <3>3. chunk_info' \in ChunkInfo
      BY <2>1, <3>2 DEF TypeInv, TypeOK, ChunkInfo
    <3> QED  BY <3>1, <3>2, <3>3, <1>7
  <2>3. progress_percent' \in 0 .. 100
    <3>1. progress_percent' = ((received + size) * 100) \div chunk_info.total_size
      BY <1>10 DEF ReceiveChunk
    <3>2. received + size \in Nat /\ chunk_info.total_size \in Nat \ {0}
      BY <1>1, <1>2, <1>7
    <3> QED  BY <3>1, <3>2, <1>7, Percent
  <2>4. accepted' \in Seq(ImageByte)
    <3> DEFINE chunk == [k \in 1 .. size |-> <<i, offset + k - 1>>]
    <3>1. chunk \in Seq(ImageByte)
      <4>1. ASSUME NEW k \in 1 .. size PROVE <<i, offset + k - 1>> \in ImageByte
        <5> HIDE DEF offset
        <5> QED  BY <4>1, <1>2, <1>3 DEF ImageByte
      <4> HIDE DEF offset
      <4> QED  BY <4>1, <1>2
    <3>2. accepted' = accepted \o chunk  BY <1>10 DEF ReceiveChunk
    <3>3. accepted \in Seq(ImageByte)  BY DEF TypeInv, TypeOK
    <3> HIDE DEF chunk
    <3> QED  BY <3>1, <3>2, <3>3
  <2> QED  BY <2>2, <2>3, <2>4, <1>6, <1>8 DEF TypeInv, TypeOK
<1> QED  BY <1>9, <1>10

\* Validation, alone or at the end of ota_manager_finalize_update().
LEMMA ValidationType ==
    ASSUME TypeInv, ValidateUpdate \/ FinalizeUpdate
    PROVE  TypeInv'
<1>1. UNCHANGED <<flash, bootVars, chunk_info, accepted>>  BY DEF ValidateUpdate, FinalizeUpdate
<1>2. BootTypeOK'  BY <1>1 DEF TypeInv, TypeOK, BootTypeOK, bootVars
<1>3. /\ ota_state' \in OtaStates /\ last_error' \in OtaErrors
  BY DEF ValidateUpdate, FinalizeUpdate, Rejected, Validated, UpdateState, OtaStates, OtaErrors
<1>4. progress_percent' \in 0 .. 100
  <2>1. progress_percent' = progress_percent \/ progress_percent' = 95 \/ progress_percent' = 100
    BY Zenon DEF ValidateUpdate, FinalizeUpdate, Rejected, Validated
  <2>2. progress_percent \in 0 .. 100  BY DEF TypeInv, TypeOK
  <2> QED  BY <2>1, <2>2
<1>5. restart_required' \in BOOLEAN
  <2>1. restart_required' = restart_required \/ restart_required' = TRUE
    BY Zenon DEF ValidateUpdate, FinalizeUpdate, Rejected, Validated
  <2> QED  BY <2>1, Zenon DEF TypeInv, TypeOK
<1> QED  BY <1>1, <1>2, <1>3, <1>4, <1>5 DEF TypeInv, TypeOK

\* Every step keeps the types.
LEMMA StepType == TypeInv /\ [Next]_vars => TypeInv'
<1> SUFFICES ASSUME TypeInv, [Next]_vars PROVE TypeInv'  OBVIOUS
<1>1. CASE OtaManagerInit
  <2>1. BootTypeOK'  BY <1>1 DEF OtaManagerInit, TypeInv, TypeOK, BootTypeOK, bootVars
  <2>2. chunk_info' \in ChunkInfo /\ chunk_info'.received_bytes = 0 /\ chunk_info'.total_size = 0
        /\ chunk_info'.next_expected_chunk = 0
    BY <1>1, OtaAssumption, Numbers DEF OtaManagerInit, ChunkInfo, ZeroChunkInfo
  <2>3. accepted' \in Seq(ImageByte) /\ progress_percent' \in 0 .. 100
        /\ ota_state' \in OtaStates /\ last_error' \in OtaErrors
    BY <1>1 DEF OtaManagerInit, UpdateState, OtaStates, OtaErrors
  <2>4. restart_required' \in BOOLEAN  BY <1>1, Zenon DEF OtaManagerInit
  <2> QED  BY <2>1, <2>2, <2>3, <2>4 DEF TypeInv, TypeOK
<1>2. ASSUME NEW total_size \in TotalSizes, NEW chunk_size \in ChunkSizes,
             StartUpdate(total_size, chunk_size)
      PROVE  TypeInv'
  <2>1. flash' \in Flash
    BY <1>2, PageErasedType, Numbers DEF StartUpdate, TypeInv, TypeOK, BootTypeOK
  <2>2. BootTypeOK'  BY <2>1, <1>2 DEF StartUpdate, TypeInv, TypeOK, BootTypeOK, bootVars
  <2>3. /\ chunk_info' \in ChunkInfo /\ chunk_info'.received_bytes = 0
        /\ chunk_info'.total_size \in Nat /\ chunk_info'.next_expected_chunk = 0
    <3>1. chunk_info' = [ZeroChunkInfo EXCEPT !.total_size = total_size, !.chunk_size = chunk_size]
      BY <1>2 DEF StartUpdate
    <3>2. total_size \in 0 .. UINT - 1 /\ chunk_size \in 0 .. UINT - 1 /\ 0 \in 0 .. UINT - 1
      BY Numbers, OtaAssumption
    <3>3. chunk_info' = [total_size |-> total_size, chunk_size |-> chunk_size,
                         received_bytes |-> 0, next_expected_chunk |-> 0]
      BY <3>1 DEF ZeroChunkInfo
    <3>4. chunk_info' \in ChunkInfo  BY <3>2, <3>3 DEF ChunkInfo
    <3> QED  BY <3>2, <3>3, <3>4, Numbers
  <2>4. accepted' \in Seq(ImageByte) /\ progress_percent' \in 0 .. 100
        /\ ota_state' \in OtaStates /\ last_error' \in OtaErrors
    <3>1. accepted' = <<>>  BY <1>2 DEF StartUpdate
    <3>6. progress_percent' = progress_percent \/ progress_percent' = 0  BY <1>2 DEF StartUpdate
    <3>2. ota_state' \in OtaStates /\ last_error' \in OtaErrors
      BY <1>2 DEF StartUpdate, UpdateState, OtaStates, OtaErrors
    <3>3. progress_percent \in 0 .. 100  BY DEF TypeInv, TypeOK
    <3>4. accepted' \in Seq(ImageByte)  BY <3>1
    <3>5. progress_percent' \in 0 .. 100  BY <3>3, <3>6
    <3> QED  BY <3>2, <3>4, <3>5
  <2>5. restart_required' \in BOOLEAN  BY <1>2, Zenon DEF StartUpdate
  <2> QED  BY <2>2, <2>3, <2>4, <2>5 DEF TypeInv, TypeOK
<1>3. ASSUME NEW chunk_number \in ChunkNumbers, NEW size \in DataSizes, NEW i \in Images,
             ReceiveChunk(chunk_number, size, i)
      PROVE  TypeInv'
  BY <1>3, ReceiveChunkType
<1>4. CASE ValidateUpdate \/ FinalizeUpdate
  BY <1>4, ValidationType
<1>5. CASE AbortUpdate
  BY <1>5 DEF AbortUpdate, UpdateState, TypeInv, TypeOK, BootTypeOK, bootVars, OtaStates, OtaErrors
<1>6. CASE ApplyUpdate
  <2>1. BootTypeOK'  BY <1>6, BootloaderType DEF ApplyUpdate, TypeInv, TypeOK
  <2>2. ota_state' \in OtaStates /\ last_error' \in OtaErrors
    BY <1>6 DEF ApplyUpdate, UpdateState, OtaStates, OtaErrors
  <2>3. UNCHANGED <<chunk_info, progress_percent, accepted>>  BY <1>6 DEF ApplyUpdate
  <2>4. restart_required' \in BOOLEAN
    <3>1. restart_required' = restart_required \/ restart_required' = TRUE
      BY <1>6, Zenon DEF ApplyUpdate
    <3> QED  BY <3>1, Zenon DEF TypeInv, TypeOK
  <2> QED  BY <2>1, <2>2, <2>3, <2>4 DEF TypeInv, TypeOK
<1>7. CASE BootloaderStep
  <2>1. BootTypeOK'  BY <1>7, BootloaderType DEF BootloaderStep, TypeInv, TypeOK
  <2> QED  BY <2>1, <1>7 DEF BootloaderStep, otaVars, TypeInv, TypeOK
<1>8. CASE UNCHANGED vars
  BY <1>8 DEF vars, bootVars, otaVars, TypeInv, TypeOK, BootTypeOK
<1> QED  BY <1>1, <1>2, <1>3, <1>4, <1>5, <1>6, <1>7, <1>8 DEF Next

\* Every state is well typed: in particular a transfer never counts more bytes
\* than it announced, and the progress it reports is a percentage.
THEOREM TypeCorrect == Spec => []TypeOK
<1>1. TypeInv => TypeOK  BY DEF TypeInv
<1> QED  BY InitType, StepType, <1>1, PTL DEF Spec

-----------------------------------------------------------------------------
(* An update that is announced is an image the bootloader accepts.         *)

\* A validation that succeeds proves what bootloader_validate_firmware() asks,
\* because the size it compares with was bounded when the update started.
LEMMA ValidatedIsValid ==
    ASSUME TypeInv, chunk_info.total_size <= UpdateArea, Validated
    PROVE  ValidFirmware(flash, APP_SLOT_B_ADDRESS)
<1>1. PICK header \in HeadersAt(flash, APP_SLOT_B_ADDRESS) :
         HeaderMatches(header) /\ TRUE \in PayloadVerdicts(header)
  BY DEF Validated
<1>2. UpdateArea = FLASH_TOTAL_SIZE - APP_SLOT_B_ADDRESS /\ APP_SLOT_B_ADDRESS < FLASH_TOTAL_SIZE
  BY LayoutAssumption, FlashAssumption, Numbers DEF UpdateArea
<1>3. header.magic_ok /\ header.size > 0 /\ header.size = chunk_info.total_size
  BY <1>1 DEF HeaderMatches, HeaderAccepted
<1>4. header.size # 0 /\ header.size <= FLASH_TOTAL_SIZE - APP_SLOT_B_ADDRESS
  BY <1>2, <1>3 DEF TypeInv, TypeOK, ChunkInfo
<1>5. TRUE \in CrcVerdicts(flash, APP_SLOT_B_ADDRESS, header)
  BY <1>1 DEF PayloadVerdicts
<1> QED  BY <1>2, <1>3, <1>4, <1>5 DEF ValidFirmware

\* Nothing is announced at first.
LEMMA InitOta == Init => OtaInv
<1> SUFFICES ASSUME Init PROVE OtaInv  OBVIOUS
<1>1. ~restart_required  BY Zenon DEF Init
<1>2. chunk_info.total_size = 0  BY DEF Init, ZeroChunkInfo
<1>3. UpdateArea \in Nat
  BY LayoutAssumption, Numbers, OtaAssumption DEF UpdateArea
<1>4. chunk_info.total_size <= UpdateArea  BY <1>2, <1>3
<1> QED  BY <1>1, <1>4 DEF OtaInv, UpdateAvailableIsReal

\* Every step keeps OtaInv: no byte is written while the flag is set.
LEMMA StepOta == TypeInv /\ OtaInv /\ [Next]_vars => OtaInv'
<1> SUFFICES ASSUME TypeInv, OtaInv, [Next]_vars PROVE OtaInv'  OBVIOUS
<1> USE DEF OtaInv, UpdateAvailableIsReal, UpdateState
<1>0. UpdateArea \in Nat
  BY LayoutAssumption, Numbers, OtaAssumption DEF UpdateArea
<1>1. CASE OtaManagerInit
  <2>1. ~restart_required'  BY <1>1, Zenon DEF OtaManagerInit
  <2>2. chunk_info'.total_size = 0  BY <1>1 DEF OtaManagerInit, ZeroChunkInfo
  <2>3. chunk_info'.total_size <= UpdateArea  BY <2>2, <1>0
  <2> QED  BY <2>1, <2>3
<1>2. ASSUME NEW total_size \in TotalSizes, NEW chunk_size \in ChunkSizes,
             StartUpdate(total_size, chunk_size)
      PROVE  OtaInv'
  <2>1. ~restart_required'  BY <1>2, Zenon DEF StartUpdate
  <2>2. chunk_info'.total_size = total_size /\ total_size <= UpdateArea
    BY <1>2 DEF StartUpdate, ZeroChunkInfo, SizesAccepted
  <2> QED  BY <2>1, <2>2
<1>3. ASSUME NEW chunk_number \in ChunkNumbers, NEW size \in DataSizes, NEW i \in Images,
             ReceiveChunk(chunk_number, size, i)
      PROVE  OtaInv'
  <2>1. ~restart_required  BY <1>3 DEF ReceiveChunk, ChunkAccepted
  <2>2. restart_required' = restart_required  BY <1>3 DEF ReceiveChunk
  <2>3. ota_state' # "IDLE"  BY <1>3 DEF ReceiveChunk
  <2>4. chunk_info'.total_size = chunk_info.total_size
    BY <1>3 DEF ReceiveChunk, TypeInv, TypeOK, ChunkInfo
  <2> QED  BY <2>1, <2>2, <2>3, <2>4
<1>4. CASE ValidateUpdate \/ FinalizeUpdate
  <2>1. flash' = flash /\ chunk_info' = chunk_info  BY <1>4 DEF ValidateUpdate, FinalizeUpdate
  <2>2. ota_state' \in {"COMPLETE", "ERROR"}
    BY <1>4 DEF ValidateUpdate, FinalizeUpdate, Rejected, Validated
  <2>3. CASE Rejected
    <3>1. restart_required' = restart_required  BY <2>3 DEF Rejected
    <3> QED  BY <2>1, <2>2, <3>1
  <2>4. CASE Validated
    <3>1. ValidFirmware(flash, APP_SLOT_B_ADDRESS)  BY <2>4, ValidatedIsValid
    <3> QED  BY <2>1, <2>2, <3>1
  <2> QED  BY <1>4, <2>3, <2>4 DEF ValidateUpdate, FinalizeUpdate
<1>5. CASE AbortUpdate
  BY <1>5 DEF AbortUpdate
<1>6. CASE ApplyUpdate
  <2>1. flash' = flash /\ chunk_info' = chunk_info /\ ota_state' \in {"ERROR", "UPDATING"}
    BY <1>6 DEF ApplyUpdate, SwitchFails, SwitchDone
  <2>2. CASE SwitchFails /\ UNCHANGED restart_required
    BY <2>1, <2>2
  <2>3. CASE SwitchDone
    <3>1. ValidFirmware(flash, APP_SLOT_B_ADDRESS)  BY <2>3 DEF SwitchDone
    <3> QED  BY <2>1, <3>1
  <2> QED  BY <1>6, <2>2, <2>3 DEF ApplyUpdate
<1>7. CASE BootloaderStep
  <2>1. flash' = flash  BY <1>7, BootloaderType DEF BootloaderStep, TypeInv, TypeOK
  <2>2. UNCHANGED <<ota_state, chunk_info, restart_required>>  BY <1>7 DEF BootloaderStep, otaVars
  <2> QED  BY <2>1, <2>2
<1>8. CASE UNCHANGED vars
  BY <1>8 DEF vars, bootVars, otaVars
<1> QED  BY <1>1, <1>2, <1>3, <1>4, <1>5, <1>6, <1>7, <1>8 DEF Next

\* Whenever ota_manager_is_update_available() says so, slot B holds an image that
\* bootloader_validate_firmware() accepts.
THEOREM AnnouncedUpdateIsValid == Spec => []OtaInv
<1>1. Init => TypeInv /\ OtaInv  BY InitType, InitOta
<1>2. TypeInv /\ OtaInv /\ [Next]_vars => (TypeInv /\ OtaInv)'  BY StepType, StepOta
<1> QED  BY <1>1, <1>2, PTL DEF Spec

-----------------------------------------------------------------------------
(* The flash below slot B.                                                 *)

Lower == \A x \in Addresses : x < APP_SLOT_B_ADDRESS => flash'[x] = flash[x]

\* No step writes below slot B.
LEMMA StepLower == TypeInv /\ [Next]_vars => Lower
<1> SUFFICES ASSUME TypeInv, [Next]_vars, NEW x \in Addresses, x < APP_SLOT_B_ADDRESS
             PROVE  flash'[x] = flash[x]
  BY DEF Lower
<1>0. flash \in Flash  BY DEF TypeInv, TypeOK, BootTypeOK
<1>1. ASSUME NEW total_size \in TotalSizes, NEW chunk_size \in ChunkSizes,
             StartUpdate(total_size, chunk_size)
      PROVE  flash'[x] = flash[x]
  BY <1>0, <1>1, PageErasedBelow DEF StartUpdate
<1>2. ASSUME NEW chunk_number \in ChunkNumbers, NEW size \in DataSizes, NEW i \in Images,
             ReceiveChunk(chunk_number, size, i)
      PROVE  flash'[x] = flash[x]
  <2> DEFINE offset == chunk_number * chunk_info.chunk_size
  <2>1. chunk_info.received_bytes \in Nat /\ chunk_info.chunk_size \in Nat
    BY Numbers DEF TypeInv, TypeOK, ChunkInfo
  <2>2. size \in Nat /\ chunk_number \in Nat  BY Numbers
  <2>3. offset \in Nat  BY <2>1, <2>2, Z3
  <2>4. WriteAddress \in Nat /\ x < WriteAddress
    BY <2>1, Numbers DEF WriteAddress, Addresses
  <2>5. flash' = ChunkWritten(flash, WriteAddress, size, i, offset)  BY <1>2 DEF ReceiveChunk
  <2> HIDE DEF offset
  <2> QED  BY <1>0, <2>2, <2>3, <2>4, <2>5, ChunkWrittenBelow
<1>3. CASE \/ OtaManagerInit \/ FinalizeUpdate \/ ValidateUpdate \/ AbortUpdate
           \/ ApplyUpdate \/ BootloaderStep \/ UNCHANGED vars
  <2>1. flash' = flash
    BY <1>3 DEF OtaManagerInit, FinalizeUpdate, ValidateUpdate, AbortUpdate, ApplyUpdate,
                BootloaderStep, CheckUpdate, Rollback, JumpToApp, SwitchFails, SwitchDone, vars
  <2> QED  BY <2>1
<1> QED  BY <1>1, <1>2, <1>3 DEF Next

\* No operation of the update path ever changes the flash below slot B, where
\* the bootloader and the image to roll back to are.
THEOREM LowerFlashIsSafe == Spec => LowerFlashUntouched
<1>1. TypeInv /\ [Next]_vars => [Lower]_vars  BY StepLower
<1> QED  BY InitType, StepType, <1>1, PTL DEF Spec, LowerFlashUntouched, Lower

-----------------------------------------------------------------------------
(* A pending update stays newer.                                           *)

\* The bytes at "address" are the header of image i.
HasHeaderOf(f, address, i) == \A k \in 0 .. HEADER_SIZE - 1 : f[address + k] = <<i, k>>

\* The running firmware is never older than the factory image, and the header of
\* that image stays in slot A: so a rollback cannot make a pending update older
\* than what runs then.
PendingInv ==
    /\ HasHeaderOf(flash, APP_SLOT_A_ADDRESS, FactoryA)
    /\ active_header.version >= Meta[FactoryA].version
    /\ PendingIsNewer

\* Every field of slot A is that of the factory header, and of no other.
LEMMA FactoryField ==
    ASSUME HasHeaderOf(flash, APP_SLOT_A_ADDRESS, FactoryA), NEW field \in HeaderFields
    PROVE  /\ IsWhole(flash, APP_SLOT_A_ADDRESS, field)
           /\ FieldHolder(flash, APP_SLOT_A_ADDRESS, field) = FactoryA
<1> DEFINE Holds(i) == HoldsField(flash, APP_SLOT_A_ADDRESS, field, i)
<1>1. FactoryA \in Images /\ Holds(FactoryA)
  BY BootloaderAssumption, HeaderConstants DEF HoldsField, HasHeaderOf
<1>2. PICK k \in FieldOffsets[field] : TRUE  BY HeaderConstants
<1>3. ASSUME NEW i \in Images, Holds(i) PROVE i = FactoryA
  <2>1. flash[APP_SLOT_A_ADDRESS + k] = <<i, k>> /\ flash[APP_SLOT_A_ADDRESS + k] = <<FactoryA, k>>
    BY <1>1, <1>2, <1>3 DEF HoldsField
  <2> QED  BY <2>1
<1> HIDE DEF Holds
<1>4. (CHOOSE i \in Images : Holds(i)) = FactoryA  BY <1>1, <1>3
<1> QED  BY <1>1, <1>4 DEF Holds, IsWhole, FieldHolder

\* A read of slot A delivers the version of the factory image.
LEMMA FactoryHeader ==
    ASSUME HasHeaderOf(flash, APP_SLOT_A_ADDRESS, FactoryA),
           NEW header \in HeadersAt(flash, APP_SLOT_A_ADDRESS)
    PROVE  header.version = Meta[FactoryA].version
<1>1. InFlash(APP_SLOT_A_ADDRESS)
  BY LayoutAssumption, BootloaderAssumption, Numbers DEF InFlash
<1>2. header.version = NumberAt(flash, APP_SLOT_A_ADDRESS, "version")
  BY <1>1 DEF HeadersAt, HeaderAt
<1>3. "version" \in HeaderFields  BY DEF HeaderFields, NumberFields
<1> QED  BY <1>2, <1>3, FactoryField DEF NumberAt

\* Nothing is pending at first, and slot A holds the factory header.
LEMMA InitPending == Init => PendingInv
<1> SUFFICES ASSUME Init PROVE PendingInv  OBVIOUS
<1>1. HasHeaderOf(flash, APP_SLOT_A_ADDRESS, FactoryA)
  <2> SUFFICES ASSUME NEW k \in 0 .. HEADER_SIZE - 1
               PROVE  flash[APP_SLOT_A_ADDRESS + k] = <<FactoryA, k>>
    BY DEF HasHeaderOf
  <2> DEFINE x == APP_SLOT_A_ADDRESS + k
  <2>1. /\ x \in Addresses /\ x - APP_SLOT_A_ADDRESS = k
        /\ x \in APP_SLOT_A_ADDRESS .. APP_SLOT_A_ADDRESS + HEADER_SIZE - 1
    BY LayoutAssumption, BootloaderAssumption, Numbers DEF Addresses
  <2> HIDE DEF x
  <2>2. flash[x] = <<FactoryA, k>>  BY <2>1 DEF Init, BootInit, FactoryByte
  <2> QED  BY <2>2 DEF x
<1>2. active_header.version = Meta[FactoryA].version  BY <1>1, FactoryHeader DEF Init, BootInit
<1>3. Meta[FactoryA].version \in Nat  BY FlashAssumption, BootloaderAssumption DEF Header
<1>4. ~update_pending  BY Zenon DEF Init, BootInit
<1>5. active_header.version >= Meta[FactoryA].version  BY <1>2, <1>3
<1> QED  BY <1>1, <1>4, <1>5 DEF PendingInv, PendingIsNewer

\* The bootloader's operations keep it.
LEMMA BootloaderPending ==
    ASSUME BootTypeOK, PendingInv, CheckUpdate \/ Rollback \/ JumpToApp \/ SwitchFails \/ SwitchDone
    PROVE  PendingInv'
<1> USE DEF PendingInv, PendingIsNewer
<1>0. /\ Meta[FactoryA].version \in Nat /\ active_header.version \in Nat
      /\ update_header.version \in Nat
  BY FlashAssumption, BootloaderAssumption DEF BootTypeOK, Header
<1>1. flash' = flash /\ HasHeaderOf(flash, APP_SLOT_A_ADDRESS, FactoryA)'
  BY BootloaderType DEF HasHeaderOf
<1>2. CASE CheckUpdate
  <2>1. active_header' = active_header  BY <1>2 DEF CheckUpdate
  <2>2. update_pending' => update_header'.version > active_header.version
    BY <1>2, Zenon DEF CheckUpdate
  <2> QED  BY <1>1, <2>1, <2>2
<1>3. CASE Rollback
  <2>1. active_header'.version = Meta[FactoryA].version  BY <1>3, FactoryHeader DEF Rollback
  <2>2. UNCHANGED <<update_header, update_pending>>  BY <1>3 DEF Rollback
  <2>3. active_header'.version >= Meta[FactoryA].version  BY <2>1, <1>0
  <2>4. update_pending => update_header.version > Meta[FactoryA].version  BY <1>0
  <2> QED  BY <1>1, <2>1, <2>2, <2>3, <2>4
<1>4. CASE JumpToApp
  BY <1>1, <1>4 DEF JumpToApp
<1>5. CASE SwitchFails
  BY <1>1, <1>5 DEF SwitchFails
<1>6. CASE SwitchDone
  <2>1. update_pending /\ ~update_pending' /\ active_header' = update_header
    BY <1>6, Zenon DEF SwitchDone
  <2>2. update_header.version > active_header.version  BY <2>1
  <2> QED  BY <1>0, <1>1, <2>1, <2>2
<1> QED  BY <1>2, <1>3, <1>4, <1>5, <1>6

\* Every step keeps PendingInv.
LEMMA StepPending == TypeInv /\ PendingInv /\ [Next]_vars => PendingInv'
<1> SUFFICES ASSUME TypeInv, PendingInv, [Next]_vars PROVE PendingInv'  OBVIOUS
<1>1. HasHeaderOf(flash, APP_SLOT_A_ADDRESS, FactoryA)'
  <2> SUFFICES ASSUME NEW k \in 0 .. HEADER_SIZE - 1
               PROVE  flash'[APP_SLOT_A_ADDRESS + k] = <<FactoryA, k>>
    BY DEF HasHeaderOf
  <2>1. APP_SLOT_A_ADDRESS + k \in Addresses /\ APP_SLOT_A_ADDRESS + k < APP_SLOT_B_ADDRESS
    BY LayoutAssumption, Numbers DEF Addresses
  <2>2. flash'[APP_SLOT_A_ADDRESS + k] = flash[APP_SLOT_A_ADDRESS + k]
    BY <2>1, StepLower DEF Lower
  <2> QED  BY <2>2 DEF PendingInv, HasHeaderOf
<1>2. CASE ApplyUpdate \/ BootloaderStep
  BY <1>2, BootloaderPending DEF ApplyUpdate, BootloaderStep, TypeInv, TypeOK
<1>3. CASE UNCHANGED bootVars
  BY <1>1, <1>3 DEF bootVars, PendingInv, PendingIsNewer
<1>4. ApplyUpdate \/ BootloaderStep \/ UNCHANGED bootVars
  BY DEF Next, OtaManagerInit, StartUpdate, ReceiveChunk, FinalizeUpdate, ValidateUpdate,
         AbortUpdate, vars
<1> QED  BY <1>2, <1>3, <1>4

\* A pending update is newer than the running firmware in every state, after any
\* series of checks, transfers, switches and rollbacks.
THEOREM PendingStaysNewer == Spec => []PendingIsNewer
<1>1. Init => TypeInv /\ PendingInv  BY InitType, InitPending
<1>2. TypeInv /\ PendingInv /\ [Next]_vars => (TypeInv /\ PendingInv)'  BY StepType, StepPending
<1>3. PendingInv => PendingIsNewer  BY DEF PendingInv
<1> QED  BY <1>1, <1>2, <1>3, PTL DEF Spec

-----------------------------------------------------------------------------
(* What a chunk leaves in the flash when none of its words failed.         *)

\* Rounding a number down to a multiple of the word size.
LEMMA RoundDown ==
    ASSUME NEW k \in Nat, NEW n \in Nat \ {0}
    PROVE  /\ k % n \in 0 .. n - 1
           /\ k - (k % n) \in Nat
           /\ (k - (k % n)) % n = 0
<1>1. k % n \in 0 .. n - 1  OBVIOUS
<1>2. k = n * (k \div n) + (k % n) /\ k \div n \in Nat  BY Z3
<1>3. (n * (k \div n)) % n = 0  BY <1>2, Z3
<1>4. k - (k % n) = n * (k \div n)  BY <1>1, <1>2, Z3
<1>5. n * (k \div n) \in Nat  BY <1>2, Z3
<1> QED  BY <1>1, <1>3, <1>4, <1>5

\* A multiple of the word size below another one is a whole word below it.
LEMMA WholeWords ==
    ASSUME NEW n \in Nat \ {0}, NEW j \in Nat, NEW m \in Nat, j % n = 0, m % n = 0, j < m
    PROVE  j + n <= m
<1>1. j = n * (j \div n) /\ m = n * (m \div n) /\ j \div n \in Int /\ m \div n \in Int  BY Z3
<1>2. j \div n < m \div n  BY <1>1, Z3
<1>3. n * ((j \div n) + 1) <= n * (m \div n)  BY <1>1, <1>2, Z3
<1>4. n * ((j \div n) + 1) = n * (j \div n) + n  BY <1>1, Z3
<1>5. n * (j \div n) \in Int /\ n * (m \div n) \in Int  BY <1>1, Z3
<1> QED  BY <1>1, <1>3, <1>4

\* Byte k of a chunk lies in one of its words.
LEMMA WordOfByte ==
    ASSUME NEW a \in Nat, NEW size \in Nat, NEW k \in 0 .. size - 1
    PROVE  \E w \in WordsOf(a, size) : w = a + k - (k % WORD_SIZE) /\ w <= a + k /\ a + k < w + WORD_SIZE
<1> DEFINE j == k - (k % WORD_SIZE)
<1>0. WORD_SIZE \in Nat \ {0} /\ k \in Nat  BY FlashAssumption
<1>1. k % WORD_SIZE \in 0 .. WORD_SIZE - 1 /\ j \in Nat /\ j % WORD_SIZE = 0
  BY ONLY <1>0, RoundDown, Zenon
<1>2. j \in 0 .. size - 1 /\ j <= k /\ k < j + WORD_SIZE  BY <1>1, Numbers
<1>3. a + j \in WordsOf(a, size)  BY <1>1, <1>2 DEF WordsOf
<1>4. a + j <= a + k /\ a + k < (a + j) + WORD_SIZE  BY <1>1, <1>2, Numbers
<1>5. a + j = a + k - (k % WORD_SIZE)  BY <1>1
<1> QED  BY <1>3, <1>4, <1>5

\* A word that does not fail lies inside the flash.
LEMMA WordInside ==
    ASSUME NEW f, NEW w \in Nat, ~WriteFails(f, w), NEW x \in Nat, w <= x, x < w + WORD_SIZE
    PROVE  x \in Addresses /\ f[x] = Erased
<1>1. w < FLASH_TOTAL_SIZE - (WORD_SIZE - 1)  BY Numbers DEF WriteFails
<1>2. x \in Addresses  BY <1>1, Numbers DEF Addresses
<1>3. x - w \in 0 .. WORD_SIZE - 1 /\ w + (x - w) = x  BY Numbers
<1>4. f[w + (x - w)] = Erased  BY <1>3 DEF WriteFails
<1> QED  BY <1>2, <1>3, <1>4

\* The content of the cells of a chunk that was written completely: the bytes of
\* the image, where there was nothing before.
LEMMA ChunkStored ==
    ASSUME NEW f \in Flash, NEW a \in Nat, NEW size \in Nat, NEW i \in Images, NEW offset \in Nat,
           NEW k \in 0 .. size - 1, FailingWords(f, a, size) = {}
    PROVE  /\ a + k \in Addresses
           /\ f[a + k] = Erased
           /\ ChunkWritten(f, a, size, i, offset)[a + k] = <<i, offset + k>>
<1>1. PICK w \in WordsOf(a, size) : w <= a + k /\ a + k < w + WORD_SIZE  BY WordOfByte
<1>2. w \in Nat /\ ~WriteFails(f, w)  BY WordsOfBounds DEF FailingWords
<1>3. a + k \in Nat /\ a + k < a + size /\ (a + k) - a = k  OBVIOUS
<1>4. a + k \in Addresses /\ f[a + k] = Erased  BY <1>1, <1>2, <1>3, WordInside
<1> DEFINE x == a + k
<1>5. ChunkWritten(f, a, size, i, offset)[x] = <<i, offset + (x - a)>>
  <2> HIDE DEF x
  <2>1. x \in Addresses /\ w <= x /\ x < w + WORD_SIZE /\ x < a + size  BY <1>1, <1>3, <1>4 DEF x
  <2> QED  BY <2>1 DEF ChunkWritten
<1>6. ChunkWritten(f, a, size, i, offset)[a + k] = <<i, offset + ((a + k) - a)>>  BY <1>5
<1>7. offset + ((a + k) - a) = offset + k  BY <1>3
<1> QED  BY <1>4, <1>6, <1>7

\* A chunk of whole words changes nothing behind its last byte.
LEMMA ChunkEndsOnWord ==
    ASSUME NEW f \in Flash, NEW a \in Nat, NEW size \in Nat, NEW i \in Images, NEW offset \in Nat,
           NEW x \in Addresses, size % WORD_SIZE = 0, a + size <= x
    PROVE  ChunkWritten(f, a, size, i, offset)[x] = f[x]
<1>1. x \in Int  BY DEF Addresses
<1>2. ASSUME NEW w \in WordsOf(a, size) PROVE w + WORD_SIZE <= x
  <2>1. PICK j \in 0 .. size - 1 : w = a + j /\ j % WORD_SIZE = 0  BY DEF WordsOf
  <2>3. WORD_SIZE \in Nat \ {0} /\ j \in Nat /\ j < size  BY <2>1, FlashAssumption
  <2>2. j + WORD_SIZE <= size  BY <2>1, <2>3, WholeWords, Zenon
  <2> QED  BY <2>1, <2>2, <1>1, Numbers
<1>3. ~ \E w \in WordsOf(a, size) : w <= x /\ x < w + WORD_SIZE
  BY <1>1, <1>2, WordsOfBounds, Numbers
<1> QED  BY <1>3 DEF ChunkWritten

\* A chunk that ends inside a word is followed by padding.
LEMMA ChunkPadded ==
    ASSUME NEW f \in Flash, NEW a \in Nat, NEW size \in Nat, NEW i \in Images, NEW offset \in Nat,
           FailingWords(f, a, size) = {}, size % WORD_SIZE # 0
    PROVE  /\ a + size \in Addresses
           /\ ChunkWritten(f, a, size, i, offset)[a + size] = Pad
<1> DEFINE j == size - (size % WORD_SIZE)
<1>0. WORD_SIZE \in Nat \ {0} /\ size \in Nat  BY FlashAssumption
<1>10. size % WORD_SIZE \in 0 .. WORD_SIZE - 1 /\ j \in Nat /\ j % WORD_SIZE = 0
  BY ONLY <1>0, RoundDown, Zenon
<1>1. size % WORD_SIZE \in 1 .. WORD_SIZE - 1 /\ j \in Nat /\ j % WORD_SIZE = 0
  BY <1>10
<1>2. j \in 0 .. size - 1 /\ size < j + WORD_SIZE  BY <1>1, Numbers
<1>3. a + j \in WordsOf(a, size)  BY <1>1, <1>2 DEF WordsOf
<1>4. ~WriteFails(f, a + j)  BY <1>3 DEF FailingWords
<1> DEFINE x == a + size
           w == a + j
<1>5. x \in Nat /\ w \in Nat /\ w <= x /\ x < w + WORD_SIZE  BY <1>1, <1>2, Numbers
<1>6. w \in WordsOf(a, size) /\ ~WriteFails(f, w)  BY <1>3, <1>4
<1>7. x \in Addresses
  <2> HIDE DEF w, x
  <2> QED  BY <1>5, <1>6, WordInside
<1>8. ~(x < a + size)  OBVIOUS
<1> HIDE DEF w, x
<1>9. ChunkWritten(f, a, size, i, offset)[x] = Pad
  BY <1>5, <1>6, <1>7, <1>8 DEF ChunkWritten
<1> QED  BY <1>7, <1>9 DEF x

-----------------------------------------------------------------------------
(* The bytes of the accepted chunks.                                       *)

\* The steps that neither erase nor write, nor touch what a transfer counts.
Quiet == UNCHANGED <<flash, chunk_info, accepted>>

\* A step begins anew, receives a chunk or is quiet.
LEMMA StepKinds ==
    ASSUME [Next]_vars
    PROVE  \/ OtaManagerInit
           \/ \E total_size \in TotalSizes, chunk_size \in ChunkSizes : StartUpdate(total_size, chunk_size)
           \/ \E chunk_number \in ChunkNumbers, size \in DataSizes, i \in Images :
                 ReceiveChunk(chunk_number, size, i)
           \/ Quiet
<1>1. CASE \/ FinalizeUpdate \/ ValidateUpdate \/ AbortUpdate
           \/ ApplyUpdate \/ BootloaderStep \/ UNCHANGED vars
  BY <1>1 DEF Quiet, FinalizeUpdate, ValidateUpdate, AbortUpdate, ApplyUpdate, BootloaderStep,
              CheckUpdate, Rollback, JumpToApp, SwitchFails, SwitchDone, vars, otaVars
<1> QED  BY <1>1 DEF Next

\* What a step that begins anew leaves of the transfer.
LEMMA FreshTransfer ==
    ASSUME \/ OtaManagerInit
           \/ \E total_size \in TotalSizes, chunk_size \in ChunkSizes : StartUpdate(total_size, chunk_size)
    PROVE  accepted' = <<>> /\ chunk_info'.received_bytes = 0 /\ chunk_info'.next_expected_chunk = 0
<1>1. CASE OtaManagerInit  BY <1>1 DEF OtaManagerInit, ZeroChunkInfo
<1>2. ASSUME NEW total_size \in TotalSizes, NEW chunk_size \in ChunkSizes,
             StartUpdate(total_size, chunk_size)
      PROVE  accepted' = <<>> /\ chunk_info'.received_bytes = 0 /\ chunk_info'.next_expected_chunk = 0
  BY <1>2 DEF StartUpdate, ZeroChunkInfo
<1> QED  BY <1>1, <1>2

\* The arithmetic of one chunk.
LEMMA ChunkNumbersOf ==
    ASSUME TypeInv, NEW chunk_number \in ChunkNumbers, NEW size \in DataSizes
    PROVE  /\ size \in Nat /\ chunk_number \in Nat
           /\ chunk_info.received_bytes \in Nat /\ chunk_info.total_size \in Nat
           /\ chunk_info.chunk_size \in Nat /\ chunk_info.next_expected_chunk \in Nat
           /\ chunk_number * chunk_info.chunk_size \in Nat
           /\ WriteAddress \in Nat
<1>1. /\ size \in Nat /\ chunk_number \in Nat
      /\ chunk_info.received_bytes \in Nat /\ chunk_info.total_size \in Nat
      /\ chunk_info.chunk_size \in Nat /\ chunk_info.next_expected_chunk \in Nat
  BY Numbers DEF TypeInv, TypeOK, ChunkInfo
<1>2. chunk_number * chunk_info.chunk_size \in Nat  BY <1>1, Z3
<1>3. WriteAddress \in Nat  BY <1>1, Numbers DEF WriteAddress
<1> QED  BY <1>1, <1>2, <1>3

\* A chunk that is refused by the flash leaves the counters alone; one that is
\* accepted was written without a failing word and adds its bytes.
LEMMA ChunkOutcome ==
    ASSUME TypeInv, NEW chunk_number \in ChunkNumbers, NEW size \in DataSizes, NEW i \in Images,
           ReceiveChunk(chunk_number, size, i)
    PROVE  /\ flash' = ChunkWritten(flash, WriteAddress, size, i, chunk_number * chunk_info.chunk_size)
           /\ \/ UNCHANGED <<chunk_info, accepted>> /\ ota_state' = "ERROR"
              \/ /\ FailingWords(flash, WriteAddress, size) = {}
                 /\ ota_state' = "RECEIVING_DATA" /\ last_error' = "NONE"
                 /\ chunk_info'.received_bytes = chunk_info.received_bytes + size
                 /\ chunk_info'.next_expected_chunk = chunk_info.next_expected_chunk + 1
                 /\ chunk_info'.chunk_size = chunk_info.chunk_size
                 /\ accepted' = accepted \o
                       [k \in 1 .. size |-> <<i, chunk_number * chunk_info.chunk_size + k - 1>>]
BY DEF ReceiveChunk, UpdateState, TypeInv, TypeOK, ChunkInfo

\* A sequence that is continued by "size" further elements.
LEMMA Continued ==
    ASSUME NEW S, NEW s \in Seq(S), NEW size \in Nat, NEW c \in [1 .. size -> S]
    PROVE  /\ Len(s \o c) = Len(s) + size
           /\ \A k \in 1 .. Len(s) : (s \o c)[k] = s[k]
           /\ \A k \in 1 .. size : (s \o c)[Len(s) + k] = c[k]
<1>1. c \in Seq(S) /\ Len(c) = size
  OBVIOUS
<1> QED  BY <1>1

\* Every step keeps the accepted bytes where they are.
LEMMA StepStored ==
    TypeInv /\ OtaInv /\ AcceptedIsStored /\ [Next]_vars => AcceptedIsStored'
<1> SUFFICES ASSUME TypeInv, OtaInv, AcceptedIsStored, [Next]_vars PROVE AcceptedIsStored'  OBVIOUS
<1>1. CASE \/ OtaManagerInit
           \/ \E total_size \in TotalSizes, chunk_size \in ChunkSizes : StartUpdate(total_size, chunk_size)
  BY <1>1, FreshTransfer DEF AcceptedIsStored
<1>2. ASSUME NEW chunk_number \in ChunkNumbers, NEW size \in DataSizes, NEW i \in Images,
             ReceiveChunk(chunk_number, size, i)
      PROVE  AcceptedIsStored'
  <2> DEFINE offset == chunk_number * chunk_info.chunk_size
             received == chunk_info.received_bytes
  <2>1. /\ size \in Nat /\ received \in Nat /\ offset \in Nat /\ WriteAddress \in Nat
        /\ chunk_info.total_size \in Nat /\ APP_SLOT_B_ADDRESS \in Nat /\ FLASH_TOTAL_SIZE \in Nat
    BY ChunkNumbersOf, Numbers
  <2>2. flash \in Flash /\ accepted \in Seq(ImageByte) /\ received <= chunk_info.total_size
    BY DEF TypeInv, TypeOK, BootTypeOK
  <2>3. flash' = ChunkWritten(flash, WriteAddress, size, i, offset)
    BY <1>2, ChunkOutcome
  <2>4. WriteAddress = APP_SLOT_B_ADDRESS + received  BY DEF WriteAddress
  <2>5. APP_SLOT_B_ADDRESS + received <= FLASH_TOTAL_SIZE
    <3>1. UpdateArea = FLASH_TOTAL_SIZE - APP_SLOT_B_ADDRESS
      BY LayoutAssumption, Numbers DEF UpdateArea
    <3> QED  BY <3>1, <2>1, <2>2 DEF OtaInv
  <2> HIDE DEF offset
  <2>6. ASSUME NEW k \in 1 .. received
        PROVE  flash'[APP_SLOT_B_ADDRESS + k - 1] = flash[APP_SLOT_B_ADDRESS + k - 1]
    <3>1. APP_SLOT_B_ADDRESS + k - 1 \in Addresses /\ APP_SLOT_B_ADDRESS + k - 1 < WriteAddress
      BY <2>1, <2>4, <2>5 DEF Addresses
    <3> QED  BY <3>1, <2>1, <2>2, <2>3, ChunkWrittenBelow
  <2>7. Len(accepted) = received /\ \A k \in 1 .. received : flash'[APP_SLOT_B_ADDRESS + k - 1] = accepted[k]
    BY <2>6 DEF AcceptedIsStored
  <2>8. CASE UNCHANGED <<chunk_info, accepted>>
    BY <2>7, <2>8 DEF AcceptedIsStored
  <2>9. CASE /\ FailingWords(flash, WriteAddress, size) = {}
             /\ chunk_info'.received_bytes = received + size
             /\ accepted' = accepted \o [k \in 1 .. size |-> <<i, offset + k - 1>>]
    <3> DEFINE chunk == [k \in 1 .. size |-> <<i, offset + k - 1>>]
    <3>1. chunk \in [1 .. size -> ImageByte]
      <4>1. \A k \in 1 .. size : <<i, offset + k - 1>> \in ImageByte  BY <2>1 DEF ImageByte
      <4> QED  BY <4>1
    <3>2. accepted' = accepted \o chunk  BY <2>9
    <3>5. \A k \in 1 .. size : chunk[k] = <<i, offset + k - 1>>  OBVIOUS
    <3>6. FailingWords(flash, WriteAddress, size) = {}  BY <2>9
    <3> HIDE DEF chunk
    <3>3. /\ Len(accepted') = received + size
          /\ \A k \in 1 .. received : accepted'[k] = accepted[k]
          /\ \A k \in 1 .. size : accepted'[received + k] = chunk[k]
      <4>1. /\ Len(accepted \o chunk) = Len(accepted) + size
            /\ \A k \in 1 .. Len(accepted) : (accepted \o chunk)[k] = accepted[k]
            /\ \A k \in 1 .. size : (accepted \o chunk)[Len(accepted) + k] = chunk[k]
        BY ONLY <3>1, <2>1, <2>2, Continued
      <4> QED  BY <4>1, <3>2, <2>7
    <3>7. \A j \in 0 .. size - 1 : flash'[WriteAddress + j] = <<i, offset + j>>
      <4>1. flash \in Flash /\ WriteAddress \in Nat /\ size \in Nat /\ offset \in Nat  BY <2>1, <2>2
      <4>2. FailingWords(flash, WriteAddress, size) = {} =>
               \A j \in 0 .. size - 1 :
                  ChunkWritten(flash, WriteAddress, size, i, offset)[WriteAddress + j] = <<i, offset + j>>
        BY <4>1, ChunkStored
      <4> QED  BY <4>2, <3>6, <2>3
    <3>4. ASSUME NEW k \in 1 .. received + size
          PROVE  flash'[APP_SLOT_B_ADDRESS + k - 1] = accepted'[k]
      <4>1. CASE k <= received  BY <4>1, <3>3, <2>7, <2>1
      <4>2. CASE k > received
        <5> DEFINE j == k - received - 1
        <5>1. j \in 0 .. size - 1 /\ APP_SLOT_B_ADDRESS + k - 1 = WriteAddress + j
              /\ j + 1 \in 1 .. size /\ received + (j + 1) = k
          BY <4>2, <2>1, <2>4
        <5> HIDE DEF j
        <5>2. flash'[WriteAddress + j] = <<i, offset + j>>
          BY <5>1, <3>7
        <5>3. accepted'[k] = chunk[j + 1]  BY <5>1, <3>3
        <5>4. chunk[j + 1] = <<i, offset + j>>  BY <5>1, <2>1, <3>5
        <5> QED  BY <5>1, <5>2, <5>3, <5>4
      <4> QED  BY <4>1, <4>2, <2>1
    <3> QED  BY <3>3, <3>4, <2>9 DEF AcceptedIsStored
  <2> QED  BY <2>8, <2>9, <1>2, ChunkOutcome DEF offset
<1>3. CASE Quiet
  BY <1>3 DEF Quiet, AcceptedIsStored
<1> QED  BY <1>1, <1>2, <1>3, StepKinds

\* The bytes of the chunks that ota_manager_receive_chunk() accepted lie in slot B
\* in the order of arrival, whatever the sizes of the chunks and whether or not a
\* later chunk failed half way.
THEOREM AcceptedBytesAreStored == Spec => []AcceptedIsStored
<1>1. Init => TypeInv /\ OtaInv /\ AcceptedIsStored
  <2>1. Init => AcceptedIsStored  BY DEF Init, AcceptedIsStored, ZeroChunkInfo
  <2> QED  BY <2>1, InitType, InitOta
<1>2. TypeInv /\ OtaInv /\ AcceptedIsStored /\ [Next]_vars => (TypeInv /\ OtaInv /\ AcceptedIsStored)'
  BY StepType, StepOta, StepStored
<1> QED  BY <1>1, <1>2, PTL DEF Spec

-----------------------------------------------------------------------------
(* Full chunks are stored at the place they have in the image.             *)

\* No more bytes are received than full chunks would have brought, and where it is
\* as many, byte k came from place k of an image.
AcceptedInOrder ==
    /\ chunk_info.received_bytes <= chunk_info.next_expected_chunk * chunk_info.chunk_size
    /\ chunk_info.received_bytes = chunk_info.next_expected_chunk * chunk_info.chunk_size =>
          \A k \in 1 .. Len(accepted) : \E i \in Images : accepted[k] = <<i, k - 1>>

\* A transfer that begins has received nothing.
LEMMA FreshInOrder ==
    ASSUME accepted = <<>>, chunk_info.received_bytes = 0, chunk_info.next_expected_chunk = 0,
           chunk_info.chunk_size \in Nat
    PROVE  AcceptedInOrder
BY DEF AcceptedInOrder

\* A short chunk falls behind the full ones for the rest of the transfer.
LEMMA OneMoreChunk ==
    ASSUME NEW n \in Nat, NEW full \in Nat, NEW received \in Nat, NEW size \in Nat,
           received <= n * full, size <= full
    PROVE  /\ received + size <= (n + 1) * full
           /\ received + size = (n + 1) * full => received = n * full
<1>1. n * full \in Nat  BY Z3
<1>2. (n + 1) * full = n * full + full  BY Z3
<1> QED  BY <1>1, <1>2

\* Every step keeps AcceptedInOrder.
LEMMA StepInOrder ==
    TypeInv /\ AcceptedIsStored /\ AcceptedInOrder /\ [Next]_vars => AcceptedInOrder'
<1> SUFFICES ASSUME TypeInv, AcceptedIsStored, AcceptedInOrder, [Next]_vars PROVE AcceptedInOrder'
  OBVIOUS
<1>1. CASE \/ OtaManagerInit
           \/ \E total_size \in TotalSizes, chunk_size \in ChunkSizes : StartUpdate(total_size, chunk_size)
  <2>1. chunk_info'.chunk_size \in Nat
    BY StepType, Numbers DEF TypeInv, TypeOK, ChunkInfo
  <2>2. accepted' = <<>> /\ chunk_info'.received_bytes = 0 /\ chunk_info'.next_expected_chunk = 0
    BY <1>1, FreshTransfer
  <2>3. chunk_info'.next_expected_chunk * chunk_info'.chunk_size = 0  BY <2>1, <2>2
  <2>4. \A k \in 1 .. Len(accepted') : FALSE  BY <2>2
  <2> QED  BY <2>2, <2>3, <2>4 DEF AcceptedInOrder
<1>2. ASSUME NEW chunk_number \in ChunkNumbers, NEW size \in DataSizes, NEW i \in Images,
             ReceiveChunk(chunk_number, size, i)
      PROVE  AcceptedInOrder'
  <2> DEFINE n == chunk_info.next_expected_chunk
             full == chunk_info.chunk_size
             received == chunk_info.received_bytes
             offset == chunk_number * full
  <2>1. /\ size \in Nat /\ received \in Nat /\ n \in Nat /\ full \in Nat /\ offset \in Nat
    BY ChunkNumbersOf
  <2>2. chunk_number = n /\ size <= full  BY <1>2 DEF ReceiveChunk, ChunkAccepted
  <2>3. accepted \in Seq(ImageByte) /\ Len(accepted) = received
    BY DEF TypeInv, TypeOK, AcceptedIsStored
  <2>4. received <= n * full
        /\ (received = n * full => \A k \in 1 .. received : \E im \in Images : accepted[k] = <<im, k - 1>>)
    BY <2>3 DEF AcceptedInOrder
  <2>5. \/ UNCHANGED <<chunk_info, accepted>>
        \/ /\ chunk_info'.received_bytes = received + size
           /\ chunk_info'.next_expected_chunk = n + 1 /\ chunk_info'.chunk_size = full
           /\ accepted' = accepted \o [k \in 1 .. size |-> <<i, offset + k - 1>>]
    BY <1>2, ChunkOutcome
  <2>6. CASE UNCHANGED <<chunk_info, accepted>>
    BY <2>6 DEF AcceptedInOrder
  <2>7. CASE /\ chunk_info'.received_bytes = received + size
             /\ chunk_info'.next_expected_chunk = n + 1 /\ chunk_info'.chunk_size = full
             /\ accepted' = accepted \o [k \in 1 .. size |-> <<i, offset + k - 1>>]
    <3>1. offset = n * full  BY <2>2
    <3> HIDE DEF offset
    <3> DEFINE chunk == [k \in 1 .. size |-> <<i, offset + k - 1>>]
    <3>2. chunk \in [1 .. size -> ImageByte]
      <4>1. \A k \in 1 .. size : <<i, offset + k - 1>> \in ImageByte  BY <2>1 DEF ImageByte
      <4> QED  BY <4>1
    <3>3. accepted' = accepted \o chunk /\ \A k \in 1 .. size : chunk[k] = <<i, offset + k - 1>>
      BY <2>7
    <3> HIDE DEF chunk
    <3>4. /\ Len(accepted') = received + size
          /\ \A k \in 1 .. received : accepted'[k] = accepted[k]
          /\ \A k \in 1 .. size : accepted'[received + k] = chunk[k]
      <4>1. /\ Len(accepted \o chunk) = Len(accepted) + size
            /\ \A k \in 1 .. Len(accepted) : (accepted \o chunk)[k] = accepted[k]
            /\ \A k \in 1 .. size : (accepted \o chunk)[Len(accepted) + k] = chunk[k]
        <5>1. accepted \in Seq(ImageByte)  BY <2>3
        <5>2. size \in Nat  BY <2>1
        <5> QED  BY ONLY <3>2, <5>1, <5>2, Continued
      <4> QED  BY <4>1, <3>3, <2>3
    <3> HIDE DEF n, full, received
    <3>5. /\ received + size <= (n + 1) * full
          /\ received + size = (n + 1) * full => received = n * full
      BY <2>1, <2>2, <2>4, OneMoreChunk
    <3>6. ASSUME received = n * full, NEW k \in 1 .. received + size
          PROVE  \E im \in Images : accepted'[k] = <<im, k - 1>>
      <4>1. CASE k <= received  BY <4>1, <3>6, <3>4, <2>4, <2>1
      <4>2. CASE k > received
        <5> DEFINE j == k - received
        <5>1. j \in 1 .. size /\ received + j = k /\ received + j - 1 = k - 1
          BY <4>2, <2>1
        <5> HIDE DEF j
        <5>2. chunk[j] = <<i, received + j - 1>>  BY <5>1, <3>1, <3>3, <3>6
        <5>3. accepted'[k] = <<i, k - 1>>  BY <5>1, <5>2, <3>4
        <5> QED  BY <5>3
      <4> QED  BY <4>1, <4>2, <2>1
    <3>7. /\ chunk_info'.received_bytes = received + size
          /\ chunk_info'.next_expected_chunk * chunk_info'.chunk_size = (n + 1) * full
      BY <2>7
    <3> QED  BY <3>4, <3>5, <3>6, <3>7 DEF AcceptedInOrder
  <2> QED  BY <2>5, <2>6, <2>7
<1>3. CASE Quiet
  BY <1>3 DEF Quiet, AcceptedInOrder
<1> QED  BY <1>1, <1>2, <1>3, StepKinds

\* While all chunks were full, byte k of slot B is byte k of an image: a chunk that
\* is repeated, lost or out of order shifts nothing.
THEOREM ImageStoredInOrder == Spec => []StoredInOrder
<1> DEFINE IInv == TypeInv /\ OtaInv /\ AcceptedIsStored /\ AcceptedInOrder
<1>1. Init => IInv
  <2>1. Init => AcceptedIsStored  BY DEF Init, AcceptedIsStored, ZeroChunkInfo
  <2>2. Init => AcceptedInOrder
    BY FreshInOrder DEF Init, ZeroChunkInfo
  <2> QED  BY <2>1, <2>2, InitType, InitOta
<1>2. IInv /\ [Next]_vars => IInv'
  BY StepType, StepOta, StepStored, StepInOrder
<1>3. IInv => StoredInOrder
  <2> SUFFICES ASSUME TypeInv, AcceptedIsStored, AcceptedInOrder,
                      chunk_info.received_bytes = chunk_info.next_expected_chunk * chunk_info.chunk_size,
                      NEW k \in 0 .. chunk_info.received_bytes - 1
               PROVE  \E i \in Images : flash[APP_SLOT_B_ADDRESS + k] = <<i, k>>
    BY DEF StoredInOrder
  <2>1. chunk_info.received_bytes \in Nat /\ APP_SLOT_B_ADDRESS \in Nat
        /\ Len(accepted) = chunk_info.received_bytes
    BY Numbers DEF TypeInv, TypeOK, ChunkInfo, AcceptedIsStored
  <2>2. k + 1 \in 1 .. Len(accepted) /\ (k + 1) - 1 = k
        /\ APP_SLOT_B_ADDRESS + (k + 1) - 1 = APP_SLOT_B_ADDRESS + k
    BY <2>1
  <2>3. PICK i \in Images : accepted[k + 1] = <<i, (k + 1) - 1>>  BY <2>2 DEF AcceptedInOrder
  <2>4. flash[APP_SLOT_B_ADDRESS + (k + 1) - 1] = accepted[k + 1]  BY <2>2 DEF AcceptedIsStored
  <2> QED  BY <2>2, <2>3, <2>4
<1> QED  BY <1>1, <1>2, <1>3, PTL DEF Spec

-----------------------------------------------------------------------------
(* The flash takes what fits in the page that was erased.                  *)

EndOfTransfer == APP_SLOT_B_ADDRESS + chunk_info.received_bytes

\* While a transfer runs, the rest of the first page is still erased if the last
\* chunk ended with a word, and otherwise padding follows it, at which the next
\* chunk is going to fail.
TransferInv ==
    ota_state \in {"WAITING_FOR_START", "RECEIVING_DATA"} =>
        /\ last_error = "NONE"
        /\ chunk_info.received_bytes % WORD_SIZE = 0 =>
              \A x \in Addresses :
                 EndOfTransfer <= x /\ x < APP_SLOT_B_ADDRESS + FLASH_PAGE_SIZE => flash[x] = Erased
        /\ chunk_info.received_bytes % WORD_SIZE # 0 =>
              EndOfTransfer \in Addresses /\ flash[EndOfTransfer] = Pad

\* Slot B begins with a page, which the flash holds completely.
LEMMA FirstPage ==
    /\ PageStart(APP_SLOT_B_ADDRESS) = APP_SLOT_B_ADDRESS
    /\ APP_SLOT_B_ADDRESS + FLASH_PAGE_SIZE <= FLASH_TOTAL_SIZE
<1>1. /\ APP_SLOT_B_ADDRESS \in Nat /\ FLASH_TOTAL_SIZE \in Nat /\ FLASH_PAGE_SIZE \in Nat \ {0}
      /\ APP_SLOT_B_ADDRESS < FLASH_TOTAL_SIZE
  BY LayoutAssumption, FlashAssumption, Numbers
<1>2. APP_SLOT_B_ADDRESS % FLASH_PAGE_SIZE = 0 /\ FLASH_TOTAL_SIZE % FLASH_PAGE_SIZE = 0
  BY LayoutAssumption, FlashAssumption, Zenon
<1>3. APP_SLOT_B_ADDRESS + FLASH_PAGE_SIZE <= FLASH_TOTAL_SIZE
  BY ONLY <1>1, <1>2, WholeWords, Zenon
<1>4. PageStart(APP_SLOT_B_ADDRESS) = APP_SLOT_B_ADDRESS  BY ONLY <1>1, <1>2 DEF PageStart
<1> QED  BY <1>3, <1>4

\* A remainder of a sum with a multiple, and of the two numbers of a sum.
LEMMA RemainderOfSum ==
    ASSUME NEW n \in Nat \ {0}, NEW a \in Nat, NEW b \in Nat, a % n = 0
    PROVE  (a + b) % n = b % n
<1>1. a = n * (a \div n) /\ b = n * (b \div n) + (b % n) /\ b % n \in 0 .. n - 1
      /\ a \div n \in Int /\ b \div n \in Int
  BY Z3
<1>2. a + b = n * ((a \div n) + (b \div n)) + (b % n)
  BY <1>1, Z3
<1> DEFINE q == (a \div n) + (b \div n)
           r == b % n
<1>3. q \in Int /\ r \in 0 .. n - 1 /\ a + b = n * q + r  BY <1>1, <1>2
<1> HIDE DEF q, r
<1> DEFINE d == (a + b) \div n
           e == (a + b) % n
<1>4. d \in Int /\ e \in 0 .. n - 1 /\ a + b = n * d + e  BY Z3
<1> HIDE DEF d, e
<1>5. ASSUME NEW u \in Int, NEW v \in Int, u < v PROVE n * u + n <= n * v
  <2>1. n * (u + 1) <= n * v  BY <1>5, Z3
  <2> QED  BY <2>1, Z3
<1>6. n * q \in Int /\ n * d \in Int  BY <1>3, <1>4, Z3
<1>7. d = q
  <2>1. ~(d < q)  BY <1>3, <1>4, <1>5, <1>6
  <2>2. ~(q < d)  BY <1>3, <1>4, <1>5, <1>6
  <2> QED  BY <1>3, <1>4, <2>1, <2>2
<1>8. e = r  BY <1>3, <1>4, <1>6, <1>7
<1> QED  BY <1>8 DEF r, e

\* While the transfer is word by word and inside the first page, the flash takes
\* every word of the next chunk.
LEMMA ErasedWordsAreTaken ==
    ASSUME TypeInv, TransferInv, NEW size \in Nat, size <= chunk_info.chunk_size,
           ota_state \in {"WAITING_FOR_START", "RECEIVING_DATA"},
           chunk_info.received_bytes % WORD_SIZE = 0, ~LeavesFirstPage
    PROVE  FailingWords(flash, WriteAddress, size) = {}
<1> DEFINE received == chunk_info.received_bytes
           full == chunk_info.chunk_size
<1>1. /\ received \in Nat /\ full \in Nat /\ WORD_SIZE \in Nat \ {0} /\ FLASH_PAGE_SIZE \in Nat
      /\ APP_SLOT_B_ADDRESS \in Nat /\ FLASH_TOTAL_SIZE \in Nat
  BY Numbers, FlashAssumption DEF TypeInv, TypeOK, ChunkInfo
<1>2. WriteAddress = APP_SLOT_B_ADDRESS + received /\ WriteAddress = EndOfTransfer
  BY DEF WriteAddress, EndOfTransfer
<1>3. received + full <= FLASH_PAGE_SIZE
  BY <1>1, <1>2, FirstPage DEF LeavesFirstPage
<1>4. ASSUME NEW w \in WordsOf(WriteAddress, size) PROVE ~WriteFails(flash, w)
  <2>1. PICK j \in 0 .. size - 1 : w = WriteAddress + j /\ j % WORD_SIZE = 0  BY DEF WordsOf
  <2>2. j \in Nat /\ j < full /\ received + j \in Nat /\ received + j < FLASH_PAGE_SIZE
    BY <1>1, <1>3
  <2>3. received % WORD_SIZE = 0 /\ FLASH_PAGE_SIZE % WORD_SIZE = 0
    BY FlashAssumption, Zenon
  <2>4. (received + j) % WORD_SIZE = 0
    BY ONLY <1>1, <2>1, <2>2, <2>3, RemainderOfSum
  <2>5. (received + j) + WORD_SIZE <= FLASH_PAGE_SIZE
    BY ONLY <1>1, <2>2, <2>3, <2>4, WholeWords, Zenon
  <2>6. w \in Nat /\ EndOfTransfer <= w /\ w + WORD_SIZE <= APP_SLOT_B_ADDRESS + FLASH_PAGE_SIZE
    BY <1>1, <1>2, <2>1, <2>2, <2>5
  <2>7. ~(w >= FLASH_TOTAL_SIZE - (WORD_SIZE - 1))
    BY <1>1, <2>6, FirstPage
  <2>8. ASSUME NEW i \in 0 .. WORD_SIZE - 1 PROVE flash[w + i] = Erased
    <3>1. w + i \in Addresses /\ EndOfTransfer <= w + i /\ w + i < APP_SLOT_B_ADDRESS + FLASH_PAGE_SIZE
      BY <1>1, <1>2, <2>6, FirstPage DEF Addresses
    <3> QED  BY <3>1, <2>3 DEF TransferInv
  <2> QED  BY <2>7, <2>8 DEF WriteFails
<1> QED  BY <1>4 DEF FailingWords

\* A chunk is taken only after one that ended with a word.
LEMMA AfterWholeWords ==
    ASSUME TypeInv, TransferInv, ota_state \in {"WAITING_FOR_START", "RECEIVING_DATA"},
           NEW size \in Nat \ {0}, FailingWords(flash, WriteAddress, size) = {}
    PROVE  chunk_info.received_bytes % WORD_SIZE = 0
<1> SUFFICES ASSUME chunk_info.received_bytes % WORD_SIZE # 0 PROVE FALSE  OBVIOUS
<1>1. WriteAddress = EndOfTransfer  BY DEF WriteAddress, EndOfTransfer
<1>2. flash[WriteAddress] = Pad  BY <1>1 DEF TransferInv
<1>3. flash \in Flash /\ WriteAddress \in Nat /\ 0 \in 0 .. size - 1 /\ 0 \in Nat
      /\ WORD_SIZE \in Nat \ {0}
  BY Numbers, FlashAssumption DEF TypeInv, TypeOK, BootTypeOK, ChunkInfo, WriteAddress
<1>4. PICK w \in WordsOf(WriteAddress, size) : w <= WriteAddress + 0 /\ WriteAddress + 0 < w + WORD_SIZE
  BY <1>3, WordOfByte
<1>5. w \in Nat /\ ~WriteFails(flash, w)  BY <1>3, WordsOfBounds DEF FailingWords
<1>6. flash[WriteAddress] = Erased
  <2>1. w <= WriteAddress /\ WriteAddress < w + WORD_SIZE  BY <1>3, <1>4, <1>5
  <2> QED  BY <1>3, <1>5, <2>1, WordInside
<1> QED  BY <1>2, <1>6, FlashAssumption

\* What ota_manager_start_update() leaves for the first chunk.
LEMMA ErasedAtStart ==
    ASSUME TypeInv, NEW total_size \in TotalSizes, NEW chunk_size \in ChunkSizes,
           StartUpdate(total_size, chunk_size)
    PROVE  TransferInv'
<1> SUFFICES ASSUME ota_state' \in {"WAITING_FOR_START", "RECEIVING_DATA"} PROVE TransferInv'
  BY DEF TransferInv
<1>1. /\ flash' = PageErased(flash, APP_SLOT_B_ADDRESS)
      /\ last_error' = "NONE" /\ chunk_info'.received_bytes = 0
  BY DEF StartUpdate, UpdateState, ZeroChunkInfo
<1>2. WORD_SIZE \in Nat \ {0} /\ APP_SLOT_B_ADDRESS \in Nat  BY FlashAssumption, Numbers
<1>3. chunk_info'.received_bytes % WORD_SIZE = 0 /\ EndOfTransfer' = APP_SLOT_B_ADDRESS
  BY <1>1, <1>2 DEF EndOfTransfer
<1>4. ASSUME NEW x \in Addresses, APP_SLOT_B_ADDRESS <= x, x < APP_SLOT_B_ADDRESS + FLASH_PAGE_SIZE
      PROVE  flash'[x] = Erased
  BY <1>1, <1>4, FirstPage DEF PageErased
<1> QED  BY <1>1, <1>3, <1>4 DEF TransferInv

\* What a chunk leaves for the next one.
LEMMA ErasedAfterChunk ==
    ASSUME TypeInv, TransferInv, NEW chunk_number \in ChunkNumbers, NEW size \in DataSizes,
           NEW i \in Images, ReceiveChunk(chunk_number, size, i)
    PROVE  TransferInv'
<1> DEFINE offset == chunk_number * chunk_info.chunk_size
           received == chunk_info.received_bytes
<1> SUFFICES ASSUME ota_state' \in {"WAITING_FOR_START", "RECEIVING_DATA"} PROVE TransferInv'
  BY DEF TransferInv
<1>1. /\ flash' = ChunkWritten(flash, WriteAddress, size, i, offset)
      /\ FailingWords(flash, WriteAddress, size) = {}
      /\ last_error' = "NONE" /\ chunk_info'.received_bytes = received + size
  BY ChunkOutcome
<1>2. /\ size \in Nat /\ received \in Nat /\ offset \in Nat /\ WriteAddress \in Nat
      /\ APP_SLOT_B_ADDRESS \in Nat /\ WORD_SIZE \in Nat \ {0}
  BY ChunkNumbersOf, Numbers, FlashAssumption
<1>3. size # 0 /\ ota_state \in {"WAITING_FOR_START", "RECEIVING_DATA"}
  BY DEF ReceiveChunk, ChunkAccepted
<1>4. flash \in Flash  BY DEF TypeInv, TypeOK, BootTypeOK
<1> HIDE DEF offset
<1>5. received % WORD_SIZE = 0
  BY <1>1, <1>2, <1>3, AfterWholeWords
<1>6. (received + size) % WORD_SIZE = size % WORD_SIZE
  BY ONLY <1>2, <1>5, RemainderOfSum
<1>7. EndOfTransfer' = WriteAddress + size
  BY <1>1, <1>2 DEF EndOfTransfer, WriteAddress
<1>8. ASSUME size % WORD_SIZE = 0, NEW x \in Addresses, WriteAddress + size <= x,
             x < APP_SLOT_B_ADDRESS + FLASH_PAGE_SIZE
      PROVE  flash'[x] = Erased
  <2>1. ChunkWritten(flash, WriteAddress, size, i, offset)[x] = flash[x]
    <3>1. size \in Nat /\ offset \in Nat /\ WriteAddress \in Nat  BY <1>2
    <3>2. size % WORD_SIZE = 0 /\ WriteAddress + size <= x =>
             ChunkWritten(flash, WriteAddress, size, i, offset)[x] = flash[x]
      BY <3>1, <1>4, ChunkEndsOnWord
    <3> QED  BY <3>2, <1>8
  <2>2. EndOfTransfer <= x  BY <1>2, <1>8 DEF EndOfTransfer, WriteAddress, Addresses
  <2>3. flash[x] = Erased  BY <1>3, <1>5, <1>8, <2>2 DEF TransferInv
  <2> QED  BY <1>1, <2>1, <2>3
<1>9. ASSUME size % WORD_SIZE # 0
      PROVE  WriteAddress + size \in Addresses /\ flash'[WriteAddress + size] = Pad
  BY <1>1, <1>2, <1>4, <1>9, ChunkPadded
<1> QED  BY <1>1, <1>6, <1>7, <1>8, <1>9 DEF TransferInv

\* Every step keeps TransferInv.
LEMMA StepTransfer == TypeInv /\ TransferInv /\ [Next]_vars => TransferInv'
<1> SUFFICES ASSUME TypeInv, TransferInv, [Next]_vars PROVE TransferInv'  OBVIOUS
<1>1. CASE \/ \E total_size \in TotalSizes, chunk_size \in ChunkSizes : StartUpdate(total_size, chunk_size)
           \/ \E chunk_number \in ChunkNumbers, size \in DataSizes, i \in Images :
                 ReceiveChunk(chunk_number, size, i)
  BY <1>1, ErasedAtStart, ErasedAfterChunk
<1>2. CASE \/ OtaManagerInit \/ FinalizeUpdate \/ ValidateUpdate \/ AbortUpdate \/ ApplyUpdate
  <2>1. ota_state' \notin {"WAITING_FOR_START", "RECEIVING_DATA"}
    BY <1>2 DEF OtaManagerInit, FinalizeUpdate, ValidateUpdate, AbortUpdate, ApplyUpdate,
                Rejected, Validated, UpdateState
  <2> QED  BY <2>1 DEF TransferInv
<1>3. CASE BootloaderStep \/ UNCHANGED vars
  <2>1. UNCHANGED <<flash, chunk_info, ota_state, last_error>>
    BY <1>3 DEF BootloaderStep, CheckUpdate, Rollback, JumpToApp, SwitchFails, SwitchDone, vars, otaVars
  <2> QED  BY <2>1 DEF TransferInv, EndOfTransfer
<1> QED  BY <1>1, <1>2, <1>3 DEF Next

\* The step that a transfer is refused by the flash.
RefusedForAReason ==
    (ota_state \in {"WAITING_FOR_START", "RECEIVING_DATA"} /\ last_error' = "FLASH_ERROR") =>
        (chunk_info.received_bytes % WORD_SIZE # 0 \/ LeavesFirstPage)

\* A step that is refused by the flash has one of the two reasons.
LEMMA StepRefused == TypeInv /\ TransferInv /\ [Next]_vars => RefusedForAReason
<1> SUFFICES ASSUME TypeInv, TransferInv, [Next]_vars,
                    ota_state \in {"WAITING_FOR_START", "RECEIVING_DATA"}, last_error' = "FLASH_ERROR",
                    chunk_info.received_bytes % WORD_SIZE = 0, ~LeavesFirstPage
             PROVE  FALSE
  BY DEF RefusedForAReason
<1>1. ASSUME NEW chunk_number \in ChunkNumbers, NEW size \in DataSizes, NEW i \in Images,
             ReceiveChunk(chunk_number, size, i)
      PROVE  FALSE
  <2>1. FailingWords(flash, WriteAddress, size) # {} /\ size <= chunk_info.chunk_size
    BY <1>1 DEF ReceiveChunk, UpdateState, ChunkAccepted
  <2>2. size \in Nat  BY Numbers
  <2> QED  BY <2>1, <2>2, ErasedWordsAreTaken
<1>2. CASE \E total_size \in TotalSizes, chunk_size \in ChunkSizes : StartUpdate(total_size, chunk_size)
  BY <1>2 DEF StartUpdate
<1>3. CASE OtaManagerInit \/ AbortUpdate \/ ApplyUpdate
  BY <1>3 DEF OtaManagerInit, AbortUpdate, ApplyUpdate, UpdateState
<1>4. CASE FinalizeUpdate \/ ValidateUpdate
  BY <1>4 DEF FinalizeUpdate, ValidateUpdate, Rejected, Validated, UpdateState, ErrorOf
<1>5. CASE BootloaderStep \/ UNCHANGED vars
  BY <1>5 DEF BootloaderStep, vars, otaVars, TransferInv
<1> QED  BY <1>1, <1>2, <1>3, <1>4, <1>5 DEF Next

\* A chunk is refused by the flash only when an earlier chunk ended inside a word,
\* or when its words lie beyond the page that ota_manager_start_update() erased.
THEOREM FirstPageIsTaken == Spec => FirstPageTransferSucceeds
<1>1. Init => TypeInv /\ TransferInv
  <2>1. Init => TransferInv  BY DEF Init, TransferInv
  <2> QED  BY <2>1, InitType
<1>2. TypeInv /\ TransferInv /\ [Next]_vars => (TypeInv /\ TransferInv)'
  BY StepType, StepTransfer
<1>3. TypeInv /\ TransferInv /\ [Next]_vars => [RefusedForAReason]_vars
  BY StepRefused
<1> QED  BY <1>1, <1>2, <1>3, PTL DEF Spec, FirstPageTransferSucceeds, RefusedForAReason
=============================================================================
