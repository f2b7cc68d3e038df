---------------------------- MODULE MCOtaImages ----------------------------
(* The firmware images of the instances of OtaManager.                     *)
EXTENDS OtaManager, TLC

CONSTANTS factory, update

MCImages == {factory, update}

\* Three words: the magic number with a part of the version, the rest of it (as
\* version_major, minor and patch, it is longer than a word) with the size, and the
\* CRC with the entry point.
MCFieldOffsets ==
    [magic |-> {0}, version |-> {1, 2}, size |-> {3}, crc32 |-> {4}, entry_point |-> {5}]

Image(version, size, magic_ok, crc_of) ==
    [magic_ok |-> magic_ok, version |-> version, size |-> size, crc_of |-> crc_of,
     entry_point |-> 1]

\* "factory" is a bare header with a right CRC, that of no bytes; "update" is
\* longer than a page.
RepairedMeta ==
    (factory :> Image(1, 6, TRUE, {factory})) @@ (update :> Image(2, 10, TRUE, {update}))

\* The factory image as simulated_firmware_a has it: the magic number in the
\* other byte order, and a CRC that is none.
ShippedMeta == [RepairedMeta EXCEPT ![factory] = Image(1, 6, FALSE, {})]

\* Erased bytes read as the largest number.  Other torn ones read as the newest
\* version, as the size of "update", and as no entry point.
MCTornNumber ==
    [field \in NumberFields |->
        [origins \in SUBSET Origin |->
            IF origins = {Erased} THEN UINT - 1
            ELSE CASE field = "version" -> 3 [] field = "size" -> 10 [] OTHER -> 0]]
=============================================================================
