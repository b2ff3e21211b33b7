---------------------------- MODULE FirmwareImage ----------------------------
(***************************************************************************)
(* A firmware image: how gen_appbin.py puts it together from the sections  *)
(* of the program, and how upgrade_crc_check tells a downloaded one that   *)
(* is whole from one that is not.  A byte, a checksum and a CRC are sets   *)
(* of bit positions, so that exclusive or is the symmetric difference.     *)
(***************************************************************************)
EXTENDS Integers, SequencesExt

CONSTANT IROM_AT    \* where the irom0 part begins with boot_mode 1: 0x10000

Xor(a, b) == (a \ b) \cup (b \ a)

Byte(n)    == {b \in 0..7 : (n \div 2^b) % 2 = 1}
Bytes(n)   == [i \in 1..4 |-> Byte((n \div 256^(i - 1)) % 256)]    \* little-endian
Number(bs) == FoldRight(LAMBDA byte, n : 256 * n + SumSet({2^b : b \in byte}), bs, 0)
Fill(n, byte) == [i \in 1..n |-> byte]

(* combine_bin: address, length and data of a section, padded with zeros.  *)
Up(n, align) == ((n + align - 1) \div align) * align

Padded(data, align) == Up(Len(data), align)

combine_bin(data, start_offset_addr, align) ==
    IF data = <<>> THEN <<>>
    ELSE Bytes(start_offset_addr) \o Bytes(Padded(data, align))
             \o data \o Fill(Up(Len(data), align) - Len(data), {})

BinHeader(magic, blocks) == <<Byte(magic), Byte(blocks), {}, {}>> \o Bytes(0)

BIN_MAGIC_FLASH == 233
BIN_MAGIC_IROM  == 234
CHECKSUM_INIT   == Byte(239)

Checksum(data) == FoldLeft(Xor, CHECKSUM_INIT, data)

(* gen_appbin up to the CRC: the checksum is the last byte of a line of 16.*)
gen_appbin(boot_mode, s) ==
    LET irom   == IF boot_mode = 2
                  THEN BinHeader(BIN_MAGIC_IROM, 4) \o combine_bin(s.irom, 0, 16) ELSE <<>>
        flash  == irom \o BinHeader(BIN_MAGIC_FLASH, 3) \o combine_bin(s.text, 256, 4)
                      \o combine_bin(s.data, 512, 4) \o combine_bin(s.rodata, 768, 4)
        filler == 16 - ((Len(flash) + 1) % 16)
        summed == flash \o Fill(filler, {}) \o <<Checksum(s.text \o s.data \o s.rodata)>>
    IN  IF boot_mode = 1 THEN summed \o Fill(IROM_AT - Len(summed), 0..7) \o s.irom ELSE summed

(* The boot loader: blocks one after the other from their lengths, then    *)
(* the checksum at the end of the line.                                    *)
Block(image, at) == Number(SubSeq(image, at + 5, at + 8))

LoaderAccepts(image, at) ==
    LET first  == at + 8
        second == first + 8 + Block(image, first)
        third  == second + 8 + Block(image, second)
        end    == third + 8 + Block(image, third)
        data(b) == SubSeq(image, b + 9, b + 8 + Block(image, b))
    IN  /\ image[at + 1] = Byte(BIN_MAGIC_FLASH)
        /\ image[(end \div 16) * 16 + 16] = Checksum(data(first) \o data(second) \o data(third))

FlashPart(boot_mode, s) == IF boot_mode = 2 THEN 16 + Up(Len(s.irom), 16) ELSE 0

-----------------------------------------------------------------------------
(* The CRC: polynomial 04C11DB7, the most significant bit first.           *)
Polynomial == {26, 23, 22, 16, 12, 11, 10, 8, 7, 5, 4, 2, 1, 0}

Shifted1(word) ==
    LET up == {b + 1 : b \in word} IN IF 32 \in up THEN Xor(up \ {32}, Polynomial) ELSE up

crc32_table ==
    [byte \in SUBSET (0..7) |->
        FoldLeft(LAMBDA word, i : Shifted1(word), {b + 24 : b \in byte}, [i \in 1..8 |-> i])]

xcrc32(crc, byte) ==
    Xor({b + 8 : b \in crc \cap 0..23}, crc32_table[Xor({b - 24 : b \in crc \cap 24..31}, byte)])

(* calc_img_crc takes byte after byte; here it goes on from a crc. *)
calc_img_crc(bytes, crc) == FoldLeft(xcrc32, crc, bytes)

CRC_INIT == 0..31

WordOf(bytes) == UNION {{b + 8 * (i - 1) : b \in bytes[i]} : i \in 1..4}

Stored(crc) == [i \in 1..4 |-> {b - 8 * (i - 1) : b \in crc \cap 8 * (i - 1) .. 8 * i - 1}]

(* upgrade_crc_check: over all but the last four bytes, which hold the CRC. *)
Covered_with_crc(image) == Len(image)    \* mutant: over those too

Covered(image) == Len(image) - 4

upgrade_crc_check(image, img_crc) ==
    IF img_crc = WordOf(SubSeq(image, Len(image) - 3, Len(image))) THEN 0 ELSE -1
=============================================================================
