----------------------------- MODULE ByteReader -----------------------------
(***************************************************************************)
(* How the relayer reads what Poly serialises (src/service/helper.go:      *)
(* 56-117).  A buffer is a sequence of bytes and an offset the number of   *)
(* bytes passed.  A reading is a record: whether the buffer is long        *)
(* enough, what was read, and the offset after it.                         *)
(*                                                                         *)
(* A byte has Base values, 256 in the code.  The three greatest announce   *)
(* that a number follows in two, four or eight bytes (0xFD, 0xFE, 0xFF).   *)
(* No count of Poly's reaches 2^63, where int(count) would be negative.    *)
(***************************************************************************)
EXTENDS Integers, SequencesExt

CONSTANT Base        \* the number of values of a byte

ASSUME BaseAssumption == Base \in Nat /\ Base > 3

Byte == 0..(Base - 1)

TooShort == [ok |-> FALSE, value |-> 0, next |-> 0]

Reading(v, offset) == [ok |-> TRUE, value |-> v, next |-> offset]

ReadBytes(buffer, offset, count) ==
    IF offset + count > Len(buffer) THEN TooShort
      ELSE Reading(SubSeq(buffer, offset + 1, offset + count), offset + count)

LittleEndian(digits) == FoldRight(LAMBDA d, high : d + Base * high, digits, 0)

(* ReadVarUInt16, ReadVarUInt32 and ReadVarUInt64.                         *)
ReadNumber(buffer, offset, width) ==
    LET digits == ReadBytes(buffer, offset, width)
    IN  IF digits.ok THEN Reading(LittleEndian(digits.value), digits.next)
                     ELSE TooShort

Width == [marker \in (Base - 3)..(Base - 1) |-> <<2, 4, 8>>[marker - Base + 4]]

ReadVarUInt(buffer, offset) ==
    LET first == ReadBytes(buffer, offset, 1)
        marker == first.value[1]
    IN  IF ~first.ok THEN TooShort
          ELSE IF marker \in DOMAIN Width
            THEN ReadNumber(buffer, first.next, Width[marker])
            ELSE Reading(marker, first.next)

ReadVarBytes(buffer, offset) ==
    LET count == ReadVarUInt(buffer, offset)
    IN  IF count.ok THEN ReadBytes(buffer, count.next, count.value)
                    ELSE TooShort

=============================================================================
