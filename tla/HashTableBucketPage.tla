------------------------- MODULE HashTableBucketPage -------------------------
(***************************************************************************)
(* The bucket page of src/storage/page/hash_table_bucket_page.cpp, as      *)
(* operators on a page value, so that HashTable can apply them inside the  *)
(* steps of its own latch.  A page value is a record:                      *)
(*   array    : [Slots -> Pairs \cup {NoPair}]   array_                    *)
(*   occupied : [Bytes -> 0..255]                occupied_                 *)
(*   readable : [Bytes -> 0..255]                readable_                 *)
(* Slot i is bit i % 8 of byte i / 8 of each bitmap.  A slot's pair stays  *)
(* in array_ after RemoveAt and Reset, as in the code; NoPair stands for   *)
(* the zero bytes of a page NewPage hands out.                            *)
(***************************************************************************)
EXTENDS Integers, FiniteSets, Bitwise

CONSTANTS
    BucketArraySize,    \* BUCKET_ARRAY_SIZE
    NoPair              \* model value: a slot never written

Slots == 0 .. BucketArraySize - 1
Bytes == 0 .. (BucketArraySize - 1) \div 8

\* The zeroed data of a page NewPage hands out.
EmptyPage == [array    |-> [i \in Slots |-> NoPair],
              occupied |-> [b \in Bytes |-> 0],
              readable |-> [b \in Bytes |-> 0]]

\* 1 << yu, with yu = bucket_idx % 8.
Bit(i) == 2 ^ (i % 8)

\* IsOccupied / IsReadable: (bitmap[di] >> yu) & 1, with di = bucket_idx / 8;
\* the shift is a division by 1 << yu and the mask a remainder modulo 2.
IsOccupied(pg, i) == (pg.occupied[i \div 8] \div Bit(i)) % 2 = 1
IsReadable(pg, i) == (pg.readable[i \div 8] \div Bit(i)) % 2 = 1

\* SetOccupied / SetReadable: bitmap[di] |= 1 << yu.
SetOccupied(pg, i) == [pg EXCEPT !.occupied[i \div 8] = @ | Bit(i)]
SetReadable(pg, i) == [pg EXCEPT !.readable[i \div 8] = @ | Bit(i)]

\* RemoveAt: readable_[di] &= ~(1 << yu), taken back to a uint8_t.
RemoveAt(pg, i) == [pg EXCEPT !.readable[i \div 8] = @ & (255 - Bit(i))]

ReadableSlots(pg) == {i \in Slots : IsReadable(pg, i)}
FirstSlot(S) == CHOOSE i \in S : \A j \in S : i <= j
Matches(pg, pr) == {i \in ReadableSlots(pg) : pg.array[i] = pr}

\* Mutant: GetValue pushes array_[i].first, the key, for the value.
GetValueFirst(pg, k) == {pg.array[i][1] : i \in {j \in ReadableSlots(pg) : pg.array[j][1] = k}}

\* GetValue: the values of the readable slots holding the key.
GetValue(pg, k) == {pg.array[i][2] : i \in {j \in ReadableSlots(pg) : pg.array[j][1] = k}}

\* Mutant: Insert without its first loop, the scan for an equal pair.
InsertNoDupScan(pg, pr) ==
    IF ReadableSlots(pg) = Slots THEN pg
    ELSE LET i == FirstSlot(Slots \ ReadableSlots(pg))
         IN  SetReadable(SetOccupied([pg EXCEPT !.array[i] = pr], i), i)

\* Insert: refuse a pair equal to a readable one; otherwise write the first
\* slot that is not readable and set its occupied and readable bits;
\* refuse when every slot is readable.
Insert(pg, pr) ==
    IF Matches(pg, pr) # {} \/ ReadableSlots(pg) = Slots THEN pg
    ELSE LET i == FirstSlot(Slots \ ReadableSlots(pg))
         IN  SetReadable(SetOccupied([pg EXCEPT !.array[i] = pr], i), i)

\* Remove: RemoveAt the first readable slot holding the pair, if any.
Remove(pg, pr) ==
    IF Matches(pg, pr) = {} THEN pg ELSE RemoveAt(pg, FirstSlot(Matches(pg, pr)))

\* IsFull / IsEmpty / NumReadable count readable bits only.
IsFull(pg) == ReadableSlots(pg) = Slots
IsEmpty(pg) == ReadableSlots(pg) = {}
NumReadable(pg) == Cardinality(ReadableSlots(pg))

\* GetArrayCopy: the readable slots' pairs, in slot order.
GetArrayCopy(pg) ==
    LET R == ReadableSlots(pg)
        Nth(n) == CHOOSE i \in R : Cardinality({j \in R : j < i}) = n - 1
    IN  [n \in 1 .. NumReadable(pg) |-> pg.array[Nth(n)]]

\* Reset: clear both bitmaps; array_ is left as it is.
Reset(pg) == [pg EXCEPT !.occupied = [b \in Bytes |-> 0],
                        !.readable = [b \in Bytes |-> 0]]

\* The set of pairs the page holds, as HashTable's callers see it.
Contents(pg) == {pg.array[i] : i \in ReadableSlots(pg)}
=============================================================================
