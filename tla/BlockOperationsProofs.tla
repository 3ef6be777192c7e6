------------------------ MODULE BlockOperationsProofs ------------------------
(***************************************************************************)
(* Proofs about BlockOperations: what the byte arithmetic of the bitmap    *)
(* does to its bits, and that it implements BlockAllocator.                *)
(***************************************************************************)
EXTENDS BlockOperations, WellFoundedInduction, TLAPS

Maps == [0 .. BLOCK_SIZE - 1 -> 0 .. 255]
Bit(byte, mask) == (byte \div mask) % 2
Masks == {1, 2, 4, 8, 16, 32, 64, 128}

-----------------------------------------------------------------------------
(* One byte.                                                               *)

LEMMA MaskLemma ==
  ASSUME NEW i \in Nat
  PROVE  \/ (i % 8) = 0 /\ Mask(i) = 1
         \/ (i % 8) = 1 /\ Mask(i) = 2
         \/ (i % 8) = 2 /\ Mask(i) = 4
         \/ (i % 8) = 3 /\ Mask(i) = 8
         \/ (i % 8) = 4 /\ Mask(i) = 16
         \/ (i % 8) = 5 /\ Mask(i) = 32
         \/ (i % 8) = 6 /\ Mask(i) = 64
         \/ (i % 8) = 7 /\ Mask(i) = 128
<1> DEFINE k == i % 8
<1>1. \/ k = 0 \/ k = 1 \/ k = 2 \/ k = 3
      \/ k = 4 \/ k = 5 \/ k = 6 \/ k = 7
  OBVIOUS
<1>2. k = 0 => Mask(i) = 1
  BY 2 ^ 0 = 1 DEF Mask
<1>3. k = 1 => Mask(i) = 2
  BY 2 ^ 1 = 2 DEF Mask
<1>4. k = 2 => Mask(i) = 4
  BY 2 ^ 2 = 4 DEF Mask
<1>5. k = 3 => Mask(i) = 8
  BY 2 ^ 3 = 8 DEF Mask
<1>6. k = 4 => Mask(i) = 16
  BY 2 ^ 4 = 16 DEF Mask
<1>7. k = 5 => Mask(i) = 32
  BY 2 ^ 5 = 32 DEF Mask
<1>8. k = 6 => Mask(i) = 64
  BY 2 ^ 6 = 64 DEF Mask
<1>9. k = 7 => Mask(i) = 128
  BY 2 ^ 7 = 128 DEF Mask
<1> HIDE DEF k
<1>10. \/ k = 0 /\ Mask(i) = 1
       \/ k = 1 /\ Mask(i) = 2
       \/ k = 2 /\ Mask(i) = 4
       \/ k = 3 /\ Mask(i) = 8
       \/ k = 4 /\ Mask(i) = 16
       \/ k = 5 /\ Mask(i) = 32
       \/ k = 6 /\ Mask(i) = 64
       \/ k = 7 /\ Mask(i) = 128
  BY <1>1, <1>2, <1>3, <1>4, <1>5, <1>6, <1>7, <1>8, <1>9
<1>11. QED
  BY <1>10 DEF k

\* Adding the mask of a clear bit sets it, taking away that of a set bit clears
\* it, and no other bit of the byte changes.
Sets(m) == \A x \in 0 .. 255 : Bit(x, m) = 0 =>
  x + m \in 0 .. 255 /\ Bit(x + m, m) = 1 /\ \A l \in Masks \ {m} : Bit(x + m, l) = Bit(x, l)
Clears(m) == \A x \in 0 .. 255 : Bit(x, m) = 1 =>
  x - m \in 0 .. 255 /\ Bit(x - m, m) = 0 /\ \A l \in Masks \ {m} : Bit(x - m, l) = Bit(x, l)

LEMMA SetsLemma == \A m \in Masks : Sets(m)
<1> USE DEF Sets, Masks, Bit
<1>1. Sets(1) BY SMT
<1>2. Sets(2) BY SMTT(120)
<1>3. Sets(4) BY SMTT(120)
<1>4. Sets(8) BY SMT
<1>5. Sets(16) BY SMT
<1>6. Sets(32) BY SMT
<1>7. Sets(64) BY SMT
<1>8. Sets(128) BY SMT
<1> HIDE DEF Sets, Bit
<1>9. QED
  BY <1>1, <1>2, <1>3, <1>4, <1>5, <1>6, <1>7, <1>8

LEMMA ClearsLemma == \A m \in Masks : Clears(m)
<1> USE DEF Clears, Masks, Bit
<1>1. Clears(1) BY SMTT(120)
<1>2. Clears(2) BY SMT
<1>3. Clears(4) BY SMTT(120)
<1>4. Clears(8) BY SMTT(120)
<1>5. Clears(16) BY SMT
<1>6. Clears(32) BY SMT
<1>7. Clears(64) BY SMT
<1>8. Clears(128) BY SMT
<1> HIDE DEF Clears, Bit
<1>9. QED
  BY <1>1, <1>2, <1>3, <1>4, <1>5, <1>6, <1>7, <1>8

-----------------------------------------------------------------------------
(* One map.                                                                *)

LEMMA PlaceLemma ==
  /\ BLOCK_SIZE \in Nat /\ TOTAL_BLOCKS \in Nat /\ TOTAL_BLOCKS <= 8 * BLOCK_SIZE
  /\ \A i \in Bits : i \in Nat /\ Byte(i) \in 0 .. BLOCK_SIZE - 1 /\ Mask(i) \in Masks
  /\ \A i, j \in Bits : Byte(i) = Byte(j) /\ Mask(i) = Mask(j) => i = j
<1>1. BLOCK_SIZE \in Nat /\ TOTAL_BLOCKS \in Nat /\ TOTAL_BLOCKS <= 8 * BLOCK_SIZE
  BY SizeAssumption
<1>2. ASSUME NEW i \in Bits
      PROVE  i \in Nat /\ Byte(i) \in 0 .. BLOCK_SIZE - 1 /\ Mask(i) \in Masks
  <2>1. i \in Nat /\ Byte(i) \in 0 .. BLOCK_SIZE - 1
    BY <1>1 DEF Bits, Byte
  <2>2. QED
    BY <2>1, MaskLemma DEF Masks
<1>3. ASSUME NEW i \in Bits, NEW j \in Bits, Byte(i) = Byte(j), Mask(i) = Mask(j)
      PROVE  i = j
  <2>1. (i % 8) = (j % 8)
    BY <1>2, <1>3, MaskLemma
  <2>2. QED
    BY <1>2, <1>3, <2>1 DEF Byte
<1>4. QED
  BY <1>1, <1>2, <1>3

LEMMA GetLemma ==
  ASSUME NEW map \in Maps, NEW i \in Bits
  PROVE  bitmap_get(map, i) = Bit(map[Byte(i)], Mask(i)) /\ bitmap_get(map, i) \in {0, 1}
<1>1. bitmap_get(map, i) = Bit(map[Byte(i)], Mask(i))
  BY PlaceLemma DEF bitmap_get, Bit
<1>2. map[Byte(i)] \in 0 .. 255
  BY PlaceLemma DEF Maps
<1>3. \A x \in 0 .. 255, m \in Masks : Bit(x, m) \in {0, 1}
  BY DEF Bit, Masks
<1>4. QED
  BY <1>1, <1>2, <1>3, PlaceLemma

LEMMA SetLemma ==
  ASSUME NEW map \in Maps, NEW i \in Bits
  PROVE  /\ bitmap_set(map, i) \in Maps
         /\ bitmap_get(bitmap_set(map, i), i) = 1
         /\ \A j \in Bits \ {i} : bitmap_get(bitmap_set(map, i), j) = bitmap_get(map, j)
<1>1. CASE bitmap_get(map, i) = 1
  BY <1>1 DEF bitmap_set
<1>2. CASE bitmap_get(map, i) # 1
  <2> DEFINE after == [map EXCEPT ![Byte(i)] = @ + Mask(i)]
  <2>1. bitmap_set(map, i) = after
    BY <1>2, PlaceLemma DEF bitmap_set
  <2>2. Byte(i) \in 0 .. BLOCK_SIZE - 1 /\ map[Byte(i)] \in 0 .. 255 /\ Mask(i) \in Masks
    BY PlaceLemma DEF Maps
  <2>3. Bit(map[Byte(i)], Mask(i)) = 0
    BY <1>2, GetLemma
  <2>4. Sets(Mask(i))
    BY <2>2, SetsLemma
  <2>5. /\ map[Byte(i)] + Mask(i) \in 0 .. 255
        /\ Bit(map[Byte(i)] + Mask(i), Mask(i)) = 1
        /\ \A l \in Masks \ {Mask(i)} : Bit(map[Byte(i)] + Mask(i), l) = Bit(map[Byte(i)], l)
    BY <2>2, <2>3, <2>4 DEF Sets
  <2>6. after \in Maps /\ after[Byte(i)] = map[Byte(i)] + Mask(i)
    BY <2>2, <2>5 DEF Maps
  <2>7. bitmap_get(after, i) = 1
    BY <2>5, <2>6, GetLemma
  <2>8. ASSUME NEW j \in Bits \ {i} PROVE bitmap_get(after, j) = bitmap_get(map, j)
    <3>1. /\ bitmap_get(after, j) = Bit(after[Byte(j)], Mask(j))
          /\ bitmap_get(map, j) = Bit(map[Byte(j)], Mask(j))
      BY <2>6, GetLemma
    <3>2. CASE Byte(j) = Byte(i)
      <4>1. Mask(j) \in Masks \ {Mask(i)}
        BY <3>2, PlaceLemma
      <4>2. QED
        BY <2>5, <2>6, <3>1, <3>2, <4>1
    <3>3. CASE Byte(j) # Byte(i)
      <4>1. after[Byte(j)] = map[Byte(j)]
        BY <3>3, PlaceLemma DEF Maps
      <4>2. QED
        BY <3>1, <4>1
    <3>4. QED
      BY <3>2, <3>3
  <2>9. QED
    BY <2>1, <2>6, <2>7, <2>8
<1>3. QED
  BY <1>1, <1>2

LEMMA ClearLemma ==
  ASSUME NEW map \in Maps, NEW i \in Bits
  PROVE  /\ bitmap_clear(map, i) \in Maps
         /\ bitmap_get(bitmap_clear(map, i), i) = 0
         /\ \A j \in Bits \ {i} : bitmap_get(bitmap_clear(map, i), j) = bitmap_get(map, j)
<1>1. CASE bitmap_get(map, i) = 0
  BY <1>1 DEF bitmap_clear
<1>2. CASE bitmap_get(map, i) # 0
  <2> DEFINE after == [map EXCEPT ![Byte(i)] = @ - Mask(i)]
  <2>1. bitmap_clear(map, i) = after
    BY <1>2, PlaceLemma DEF bitmap_clear
  <2>2. Byte(i) \in 0 .. BLOCK_SIZE - 1 /\ map[Byte(i)] \in 0 .. 255 /\ Mask(i) \in Masks
    BY PlaceLemma DEF Maps
  <2>3. Bit(map[Byte(i)], Mask(i)) = 1
    BY <1>2, GetLemma
  <2>4. Clears(Mask(i))
    BY <2>2, ClearsLemma
  <2>5. /\ map[Byte(i)] - Mask(i) \in 0 .. 255
        /\ Bit(map[Byte(i)] - Mask(i), Mask(i)) = 0
        /\ \A l \in Masks \ {Mask(i)} : Bit(map[Byte(i)] - Mask(i), l) = Bit(map[Byte(i)], l)
    BY <2>2, <2>3, <2>4 DEF Clears
  <2>6. after \in Maps /\ after[Byte(i)] = map[Byte(i)] - Mask(i)
    BY <2>2, <2>5 DEF Maps
  <2>7. bitmap_get(after, i) = 0
    BY <2>5, <2>6, GetLemma
  <2>8. ASSUME NEW j \in Bits \ {i} PROVE bitmap_get(after, j) = bitmap_get(map, j)
    <3>1. /\ bitmap_get(after, j) = Bit(after[Byte(j)], Mask(j))
          /\ bitmap_get(map, j) = Bit(map[Byte(j)], Mask(j))
      BY <2>6, GetLemma
    <3>2. CASE Byte(j) = Byte(i)
      <4>1. Mask(j) \in Masks \ {Mask(i)}
        BY <3>2, PlaceLemma
      <4>2. QED
        BY <2>5, <2>6, <3>1, <3>2, <4>1
    <3>3. CASE Byte(j) # Byte(i)
      <4>1. after[Byte(j)] = map[Byte(j)]
        BY <3>3, PlaceLemma DEF Maps
      <4>2. QED
        BY <3>1, <4>1
    <3>4. QED
      BY <3>2, <3>3
  <2>9. QED
    BY <2>1, <2>6, <2>7, <2>8
<1>3. QED
  BY <1>1, <1>2

\* The scan finds the first clear bit, and -1 means that there is none.
LEMMA ScanLemma ==
  ASSUME NEW map
  PROVE  LET first == bitmap_find_first_free(map, TOTAL_BLOCKS)
             free == Free(map, TOTAL_BLOCKS)
         IN  \/ first = -1 /\ free = {}
             \/ first \in free /\ \A j \in free : first <= j
<1> DEFINE free == Free(map, TOTAL_BLOCKS)
<1>1. CASE free = {}
  BY <1>1 DEF bitmap_find_first_free
<1>2. CASE free # {}
  <2>1. free \in SUBSET Nat
    BY SizeAssumption DEF Free
  <2>2. \E i \in free : \A j \in free : i <= j
    <3>1. IsWellFoundedOn(OpToRel(<, Nat), Nat)
      BY NatLessThanWellFounded
    <3>2. PICK i \in free : \A j \in free : ~ (<<j, i>> \in OpToRel(<, Nat))
      BY <1>2, <2>1, <3>1, WFMin
    <3>3. \A j \in free : ~ (j < i)
      BY <2>1, <3>2 DEF OpToRel
    <3>4. QED
      BY <2>1, <3>3
  <2>3. bitmap_find_first_free(map, TOTAL_BLOCKS) = CHOOSE i \in free : \A j \in free : i <= j
    BY <1>2 DEF bitmap_find_first_free
  <2>4. QED
    BY <2>2, <2>3
<1>3. QED
  BY <1>1, <1>2

-----------------------------------------------------------------------------
(* The map mkfs writes.                                                    *)

\* Of a byte that is one less than a power of two the low bits are set.
Low(byte, e) ==
  byte \in 0 .. 255 /\ \A i \in Nat : Bit(byte, Mask(i)) = IF (i % 8) < e THEN 1 ELSE 0

LEMMA LowLemma == \A e \in 0 .. 8 : Low(2 ^ e - 1, e)
<1>1. Low(0, 0)
  BY MaskLemma DEF Low, Bit
<1>2. Low(1, 1)
  BY MaskLemma DEF Low, Bit
<1>3. Low(3, 2)
  BY MaskLemma DEF Low, Bit
<1>4. Low(7, 3)
  BY MaskLemma DEF Low, Bit
<1>5. Low(15, 4)
  BY MaskLemma DEF Low, Bit
<1>6. Low(31, 5)
  BY MaskLemma DEF Low, Bit
<1>7. Low(63, 6)
  BY MaskLemma DEF Low, Bit
<1>8. Low(127, 7)
  BY MaskLemma DEF Low, Bit
<1>9. Low(255, 8)
  BY MaskLemma DEF Low, Bit
<1>10. SUFFICES ASSUME NEW e \in 0 .. 8 PROVE Low(2 ^ e - 1, e)
  OBVIOUS
<1>11. CASE e = 0
  BY <1>1, <1>11, 2 ^ 0 = 1
<1>12. CASE e = 1
  BY <1>2, <1>12, 2 ^ 1 = 2
<1>13. CASE e = 2
  BY <1>3, <1>13, 2 ^ 2 = 4
<1>14. CASE e = 3
  BY <1>4, <1>14, 2 ^ 3 = 8
<1>15. CASE e = 4
  BY <1>5, <1>15, 2 ^ 4 = 16
<1>16. CASE e = 5
  BY <1>6, <1>16, 2 ^ 5 = 32
<1>17. CASE e = 6
  BY <1>7, <1>17, 2 ^ 6 = 64
<1>18. CASE e = 7
  BY <1>8, <1>18, 2 ^ 7 = 128
<1>19. CASE e = 8
  BY <1>9, <1>19, 2 ^ 8 = 256
<1>20. QED
  BY <1>11, <1>12, <1>13, <1>14, <1>15, <1>16, <1>17, <1>18, <1>19

LEMMA FormattedLemma ==
  /\ Formatted \in Maps
  /\ \A i \in Bits : bitmap_get(Formatted, i) = IF i < FIRST_DATA_BLOCK THEN 1 ELSE 0
<1> DEFINE e(n) == IF FIRST_DATA_BLOCK <= 8 * n THEN 0
                   ELSE IF FIRST_DATA_BLOCK >= 8 * (n + 1) THEN 8 ELSE FIRST_DATA_BLOCK % 8
<1>1. FIRST_DATA_BLOCK \in Nat
  BY SizeAssumption
<1>2. \A n \in Nat : e(n) \in 0 .. 8
  BY <1>1
<1>3. \A i \in Bits : ((i % 8) < e(Byte(i))) <=> i < FIRST_DATA_BLOCK
  BY <1>1, PlaceLemma DEF Byte
<1>4. Formatted = [n \in 0 .. BLOCK_SIZE - 1 |-> 2 ^ e(n) - 1]
  BY DEF Formatted
<1> HIDE DEF e
<1>5. \A n \in 0 .. BLOCK_SIZE - 1 : Low(Formatted[n], e(n))
  <2>1. SUFFICES ASSUME NEW n \in 0 .. BLOCK_SIZE - 1 PROVE Low(Formatted[n], e(n))
    OBVIOUS
  <2>2. e(n) \in 0 .. 8
    BY <1>2, PlaceLemma
  <2>3. Formatted[n] = 2 ^ e(n) - 1
    BY <1>4
  <2>4. Low(2 ^ e(n) - 1, e(n))
    BY <2>2, LowLemma
  <2>5. QED
    BY <2>3, <2>4
<1>6. Formatted \in Maps
  BY <1>4, <1>5 DEF Maps, Low
<1>7. ASSUME NEW i \in Bits
      PROVE  bitmap_get(Formatted, i) = IF i < FIRST_DATA_BLOCK THEN 1 ELSE 0
  <2>1. bitmap_get(Formatted, i) = Bit(Formatted[Byte(i)], Mask(i))
    BY <1>6, GetLemma
  <2>2. Low(Formatted[Byte(i)], e(Byte(i))) /\ i \in Nat
    BY <1>5, PlaceLemma
  <2>3. QED
    BY <1>3, <2>1, <2>2 DEF Low
<1>8. QED
  BY <1>6, <1>7

-----------------------------------------------------------------------------
(* What a call does.                                                       *)

Marked(map) == {i \in Bits : bitmap_get(map, i) = 1}

LEMMA BlocksAreBits ==
  /\ 0 .. TOTAL_BLOCKS - 1 \subseteq Bits
  /\ \A map \in Maps, i \in Bits : i \notin Marked(map) <=> bitmap_get(map, i) = 0
<1>1. 0 .. TOTAL_BLOCKS - 1 \subseteq Bits
  BY PlaceLemma DEF Bits
<1>2. QED
  BY <1>1, GetLemma DEF Marked

\* alloc_block takes the first clear bit below TOTAL_BLOCKS and sets it alone.
LEMMA AllocLemma ==
  ASSUME bytes \in Maps, alloc_block
  PROVE  /\ bytes' \in Maps
         /\ \/ /\ ret' = -1 /\ bytes' = bytes
               /\ \A i \in 0 .. TOTAL_BLOCKS - 1 : bitmap_get(bytes, i) = 1
            \/ /\ ret' \in 0 .. TOTAL_BLOCKS - 1 /\ bitmap_get(bytes, ret') = 0
               /\ \A i \in 0 .. TOTAL_BLOCKS - 1 : bitmap_get(bytes, i) = 0 => ret' <= i
               /\ bitmap_get(bytes', ret') = 1
               /\ \A i \in Bits \ {ret'} : bitmap_get(bytes', i) = bitmap_get(bytes, i)
<1> DEFINE first == bitmap_find_first_free(bytes, TOTAL_BLOCKS)
           free == Free(bytes, TOTAL_BLOCKS)
<1>1. ret' = first /\ bytes' = IF first = -1 THEN bytes ELSE bitmap_set(bytes, first)
  BY DEF alloc_block, bitmap_allocate
<1>2. (first = -1 /\ free = {}) \/ (first \in free /\ \A i \in free : first <= i)
  BY ScanLemma
<1>3. \A i : i \in free <=> i \in 0 .. TOTAL_BLOCKS - 1 /\ bitmap_get(bytes, i) = 0
  BY DEF Free
<1> HIDE DEF first, free
<1>4. CASE first = -1 /\ free = {}
  <2>1. \A i \in 0 .. TOTAL_BLOCKS - 1 : bitmap_get(bytes, i) = 1
    BY <1>3, <1>4, BlocksAreBits, GetLemma
  <2>2. QED
    BY <1>1, <1>4, <2>1
<1>5. CASE first \in free /\ \A i \in free : first <= i
  <2>1. first \in Bits /\ first # -1
    BY <1>3, <1>5, BlocksAreBits, PlaceLemma
  <2>2. /\ bytes' \in Maps /\ bitmap_get(bytes', first) = 1
        /\ \A i \in Bits \ {first} : bitmap_get(bytes', i) = bitmap_get(bytes, i)
    BY <1>1, <2>1, SetLemma
  <2>3. QED
    BY <1>1, <1>3, <1>5, <2>2
<1>6. QED
  BY <1>2, <1>4, <1>5

\* free_block clears one bit, or refuses.
LEMMA FreeLemma ==
  ASSUME bytes \in Maps, NEW block_num \in -1 .. TOTAL_BLOCKS, free_block(block_num)
  PROVE  /\ bytes' \in Maps
         /\ \/ bytes' = bytes
            \/ /\ block_num \in 0 .. TOTAL_BLOCKS - 1 /\ bitmap_get(bytes', block_num) = 0
               /\ \A i \in Bits \ {block_num} : bitmap_get(bytes', i) = bitmap_get(bytes, i)
<1>1. CASE Freeable(block_num, TOTAL_BLOCKS)
  <2>1. block_num \in 0 .. TOTAL_BLOCKS - 1
    BY <1>1, PlaceLemma DEF Freeable
  <2>2. bytes' = bitmap_clear(bytes, block_num)
    BY <1>1 DEF free_block
  <2>3. QED
    BY <2>1, <2>2, ClearLemma, BlocksAreBits
<1>2. CASE ~ Freeable(block_num, TOTAL_BLOCKS)
  BY <1>2 DEF free_block
<1>3. QED
  BY <1>1, <1>2

-----------------------------------------------------------------------------
(* The theorems.                                                           *)

LEMMA MarkedInit == Init => OnlyBlocksAreMarked
<1> SUFFICES ASSUME Init PROVE OnlyBlocksAreMarked
  OBVIOUS
<1>1. FIRST_DATA_BLOCK <= TOTAL_BLOCKS /\ FIRST_DATA_BLOCK \in Nat
  BY SizeAssumption
<1>2. \A i \in Bits : i >= TOTAL_BLOCKS => bitmap_get(bytes, i) = 0
  BY <1>1, FormattedLemma, PlaceLemma DEF Init
<1>3. QED
  BY <1>2, FormattedLemma DEF OnlyBlocksAreMarked, Init, Maps

LEMMA MarkedStep == OnlyBlocksAreMarked /\ [Next]_vars => OnlyBlocksAreMarked'
<1> SUFFICES ASSUME OnlyBlocksAreMarked, [Next]_vars PROVE OnlyBlocksAreMarked'
  OBVIOUS
<1>1. bytes \in Maps /\ \A i \in Bits : i >= TOTAL_BLOCKS => bitmap_get(bytes, i) = 0
  BY DEF OnlyBlocksAreMarked, Maps
<1>2. SUFFICES /\ bytes' \in Maps
               /\ \A i \in Bits : i >= TOTAL_BLOCKS => bitmap_get(bytes', i) = 0
  BY DEF OnlyBlocksAreMarked, Maps
<1>3. \A i \in Bits : i >= TOTAL_BLOCKS => i \notin 0 .. TOTAL_BLOCKS - 1
  BY PlaceLemma
<1>4. CASE alloc_block
  BY <1>1, <1>3, <1>4, AllocLemma
<1>5. ASSUME NEW block_num \in -1 .. TOTAL_BLOCKS, free_block(block_num)
      PROVE  /\ bytes' \in Maps
             /\ \A i \in Bits : i >= TOTAL_BLOCKS => bitmap_get(bytes', i) = 0
  BY <1>1, <1>3, <1>5, FreeLemma
<1>6. CASE UNCHANGED vars
  BY <1>1, <1>6 DEF vars
<1>7. QED
  BY <1>4, <1>5, <1>6 DEF Next

\* Whatever is allocated and freed, no byte leaves its range and no bit above
\* the disk's is ever set.
THEOREM OnlyBlocksEverMarked == Spec => []OnlyBlocksAreMarked
BY MarkedInit, MarkedStep, PTL DEF Spec

\* alloc_block returns a block that was free and is marked now, or -1 when
\* every block is marked.
THEOREM AllocAlwaysReturns == Spec => AllocReturns
<1>1. OnlyBlocksAreMarked /\ [Next]_vars =>
        [ alloc_block =>
            IF ret' = -1 THEN \A b \in 0 .. TOTAL_BLOCKS - 1 : bitmap_get(bytes, b) = 1
            ELSE bitmap_get(bytes, ret') = 0 /\ bitmap_get(bytes', ret') = 1 ]_vars
  <2>1. SUFFICES ASSUME OnlyBlocksAreMarked, alloc_block
                 PROVE  IF ret' = -1
                        THEN \A b \in 0 .. TOTAL_BLOCKS - 1 : bitmap_get(bytes, b) = 1
                        ELSE bitmap_get(bytes, ret') = 0 /\ bitmap_get(bytes', ret') = 1
    OBVIOUS
  <2>2. bytes \in Maps
    BY <2>1 DEF OnlyBlocksAreMarked, Maps
  <2>3. -1 \notin 0 .. TOTAL_BLOCKS - 1
    BY PlaceLemma
  <2>4. QED
    BY <2>1, <2>2, <2>3, AllocLemma
<1>2. QED
  BY <1>1, OnlyBlocksEverMarked, PTL DEF AllocReturns, Spec

\* The bytes implement the set of blocks the file system is modelled with.
THEOREM BytesImplementAllocator == Spec => ImplementsAllocator
<1> DEFINE bitmap == Marked(bytes)
<1>1. Init => Allocator!AllocatorInit
  <2>1. SUFFICES ASSUME Init PROVE bitmap = 0 .. FIRST_DATA_BLOCK - 1
    BY DEF Allocator!AllocatorInit, Allocator!MetadataBits, Marked
  <2>2. FIRST_DATA_BLOCK \in Nat /\ FIRST_DATA_BLOCK <= TOTAL_BLOCKS
    BY SizeAssumption
  <2>3. \A i \in Bits : bitmap_get(bytes, i) = IF i < FIRST_DATA_BLOCK THEN 1 ELSE 0
    BY <2>1, FormattedLemma DEF Init
  <2>4. \A i : i \in bitmap <=> i \in 0 .. FIRST_DATA_BLOCK - 1
    BY <2>2, <2>3, BlocksAreBits, PlaceLemma DEF Marked
  <2> HIDE DEF bitmap
  <2>5. QED
    BY <2>4
<1>2. OnlyBlocksAreMarked /\ [Next]_vars => [Allocator!AllocatorNext]_bitmap
  <2> SUFFICES ASSUME OnlyBlocksAreMarked, [Next]_vars
               PROVE  Allocator!AllocatorNext \/ bitmap' = bitmap
    OBVIOUS
  <2>1. bytes \in Maps /\ bytes' \in Maps
    BY MarkedStep DEF OnlyBlocksAreMarked, Maps
  <2>2. /\ \A i : i \in bitmap <=> i \in Bits /\ bitmap_get(bytes, i) = 1
        /\ \A i : i \in bitmap' <=> i \in Bits /\ bitmap_get(bytes', i) = 1
    BY DEF Marked
  <2>3. Allocator!Blocks = 0 .. TOTAL_BLOCKS - 1
    BY DEF Allocator!Blocks
  <2>4. CASE bytes' = bytes
    BY <2>4
  <2>5. CASE alloc_block /\ bytes' # bytes
    <3>1. /\ ret' \in 0 .. TOTAL_BLOCKS - 1 /\ bitmap_get(bytes, ret') = 0
          /\ \A i \in 0 .. TOTAL_BLOCKS - 1 : bitmap_get(bytes, i) = 0 => ret' <= i
          /\ bitmap_get(bytes', ret') = 1
          /\ \A i \in Bits \ {ret'} : bitmap_get(bytes', i) = bitmap_get(bytes, i)
      BY <2>1, <2>5, AllocLemma
    <3> HIDE DEF bitmap
    <3>2. \A i : i \in bitmap' <=> i \in bitmap \union {ret'}
      BY <2>2, <3>1, BlocksAreBits
    <3>3. bitmap' = bitmap \union {ret'}
      BY <3>2
    <3>4. \A i : i \in Allocator!FreeBlocks
                  <=> i \in 0 .. TOTAL_BLOCKS - 1 /\ bitmap_get(bytes, i) = 0
      BY <2>1, <2>3, BlocksAreBits DEF Allocator!FreeBlocks, Marked
    <3>5. Allocator!IsFirst(ret', Allocator!FreeBlocks)
      BY <3>1, <3>4 DEF Allocator!IsFirst
    <3>6. Allocator!alloc_block(ret')
      BY <3>3, <3>5 DEF Allocator!alloc_block, bitmap, Marked
    <3>7. QED
      BY <2>3, <3>1, <3>6 DEF Allocator!AllocatorNext
  <2>6. ASSUME NEW block_num \in -1 .. TOTAL_BLOCKS, free_block(block_num), bytes' # bytes
        PROVE  Allocator!AllocatorNext
    <3>1. /\ block_num \in 0 .. TOTAL_BLOCKS - 1 /\ bitmap_get(bytes', block_num) = 0
          /\ \A i \in Bits \ {block_num} : bitmap_get(bytes', i) = bitmap_get(bytes, i)
      BY <2>1, <2>6, FreeLemma
    <3> HIDE DEF bitmap
    <3>2. \A i : i \in bitmap' <=> i \in bitmap \ {block_num}
      BY <2>2, <3>1, BlocksAreBits
    <3>3. bitmap' = bitmap \ {block_num}
      BY <3>2
    <3>4. Allocator!free_block(block_num)
      BY <3>3 DEF Allocator!free_block, bitmap, Marked
    <3>5. QED
      BY <2>3, <3>1, <3>4 DEF Allocator!AllocatorNext
  <2>7. QED
    BY <2>4, <2>5, <2>6 DEF Next, vars
<1>3. QED
  BY <1>1, <1>2, OnlyBlocksEverMarked, PTL
    DEF ImplementsAllocator, Allocator!AllocatorSpec, Spec, Marked
=============================================================================
