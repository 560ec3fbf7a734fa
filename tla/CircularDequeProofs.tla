------------------------- MODULE CircularDequeProofs -------------------------
(***************************************************************************)
(* Proofs about CircularDeque, for any elements, any increment of the      *)
(* capacity and any number of elements kept: the ring holds the sequence   *)
(* DoubleEndedQueue promises, wherever it wraps and whenever it grows.     *)
(*                                                                         *)
(* The elements are counted from the front.  Element i rests in the slot   *)
(* Slot(begin, i, data_capacity), without remainders; lemmas show that the *)
(* remainders of the code find that slot.  Each operation has a lemma that *)
(* says where the ring stands after it and what it holds.                  *)
(***************************************************************************)
EXTENDS CircularDeque, SequenceTheorems, TLAPS

----------------------------------------------------------------------------
(* The inductive invariant.                                                *)

\* The slot of the element i of a ring that begins at b.
Slot(b, i, cap) == IF b + i < cap THEN b + i ELSE b + i - cap

Element(i) == data[Slot(begin, i, data_capacity)]

Blocks(cap) == [0 .. cap - 1 -> Values \cup {Garbage}]

\* There is a block, or there never was one; it is small enough for the
\* arithmetic of size_type.
RingIsSound ==
  /\ data_capacity \in Nat
  /\ 3 * data_capacity < WordSize
  /\ data_capacity = 0 => begin = 0 /\ end = 0 /\ data = <<>>
  /\ data_capacity > 0 =>
       /\ begin \in 0 .. data_capacity - 1
       /\ end \in 0 .. data_capacity - 1
       /\ data \in Blocks(data_capacity)

\* The elements between begin and end are alive.
LiveAreValues ==
  /\ Size \in 0 .. MaxSize
  /\ \A i \in 0 .. Size - 1 : Element(i) \in Values

IInv == RingIsSound /\ LiveAreValues

----------------------------------------------------------------------------
(* Slots.                                                                  *)

\* Counting from the front stays in the block.
LEMMA SlotInBlock ==
  ASSUME NEW cap \in Nat \ {0}, NEW b \in 0 .. cap - 1, NEW i \in 0 .. cap - 1
  PROVE  Slot(b, i, cap) \in 0 .. cap - 1
BY DEF Slot

\* No slot is met twice.
LEMMA SlotsDiffer ==
  ASSUME NEW cap \in Nat \ {0}, NEW b \in 0 .. cap - 1,
         NEW i \in 0 .. cap - 1, NEW j \in 0 .. cap - 1, i # j
  PROVE  Slot(b, i, cap) # Slot(b, j, cap)
BY DEF Slot

\* Counting goes on where it stopped.
LEMMA SlotOfSlot ==
  ASSUME NEW cap \in Nat \ {0}, NEW b \in 0 .. cap - 1,
         NEW i \in 0 .. cap - 1, NEW j \in 0 .. cap - 1, i + j <= cap
  PROVE  Slot(Slot(b, i, cap), j, cap) = Slot(b, IF i + j = cap THEN 0 ELSE i + j, cap)
BY DEF Slot

\* The remainders the code takes.
LEMMA Remainders ==
  ASSUME NEW n \in Nat \ {0}, NEW a \in 0 .. n - 1
  PROVE  a % n = a /\ (a + n) % n = a /\ (a + 2 * n) % n = a
<1>1. a % n = a
  OBVIOUS
<1>2. (a + n) % n = a
  OBVIOUS
<1>3. (a + 2 * n) % n = a
  OBVIOUS
<1> QED
  BY <1>1, <1>2, <1>3

\* The end is where the elements end.
LEMMA EndIsSlot ==
  ASSUME RingIsSound, data_capacity > 0
  PROVE  /\ Size \in 0 .. data_capacity - 1
         /\ end = Slot(begin, Size, data_capacity)
BY DEF RingIsSound, Size, Slot

\* index_increment_by, forwards.
LEMMA IncrementIsSlot ==
  ASSUME data_capacity \in Nat \ {0},
         NEW b \in 0 .. data_capacity - 1, NEW i \in 0 .. data_capacity - 1
  PROVE  IndexIncrementBy(b, i) = Slot(b, i, data_capacity)
<1>1. CASE i = 0
  BY <1>1 DEF IndexIncrementBy, Slot
<1>2. CASE i # 0 /\ b + i < data_capacity
  <2>1. b + data_capacity + i = (b + i) + data_capacity
    OBVIOUS
  <2>2. ((b + i) + data_capacity) % data_capacity = b + i
    BY <1>2, Remainders
  <2> QED
    BY <1>2, <2>1, <2>2 DEF IndexIncrementBy, Slot
<1>3. CASE i # 0 /\ b + i >= data_capacity
  <2>1. b + data_capacity + i = (b + i - data_capacity) + 2 * data_capacity
    OBVIOUS
  <2>2. ((b + i - data_capacity) + 2 * data_capacity) % data_capacity
          = b + i - data_capacity
    BY <1>3, Remainders
  <2> QED
    BY <1>3, <2>1, <2>2 DEF IndexIncrementBy, Slot
<1> QED
  BY <1>1, <1>2, <1>3

\* index_increment_by, from the end backwards.
LEMMA DecrementIsSlot ==
  ASSUME RingIsSound, data_capacity > 0, NEW n \in 0 .. Size
  PROVE  IndexIncrementBy(end, -n) = Slot(begin, Size - n, data_capacity)
<1>1. /\ data_capacity \in Nat \ {0} /\ begin \in 0 .. data_capacity - 1
      /\ end \in 0 .. data_capacity - 1
  BY DEF RingIsSound
<1>2. Size \in 0 .. data_capacity - 1 /\ end = Slot(begin, Size, data_capacity)
  BY EndIsSlot
<1>3. CASE n = 0
  <2>1. Size \in Int /\ n \in Int
    BY <1>1, <1>2
  <2>2. ASSUME NEW d, d = 0 - n
        PROVE  IndexIncrementBy(end, d) = Slot(begin, Size - n, data_capacity)
    BY <1>2, <1>3, <2>1, <2>2 DEF IndexIncrementBy
  <2>3. -n = 0 - n
    BY <2>1
  <2> QED
    BY <2>2, <2>3
<1>4. CASE n # 0
  <2>1. IndexIncrementBy(end, -n) = (end + data_capacity - n) % data_capacity
    BY <1>1, <1>2, <1>4 DEF IndexIncrementBy
  <2>2. CASE end >= n
    <3>1. end + data_capacity - n = (end - n) + data_capacity
      BY <1>1, <1>2
    <3>2. end - n \in 0 .. data_capacity - 1
      BY <1>1, <1>2, <2>2
    <3>3. ((end - n) + data_capacity) % data_capacity = end - n
      BY <1>1, <3>2, Remainders
    <3>4. end - n = Slot(begin, Size - n, data_capacity)
      BY <1>1, <1>2, <2>2 DEF Slot
    <3> QED
      BY <2>1, <3>1, <3>3, <3>4
  <2>3. CASE end < n
    <3>1. end + data_capacity - n \in 0 .. data_capacity - 1
      BY <1>1, <1>2, <2>3
    <3>2. (end + data_capacity - n) % data_capacity = end + data_capacity - n
      BY <1>1, <3>1, Remainders
    <3>3. end + data_capacity - n = Slot(begin, Size - n, data_capacity)
      BY <1>1, <1>2, <2>3 DEF Slot
    <3> QED
      BY <2>1, <3>2, <3>3
  <2> QED
    BY <1>1, <1>2, <2>2, <2>3
<1> QED
  BY <1>3, <1>4

\* index_next and index_prev are a step forwards and a step backwards.
LEMMA NeighboursAreSlots ==
  ASSUME data_capacity \in Nat \ {0},
         NEW b \in 0 .. data_capacity - 1, NEW i \in 0 .. data_capacity - 1
  PROVE  /\ IndexNext(Slot(b, i, data_capacity))
              = IF i = data_capacity - 1 THEN b ELSE Slot(b, i + 1, data_capacity)
         /\ i > 0 => IndexPrev(Slot(b, i, data_capacity)) = Slot(b, i - 1, data_capacity)
BY DEF IndexNext, IndexPrev, Slot

\* at() finds the slot in size_type.
LEMMA SlotAtIsSlot ==
  ASSUME RingIsSound, data_capacity > 0, NEW i \in 0 .. data_capacity - 1
  PROVE  SlotAt(i) = Slot(begin, i, data_capacity)
<1>1. /\ data_capacity \in Nat /\ begin \in 0 .. data_capacity - 1
      /\ WordSize \in Nat \ {0}
      /\ begin + i \in 0 .. WordSize - 1
      /\ begin + i >= data_capacity => begin + i - data_capacity \in 0 .. WordSize - 1
  BY WordSizeAssumption, MaxSizeAssumption, MinCapacityIncrementAssumption
     DEF RingIsSound
<1>2. (begin + i) % WordSize = begin + i
  BY <1>1, Remainders
<1>3. begin + i >= data_capacity =>
        (begin + i - data_capacity) % WordSize = begin + i - data_capacity
  BY <1>1, Remainders
<1> QED
  BY <1>1, <1>2, <1>3 DEF SlotAt, Slot

\* The size of a ring is told by the slot after its last element.
LEMMA SizeOfRing ==
  ASSUME data_capacity \in Nat \ {0}, begin \in 0 .. data_capacity - 1,
         NEW n \in 0 .. data_capacity - 1, end = Slot(begin, n, data_capacity)
  PROVE  Size = n
BY DEF Size, Slot

\* What operator[] reads.
LEMMA ContentsAreElements ==
  ASSUME IInv
  PROVE  /\ Size \in Nat
         /\ Contents = [i \in 1 .. Size |-> Element(i - 1)]
         /\ Contents \in [1 .. Size -> Values]
<1>1. Size \in Nat
  BY MaxSizeAssumption DEF IInv, LiveAreValues
<1>2. CASE data_capacity = 0
  <2>1. Size = 0
    BY <1>2 DEF IInv, RingIsSound, Size
  <2>2. 1 .. Size = {}
    BY <2>1
  <2> QED
    BY <1>1, <2>2 DEF Contents
<1>3. CASE data_capacity > 0
  <2>1. Size \in 0 .. data_capacity - 1
    BY <1>3, EndIsSlot DEF IInv
  <2>2. ASSUME NEW i \in 1 .. Size
        PROVE  data[SlotAt(i - 1)] = Element(i - 1) /\ Element(i - 1) \in Values
    <3>1. i - 1 \in 0 .. data_capacity - 1 /\ i - 1 \in 0 .. Size - 1
      BY <2>1 DEF IInv, RingIsSound
    <3>2. SlotAt(i - 1) = Slot(begin, i - 1, data_capacity)
      BY <1>3, <3>1, SlotAtIsSlot DEF IInv
    <3> QED
      BY <3>1, <3>2 DEF IInv, LiveAreValues, Element
  <2> QED
    BY <1>1, <2>2 DEF Contents
<1> QED
  BY <1>2, <1>3 DEF IInv, RingIsSound

----------------------------------------------------------------------------
(* Rings.                                                                  *)

\* A ring of n slots that holds the elements of s has them as its contents.
LEMMA RingHolds ==
  ASSUME NEW n \in 0 .. MaxSize, NEW s \in [1 .. n -> Values],
         data_capacity \in Nat, n < data_capacity,
         3 * data_capacity < WordSize,
         begin \in 0 .. data_capacity - 1,
         end = Slot(begin, n, data_capacity),
         data \in Blocks(data_capacity),
         \A i \in 0 .. n - 1 : data[Slot(begin, i, data_capacity)] = s[i + 1]
  PROVE  IInv /\ Contents = s
<1>1. n \in Nat /\ n \in 0 .. data_capacity - 1 /\ data_capacity \in Nat \ {0}
  BY MaxSizeAssumption
<1>2. end \in 0 .. data_capacity - 1
  BY <1>1, SlotInBlock
<1>3. Size = n
  BY <1>1, SizeOfRing
<1>4. RingIsSound
  BY <1>1, <1>2 DEF RingIsSound
<1>5. \A i \in 0 .. n - 1 : Element(i) = s[i + 1] /\ i + 1 \in 1 .. n
  BY <1>1 DEF Element
<1>6. IInv
  BY <1>3, <1>4, <1>5 DEF IInv, LiveAreValues
<1>7. Contents = [i \in 1 .. n |-> Element(i - 1)]
  BY <1>3, <1>6, ContentsAreElements
<1>8. ASSUME NEW i \in 1 .. n PROVE Element(i - 1) = s[i]
  <2>1. i - 1 \in 0 .. n - 1 /\ (i - 1) + 1 = i
    BY <1>1
  <2> QED
    BY <1>5, <2>1
<1> QED
  BY <1>6, <1>7, <1>8

\* A deque that never had a block is empty.
LEMMA NoBlockHoldsNothing ==
  ASSUME data = <<>>, data_capacity = 0, begin = 0, end = 0
  PROVE  IInv /\ Contents = <<>> /\ Size = 0
<1>1. Size = 0
  BY DEF Size
<1>2. IInv
  BY <1>1, WordSizeAssumption, MaxSizeAssumption, MinCapacityIncrementAssumption
     DEF IInv, RingIsSound, LiveAreValues
<1>3. Contents = [i \in 1 .. 0 |-> Element(i - 1)]
  BY <1>1, <1>2, ContentsAreElements
<1> QED
  BY <1>1, <1>2, <1>3

----------------------------------------------------------------------------
(* The same of the ring a step leaves behind.                              *)

\* RingHolds and NoBlockHoldsNothing, as formulas about a state.
RingsHold ==
  \A n \in 0 .. MaxSize : \A s \in [1 .. n -> Values] :
    /\ data_capacity \in Nat /\ n < data_capacity
    /\ 3 * data_capacity < WordSize
    /\ begin \in 0 .. data_capacity - 1
    /\ end = Slot(begin, n, data_capacity)
    /\ data \in Blocks(data_capacity)
    /\ \A i \in 0 .. n - 1 : data[Slot(begin, i, data_capacity)] = s[i + 1]
    => IInv /\ Contents = s

NothingIsHeld ==
  data = <<>> /\ data_capacity = 0 /\ begin = 0 /\ end = 0
    => IInv /\ Contents = <<>>

\* They hold in every state.
LEMMA StatesHold == RingsHold /\ NothingIsHeld
<1>1. RingsHold
  BY RingHolds DEF RingsHold
<1>2. NothingIsHeld
  BY NoBlockHoldsNothing DEF NothingIsHeld
<1> QED
  BY <1>1, <1>2

\* A step that leaves n slots with the elements of s.
LEMMA RingWillHold ==
  ASSUME NEW n \in 0 .. MaxSize, NEW s \in [1 .. n -> Values],
         data_capacity' \in Nat, n < data_capacity',
         3 * data_capacity' < WordSize,
         begin' \in 0 .. data_capacity' - 1,
         end' = Slot(begin', n, data_capacity'),
         data' \in Blocks(data_capacity'),
         \A i \in 0 .. n - 1 : data'[Slot(begin', i, data_capacity')] = s[i + 1]
  PROVE  IInv' /\ Contents' = s
<1>1. RingsHold'
  BY StatesHold, PTL
<1> QED
  BY <1>1 DEF RingsHold

\* A step that leaves no block.
LEMMA NoBlockWillHoldNothing ==
  ASSUME data' = <<>>, data_capacity' = 0, begin' = 0, end' = 0
  PROVE  IInv' /\ Contents' = <<>>
<1>1. NothingIsHeld'
  BY StatesHold, PTL
<1> QED
  BY <1>1 DEF NothingIsHeld

----------------------------------------------------------------------------
(* Growth.                                                                 *)

\* MaybeExpandCapacity asks for enough, and stays in the arithmetic.
LEMMA GrowthSuffices ==
  ASSUME IInv, NEW n \in Nat \ {0}, Size + n <= MaxSize, ~ Fits(n)
  PROVE  /\ GrownCapacity(n) \in Nat
         /\ GrownCapacity(n) >= Size + n
         /\ 3 * (GrownCapacity(n) + 1) < WordSize
<1>1. Size \in Nat /\ Capacity \in Nat /\ Capacity < MaxSize
  BY MaxSizeAssumption
     DEF IInv, RingIsSound, LiveAreValues, Fits, Capacity
<1>2. Capacity \div 4 \in Nat /\ 4 * (Capacity \div 4) <= Capacity
  BY <1>1
<1> QED
  BY <1>1, <1>2, WordSizeAssumption, MaxSizeAssumption,
     MinCapacityIncrementAssumption DEF GrownCapacity, Larger

\* Relocate moves the elements to the front of the new block in their order.
LEMMA MovedInOrder ==
  ASSUME IInv, NEW i \in 0 .. Size - 1
  PROVE  ElementAt(i) = Contents[i + 1] /\ ElementAt(i) \in Values
<1>1. Size \in Nat /\ i + 1 \in 1 .. Size /\ (i + 1) - 1 = i
  BY ContentsAreElements
<1>2. Contents[i + 1] = Element(i) /\ Contents[i + 1] \in Values
  BY <1>1, ContentsAreElements
<1>3. ElementAt(i) = Element(i)
  BY <1>1 DEF ElementAt, Element, Slot
<1> QED
  BY <1>2, <1>3

\* A new block holds the elements that moved, those added and garbage.
LEMMA NewBlock ==
  ASSUME IInv, NEW capacity \in Nat, NEW D, NEW added \in [D -> Values],
         NEW first, NEW last, Relocate(capacity, added, first, last)
  PROVE  /\ data' \in Blocks(capacity + 1)
         /\ \A i \in 0 .. capacity : i \in D => data'[i] = added[i]
         /\ \A i \in 0 .. capacity : i \notin D => data'[i] = ElementAt(i)
<1>1. data' = [i \in 0 .. capacity |->
                 IF i \in D THEN added[i] ELSE ElementAt(i)]
  BY DEF Relocate
<1>2. ASSUME NEW i \in 0 .. capacity PROVE ElementAt(i) \in Values \cup {Garbage}
  <2>1. CASE i \in 0 .. Size - 1
    BY <2>1, MovedInOrder
  <2>2. CASE i \notin 0 .. Size - 1
    <3>1. i >= Size
      BY <2>2, ContentsAreElements
    <3> QED
      BY <3>1 DEF ElementAt
  <2> QED
    BY <2>1, <2>2
<1>3. (capacity + 1) - 1 = capacity
  OBVIOUS
<1> QED
  BY <1>1, <1>2, <1>3 DEF Blocks

----------------------------------------------------------------------------
(* What is destroyed.                                                      *)

\* Of a block, the slots that are destroyed turn to garbage.
LEMMA DestroyKeepsTheRest ==
  ASSUME NEW cap \in Nat, data \in Blocks(cap), NEW slots
  PROVE  /\ Destroy(slots) \in Blocks(cap)
         /\ \A s \in 0 .. cap - 1 : s \notin slots => Destroy(slots)[s] = data[s]
BY DEF Destroy, Blocks

\* DestroyRange meets the elements m to m + n - 1 and no other.
LEMMA DestroyedRange ==
  ASSUME data_capacity \in Nat \ {0},
         NEW b \in 0 .. data_capacity - 1, NEW m \in 0 .. data_capacity - 1,
         NEW n \in Nat, m + n < data_capacity,
         NEW j \in 0 .. data_capacity - 1
  PROVE  Slot(b, j, data_capacity) \in Destroyed(Slot(b, m, data_capacity), n)
            <=> j \in m .. m + n - 1
<1> DEFINE from == Slot(b, m, data_capacity)
<1>1. from \in 0 .. data_capacity - 1
  BY SlotInBlock
<1>2. Slot(b, j, data_capacity) \in 0 .. data_capacity - 1
  BY SlotInBlock
<1>3. ASSUME NEW i \in 0 .. n - 1
      PROVE  /\ m + i \in 0 .. data_capacity - 1
             /\ IndexIncrementBy(from, i) = Slot(b, m + i, data_capacity)
  <2>1. i \in 0 .. data_capacity - 1 /\ m + i < data_capacity
    OBVIOUS
  <2>2. IndexIncrementBy(from, i) = Slot(from, i, data_capacity)
    BY <1>1, <2>1, IncrementIsSlot
  <2>3. Slot(from, i, data_capacity) = Slot(b, m + i, data_capacity)
    BY <2>1, SlotOfSlot
  <2> QED
    BY <2>1, <2>2, <2>3
<1>4. ASSUME NEW i \in 0 .. n - 1, Slot(b, j, data_capacity) = IndexIncrementBy(from, i)
      PROVE  j \in m .. m + n - 1
  <2>1. j = m + i
    BY <1>3, <1>4, SlotsDiffer
  <2> QED
    BY <2>1
<1>5. ASSUME j \in m .. m + n - 1
      PROVE  \E i \in 0 .. n - 1 : Slot(b, j, data_capacity) = IndexIncrementBy(from, i)
  <2>1. j - m \in 0 .. n - 1 /\ m + (j - m) = j
    BY <1>5
  <2> QED
    BY <1>3, <2>1
<1> QED
  BY <1>2, <1>4, <1>5 DEF Destroyed

----------------------------------------------------------------------------
(* Sequences, as functions.                                                *)

\* push_back and push_front.
LEMMA PushedSequences ==
  ASSUME NEW n \in Nat, NEW s \in [1 .. n -> Values], NEW v \in Values
  PROVE  /\ Append(s, v)[n + 1] = v
         /\ \A i \in 1 .. n : Append(s, v)[i] = s[i]
         /\ (<<v>> \o s)[1] = v
         /\ \A i \in 1 .. n : (<<v>> \o s)[i + 1] = s[i]
         /\ Append(s, v) \in [1 .. n + 1 -> Values]
         /\ <<v>> \o s \in [1 .. n + 1 -> Values]
<1> DEFINE t == [i \in 1 .. n + 1 |-> IF i = n + 1 THEN v ELSE s[i]]
<1>1. s \in Seq(Values) /\ Len(s) = n
  OBVIOUS
<1>2. t \in [1 .. n + 1 -> Values]
  OBVIOUS
<1>3. t \in Seq(Values) /\ Len(t) = n + 1
  BY <1>2
<1>4. /\ Append(s, v) \in Seq(Values) /\ Len(Append(s, v)) = n + 1
      /\ \A i \in 1 .. n : Append(s, v)[i] = s[i]
      /\ Append(s, v)[n + 1] = v
  BY <1>1, AppendProperties
<1>5. ASSUME NEW i \in 1 .. n + 1 PROVE Append(s, v)[i] = t[i]
  <2>1. CASE i = n + 1
    BY <1>4, <2>1
  <2>2. CASE i # n + 1
    <3>1. i \in 1 .. n
      BY <2>2
    <3> QED
      BY <1>4, <2>2, <3>1
  <2> QED
    BY <2>1, <2>2
<1>6. Append(s, v) = t
  BY <1>3, <1>4, <1>5, SeqEqual
<1>7. <<v>> \o s = [i \in 1 .. n + 1 |-> IF i = 1 THEN v ELSE s[i - 1]]
  BY <1>1
<1>8. [i \in 1 .. n + 1 |-> IF i = 1 THEN v ELSE s[i - 1]] \in [1 .. n + 1 -> Values]
  <2>1. \A i \in 1 .. n + 1 : i # 1 => i - 1 \in 1 .. n
    OBVIOUS
  <2> QED
    BY <2>1
<1>9. /\ (<<v>> \o s)[1] = v
      /\ \A i \in 1 .. n : (<<v>> \o s)[i + 1] = s[i]
  <2>1. \A i \in 1 .. n : i + 1 \in 1 .. n + 1 /\ i + 1 # 1 /\ (i + 1) - 1 = i
    OBVIOUS
  <2>2. 1 \in 1 .. n + 1
    OBVIOUS
  <2> QED
    BY <1>7, <2>1, <2>2
<1> QED
  BY <1>2, <1>4, <1>6, <1>7, <1>8, <1>9

\* pop_front_n and pop_back_n.
LEMMA PoppedSequences ==
  ASSUME NEW n \in Nat, NEW s \in [1 .. n -> Values], NEW k \in 0 .. n
  PROVE  /\ SubSeq(s, k + 1, Len(s)) = [i \in 1 .. n - k |-> s[k + i]]
         /\ SubSeq(s, 1, Len(s) - k) = [i \in 1 .. n - k |-> s[i]]
         /\ SubSeq(s, k + 1, Len(s)) \in [1 .. n - k -> Values]
         /\ SubSeq(s, 1, Len(s) - k) \in [1 .. n - k -> Values]
<1>1. s \in Seq(Values) /\ Len(s) = n
  OBVIOUS
<1>2. SubSeq(s, k + 1, n) = [i \in 1 .. n - k |-> s[k + i]]
  OBVIOUS
<1>3. SubSeq(s, 1, n - k) = [i \in 1 .. n - k |-> s[i]]
  OBVIOUS
<1>4. /\ [i \in 1 .. n - k |-> s[k + i]] \in [1 .. n - k -> Values]
      /\ [i \in 1 .. n - k |-> s[i]] \in [1 .. n - k -> Values]
  OBVIOUS
<1> QED
  BY <1>1, <1>2, <1>3, <1>4

----------------------------------------------------------------------------
(* What an operation finds.                                                *)

\* A deque that has a block is a ring with its contents.
LEMMA RingFound ==
  ASSUME IInv, data_capacity > 0
  PROVE  /\ data_capacity \in Nat \ {0}
         /\ 3 * data_capacity < WordSize
         /\ begin \in 0 .. data_capacity - 1
         /\ data \in Blocks(data_capacity)
         /\ Size \in 0 .. data_capacity - 1
         /\ Size \in 0 .. MaxSize
         /\ end = Slot(begin, Size, data_capacity)
         /\ Contents \in [1 .. Size -> Values]
         /\ \A i \in 0 .. Size - 1 :
              data[Slot(begin, i, data_capacity)] = Contents[i + 1]
<1>1. /\ data_capacity \in Nat \ {0}
      /\ 3 * data_capacity < WordSize
      /\ begin \in 0 .. data_capacity - 1
      /\ data \in Blocks(data_capacity)
      /\ Size \in 0 .. MaxSize
  BY DEF IInv, RingIsSound, LiveAreValues
<1>2. Size \in 0 .. data_capacity - 1 /\ end = Slot(begin, Size, data_capacity)
  BY EndIsSlot DEF IInv
<1>3. Contents \in [1 .. Size -> Values]
  BY ContentsAreElements
<1>4. ASSUME NEW i \in 0 .. Size - 1
      PROVE  data[Slot(begin, i, data_capacity)] = Contents[i + 1]
  <2>1. i + 1 \in 1 .. Size /\ (i + 1) - 1 = i
    BY <1>1, <1>2
  <2>2. Contents[i + 1] = Element(i)
    BY <2>1, ContentsAreElements
  <2> QED
    BY <2>2 DEF Element
<1> QED
  BY <1>1, <1>2, <1>3, <1>4

\* A deque without a block.
LEMMA NoBlockFound ==
  ASSUME IInv, data_capacity = 0
  PROVE  data = <<>> /\ begin = 0 /\ end = 0 /\ Size = 0 /\ Contents = <<>>
<1>1. data = <<>> /\ begin = 0 /\ end = 0
  BY DEF IInv, RingIsSound
<1> QED
  BY <1>1, NoBlockHoldsNothing

\* Room for more elements is room in the block.
LEMMA RoomFound ==
  ASSUME IInv, NEW n \in Nat \ {0}, Fits(n)
  PROVE  data_capacity > 0 /\ Size + n <= data_capacity - 1
BY ContentsAreElements DEF Fits, Capacity, IInv, RingIsSound

----------------------------------------------------------------------------
(* Elements leave.                                                         *)

\* Elements that are left alone, and the start moved past n others: those at
\* the front are gone.
LEMMA FrontDrops ==
  ASSUME IInv, data_capacity > 0, NEW n \in 0 .. Size, NEW slots,
         \A j \in n .. Size - 1 : Slot(begin, j, data_capacity) \notin slots,
         data' = Destroy(slots), begin' = Slot(begin, n, data_capacity),
         end' = end, data_capacity' = data_capacity
  PROVE  IInv' /\ Queue!PopFront(n)
<1> DEFINE m == Size - n
           s == SubSeq(Contents, n + 1, Len(Contents))
<1>1. /\ data_capacity \in Nat \ {0} /\ begin \in 0 .. data_capacity - 1
      /\ data \in Blocks(data_capacity)
      /\ Size \in 0 .. data_capacity - 1 /\ Size \in 0 .. MaxSize
      /\ end = Slot(begin, Size, data_capacity)
  BY RingFound
<1>2. /\ m \in 0 .. MaxSize /\ m < data_capacity /\ n \in 0 .. data_capacity - 1
      /\ n + m = Size
  BY <1>1, MaxSizeAssumption
<1>3. s \in [1 .. m -> Values] /\ \A i \in 1 .. m : s[i] = Contents[n + i]
  BY <1>1, RingFound, PoppedSequences
<1>4. begin' \in 0 .. data_capacity - 1
  BY <1>1, <1>2, SlotInBlock
<1>5. end' = Slot(begin', m, data_capacity)
  <2>1. m \in 0 .. data_capacity - 1 /\ n + m < data_capacity
    BY <1>1, <1>2
  <2> QED
    BY <1>1, <1>2, <2>1, SlotOfSlot
<1>6. data' \in Blocks(data_capacity)
  BY <1>1, DestroyKeepsTheRest
<1>7. ASSUME NEW i \in 0 .. m - 1
      PROVE  data'[Slot(begin', i, data_capacity)] = s[i + 1]
  <2>1. /\ i \in 0 .. data_capacity - 1 /\ n + i \in 0 .. data_capacity - 1
        /\ n + i \in n .. Size - 1 /\ n + i \in 0 .. Size - 1
        /\ i + 1 \in 1 .. m /\ n + (i + 1) = (n + i) + 1
        /\ n + i # data_capacity /\ n + i <= data_capacity
    BY <1>1, <1>2
  <2>2. Slot(begin', i, data_capacity) = Slot(begin, n + i, data_capacity)
    BY <1>1, <1>2, <2>1, SlotOfSlot
  <2>3. Slot(begin, n + i, data_capacity) \in 0 .. data_capacity - 1
    BY <1>1, <2>1, SlotInBlock
  <2>4. data'[Slot(begin, n + i, data_capacity)] = data[Slot(begin, n + i, data_capacity)]
    BY <1>1, <2>1, <2>3, DestroyKeepsTheRest
  <2>5. data[Slot(begin, n + i, data_capacity)] = Contents[(n + i) + 1]
    BY <2>1, RingFound
  <2> QED
    BY <1>3, <2>1, <2>2, <2>4, <2>5
<1>8. 3 * data_capacity < WordSize
  BY RingFound
<1> HIDE DEF m, s
<1>9. IInv' /\ Contents' = s
  BY <1>1, <1>2, <1>3, <1>4, <1>5, <1>6, <1>7, <1>8, RingWillHold
<1> QED
  BY <1>9 DEF s, Queue!PopFront

\* The same at the back.
LEMMA BackDrops ==
  ASSUME IInv, data_capacity > 0, NEW n \in 0 .. Size, NEW slots,
         \A j \in 0 .. Size - n - 1 : Slot(begin, j, data_capacity) \notin slots,
         data' = Destroy(slots), end' = Slot(begin, Size - n, data_capacity),
         begin' = begin, data_capacity' = data_capacity
  PROVE  IInv' /\ Queue!PopBack(n)
<1> DEFINE m == Size - n
           s == SubSeq(Contents, 1, Len(Contents) - n)
<1>1. /\ data_capacity \in Nat \ {0} /\ begin \in 0 .. data_capacity - 1
      /\ data \in Blocks(data_capacity)
      /\ Size \in 0 .. data_capacity - 1 /\ Size \in 0 .. MaxSize
      /\ 3 * data_capacity < WordSize
  BY RingFound
<1>2. m \in 0 .. MaxSize /\ m < data_capacity /\ m <= Size
  BY <1>1, MaxSizeAssumption
<1>3. s \in [1 .. m -> Values] /\ \A i \in 1 .. m : s[i] = Contents[i]
  <2>1. Size \in Nat /\ Contents \in [1 .. Size -> Values]
    BY <1>1, RingFound
  <2>2. s = [i \in 1 .. Size - n |-> Contents[i]] /\ s \in [1 .. Size - n -> Values]
    BY <2>1, PoppedSequences
  <2> QED
    BY <2>2
<1>4. data' \in Blocks(data_capacity)
  BY <1>1, DestroyKeepsTheRest
<1>5. ASSUME NEW i \in 0 .. m - 1
      PROVE  data'[Slot(begin', i, data_capacity)] = s[i + 1]
  <2>1. /\ i \in 0 .. data_capacity - 1 /\ i \in 0 .. Size - 1
        /\ i + 1 \in 1 .. m
    BY <1>1, <1>2
  <2>2. Slot(begin, i, data_capacity) \in 0 .. data_capacity - 1
    BY <1>1, <2>1, SlotInBlock
  <2>3. data'[Slot(begin, i, data_capacity)] = data[Slot(begin, i, data_capacity)]
    BY <1>1, <2>1, <2>2, DestroyKeepsTheRest
  <2>4. data[Slot(begin, i, data_capacity)] = Contents[i + 1]
    BY <2>1, RingFound
  <2> QED
    BY <1>3, <2>1, <2>3, <2>4
<1>6. end' = Slot(begin', m, data_capacity)
  OBVIOUS
<1> HIDE DEF m, s
<1>7. IInv' /\ Contents' = s
  BY <1>1, <1>2, <1>3, <1>4, <1>5, <1>6, RingWillHold
<1> QED
  BY <1>7 DEF s, Queue!PopBack

\* Nothing leaves a deque that has no block.
LEMMA NothingDrops ==
  ASSUME IInv, data_capacity = 0, NEW slots,
         data' = Destroy(slots), begin' = 0, end' = 0, data_capacity' = 0
  PROVE  IInv' /\ Queue!PopFront(0) /\ Queue!PopBack(0)
<1>1. data = <<>> /\ Contents = <<>>
  BY NoBlockFound
<1>2. data' = <<>>
  BY <1>1 DEF Destroy
<1>3. IInv' /\ Contents' = <<>>
  BY <1>2, NoBlockWillHoldNothing
<1>4. SubSeq(<<>>, 0 + 1, Len(<<>>)) = <<>> /\ SubSeq(<<>>, 1, Len(<<>>) - 0) = <<>>
  OBVIOUS
<1> QED
  BY <1>1, <1>3, <1>4 DEF Queue!PopFront, Queue!PopBack

\* pop_front.
LEMMA PopFrontKeeps ==
  ASSUME IInv, PopFront
  PROVE  IInv' /\ Queue!PopFront(1)
<1>1. data_capacity > 0
  BY NoBlockFound DEF PopFront, IInv, RingIsSound
<1>2. /\ data_capacity \in Nat \ {0} /\ begin \in 0 .. data_capacity - 1
      /\ Size \in 0 .. data_capacity - 1
  BY <1>1, RingFound
<1>3. 1 \in 0 .. Size /\ 0 # data_capacity - 1 /\ 0 \in 0 .. data_capacity - 1
  BY <1>2 DEF PopFront
<1>4. begin = Slot(begin, 0, data_capacity)
  BY <1>2 DEF Slot
<1>5. begin' = Slot(begin, 1, data_capacity)
  BY <1>2, <1>3, <1>4 DEF PopFront, IndexNext, Slot
<1>6. \A j \in 1 .. Size - 1 : Slot(begin, j, data_capacity) \notin {begin}
  <2>1. ASSUME NEW j \in 1 .. Size - 1
        PROVE  Slot(begin, j, data_capacity) # Slot(begin, 0, data_capacity)
    BY <1>2, <1>3, SlotsDiffer
  <2> QED
    BY <1>4, <2>1
<1>7. data' = Destroy({begin}) /\ end' = end /\ data_capacity' = data_capacity
  BY DEF PopFront
<1> QED
  BY <1>1, <1>3, <1>5, <1>6, <1>7, FrontDrops

\* pop_back.
LEMMA PopBackKeeps ==
  ASSUME IInv, PopBack
  PROVE  IInv' /\ Queue!PopBack(1)
<1>1. data_capacity > 0
  BY NoBlockFound DEF PopBack, IInv, RingIsSound
<1>2. /\ data_capacity \in Nat \ {0} /\ begin \in 0 .. data_capacity - 1
      /\ Size \in 0 .. data_capacity - 1
      /\ end = Slot(begin, Size, data_capacity)
  BY <1>1, RingFound
<1>3. 1 \in 0 .. Size /\ Size > 0 /\ Size - 1 \in 0 .. data_capacity - 1
  BY <1>2 DEF PopBack
<1>4. IndexPrev(end) = Slot(begin, Size - 1, data_capacity)
  BY <1>2, <1>3, NeighboursAreSlots
<1>5. \A j \in 0 .. Size - 1 - 1 : Slot(begin, j, data_capacity) \notin {IndexPrev(end)}
  <2>1. ASSUME NEW j \in 0 .. Size - 1 - 1
        PROVE  Slot(begin, j, data_capacity) # Slot(begin, Size - 1, data_capacity)
    BY <1>2, <1>3, SlotsDiffer
  <2> QED
    BY <1>4, <2>1
<1>6. /\ data' = Destroy({IndexPrev(end)}) /\ end' = IndexPrev(end)
      /\ begin' = begin /\ data_capacity' = data_capacity
  BY DEF PopBack
<1> QED
  BY <1>1, <1>3, <1>4, <1>5, <1>6, BackDrops

\* pop_front_n, which pops no more than there are.
LEMMA PopFrontNKeeps ==
  ASSUME IInv, NEW count \in Nat, PopFrontN(count)
  PROVE  IInv' /\ Queue!PopFront(Smaller(count, Size))
<1> DEFINE n == Smaller(count, Size)
<1>1. n \in 0 .. Size
  BY ContentsAreElements DEF Smaller
<1>2. /\ data' = Destroy(Destroyed(begin, n)) /\ begin' = IndexIncrementBy(begin, n)
      /\ end' = end /\ data_capacity' = data_capacity
  BY DEF PopFrontN
<1> HIDE DEF n
<1>3. CASE data_capacity = 0
  <2>1. n = 0 /\ begin = 0 /\ end = 0
    BY <1>1, <1>3, NoBlockFound
  <2>2. begin' = 0
    BY <1>2, <2>1 DEF IndexIncrementBy
  <2>3. IInv' /\ Queue!PopFront(0)
    BY <1>2, <1>3, <2>1, <2>2, NothingDrops
  <2> QED
    BY <2>1, <2>3 DEF n
<1>4. CASE data_capacity > 0
  <2>1. /\ data_capacity \in Nat \ {0} /\ begin \in 0 .. data_capacity - 1
        /\ Size \in 0 .. data_capacity - 1
    BY <1>4, RingFound
  <2>2. /\ n \in 0 .. data_capacity - 1 /\ n \in Nat /\ 0 + n < data_capacity
        /\ 0 \in 0 .. data_capacity - 1 /\ 0 + n - 1 = n - 1
    BY <1>1, <2>1
  <2>3. begin' = Slot(begin, n, data_capacity)
    BY <1>2, <2>1, <2>2, IncrementIsSlot
  <2>4. begin = Slot(begin, 0, data_capacity)
    BY <2>1 DEF Slot
  <2>5. \A j \in n .. Size - 1 :
          Slot(begin, j, data_capacity) \notin Destroyed(begin, n)
    <3>1. ASSUME NEW j \in n .. Size - 1
          PROVE  j \in 0 .. data_capacity - 1 /\ j \notin 0 .. 0 + n - 1
      BY <2>1, <2>2
    <3> QED
      BY <2>1, <2>2, <2>4, <3>1, DestroyedRange
  <2>6. IInv' /\ Queue!PopFront(n)
    BY <1>1, <1>2, <1>4, <2>3, <2>5, FrontDrops
  <2> QED
    BY <2>6 DEF n
<1> QED
  BY <1>3, <1>4 DEF IInv, RingIsSound

\* pop_back_n, which pops no more than there are.
LEMMA PopBackNKeeps ==
  ASSUME IInv, NEW count \in Nat, PopBackN(count)
  PROVE  IInv' /\ Queue!PopBack(Smaller(count, Size))
<1> DEFINE n == Smaller(count, Size)
           newEnd == IndexIncrementBy(end, -n)
<1>1. n \in 0 .. Size /\ Size \in Nat
  BY ContentsAreElements DEF Smaller
<1>2. /\ data' = Destroy(Destroyed(newEnd, n)) /\ end' = newEnd
      /\ begin' = begin /\ data_capacity' = data_capacity
  BY DEF PopBackN
<1> HIDE DEF n
<1>3. CASE data_capacity = 0
  <2>1. n = 0 /\ begin = 0 /\ end = 0
    BY <1>1, <1>3, NoBlockFound
  <2>2. -n = 0 - n
    BY <1>1
  <2>3. ASSUME NEW d, d = 0 - n PROVE IndexIncrementBy(end, d) = 0
    BY <2>1, <2>3 DEF IndexIncrementBy
  <2>4. end' = 0
    BY <1>2, <2>2, <2>3
  <2>5. IInv' /\ Queue!PopBack(0)
    BY <1>2, <1>3, <2>1, <2>4, NothingDrops
  <2> QED
    BY <2>1, <2>5 DEF n
<1>4. CASE data_capacity > 0
  <2>1. /\ data_capacity \in Nat \ {0} /\ begin \in 0 .. data_capacity - 1
        /\ Size \in 0 .. data_capacity - 1
    BY <1>4, RingFound
  <2>2. /\ Size - n \in 0 .. data_capacity - 1 /\ n \in Nat
        /\ (Size - n) + n < data_capacity
    BY <1>1, <2>1
  <2>3. newEnd = Slot(begin, Size - n, data_capacity)
    BY <1>1, <1>4, DecrementIsSlot DEF IInv
  <2>4. \A j \in 0 .. Size - n - 1 :
          Slot(begin, j, data_capacity) \notin Destroyed(newEnd, n)
    <3>1. ASSUME NEW j \in 0 .. Size - n - 1
          PROVE  /\ j \in 0 .. data_capacity - 1
                 /\ j \notin Size - n .. (Size - n) + n - 1
      BY <1>1, <2>1
    <3> HIDE DEF newEnd
    <3> QED
      BY <2>1, <2>2, <2>3, <3>1, DestroyedRange
  <2> HIDE DEF newEnd
  <2>5. IInv' /\ Queue!PopBack(n)
    BY <1>1, <1>2, <1>4, <2>3, <2>4, BackDrops
  <2> QED
    BY <2>5 DEF n
<1> QED
  BY <1>3, <1>4 DEF IInv, RingIsSound

\* The remainder that shrinking takes.
LEMMA RemainderIsSlot ==
  ASSUME data_capacity \in Nat \ {0},
         NEW b \in 0 .. data_capacity - 1, NEW i \in 0 .. data_capacity - 1
  PROVE  (b + i) % data_capacity = Slot(b, i, data_capacity)
<1>1. CASE b + i < data_capacity
  <2>1. b + i \in 0 .. data_capacity - 1
    BY <1>1
  <2> QED
    BY <1>1, <2>1, Remainders DEF Slot
<1>2. CASE b + i >= data_capacity
  <2>1. /\ b + i - data_capacity \in 0 .. data_capacity - 1
        /\ b + i = (b + i - data_capacity) + data_capacity
    BY <1>2
  <2>2. ((b + i - data_capacity) + data_capacity) % data_capacity
          = b + i - data_capacity
    BY <2>1, Remainders
  <2> QED
    BY <1>2, <2>1, <2>2 DEF Slot
<1> QED
  BY <1>1, <1>2

\* resize to fewer elements.
LEMMA ResizeDownKeeps ==
  ASSUME IInv, NEW count \in Nat, ResizeDown(count)
  PROVE  IInv' /\ Queue!PopBack(Size - count)
<1> DEFINE newEnd == (begin + count) % data_capacity
           n == Size - count
<1>1. /\ data' = Destroy(Destroyed(newEnd, Size - count)) /\ end' = newEnd
      /\ begin' = begin /\ data_capacity' = data_capacity
      /\ data_capacity > 0 /\ count <= Size
  BY DEF ResizeDown
<1>2. /\ data_capacity \in Nat \ {0} /\ begin \in 0 .. data_capacity - 1
      /\ Size \in 0 .. data_capacity - 1
  BY <1>1, RingFound
<1>3. /\ n \in 0 .. Size /\ n \in Nat /\ count \in 0 .. data_capacity - 1
      /\ Size - n = count /\ count + n < data_capacity
  BY <1>1, <1>2
<1>4. newEnd = Slot(begin, count, data_capacity)
  BY <1>2, <1>3, RemainderIsSlot
<1> HIDE DEF newEnd
<1>5. \A j \in 0 .. Size - n - 1 :
        Slot(begin, j, data_capacity) \notin Destroyed(newEnd, n)
  <2>1. ASSUME NEW j \in 0 .. Size - n - 1
        PROVE  j \in 0 .. data_capacity - 1 /\ j \notin count .. count + n - 1
    BY <1>2, <1>3
  <2> HIDE DEF n
  <2> QED
    BY <1>2, <1>3, <1>4, <2>1, DestroyedRange
<1>6. end' = Slot(begin, Size - n, data_capacity)
  BY <1>1, <1>3, <1>4
<1>7. data' = Destroy(Destroyed(newEnd, n))
  BY <1>1
<1> HIDE DEF n
<1>8. IInv' /\ Queue!PopBack(n)
  BY <1>1, <1>3, <1>5, <1>6, <1>7, BackDrops
<1> QED
  BY <1>8 DEF n

\* clear.
LEMMA ClearKeeps ==
  ASSUME IInv, Clear
  PROVE  IInv' /\ Queue!PopFront(Size)
<1>1. /\ data' = Destroy(Destroyed(begin, Size)) /\ begin' = 0 /\ end' = 0
      /\ data_capacity' = data_capacity
  BY DEF Clear
<1>2. CASE data_capacity = 0
  BY <1>1, <1>2, NoBlockFound, NothingDrops
<1>3. CASE data_capacity > 0
  <2>1. /\ data_capacity \in Nat \ {0} /\ data \in Blocks(data_capacity)
        /\ 3 * data_capacity < WordSize /\ Size \in Nat
        /\ Contents \in [1 .. Size -> Values]
    BY <1>3, RingFound
  <2>2. data' \in Blocks(data_capacity)
    BY <1>1, <2>1, DestroyKeepsTheRest
  <2> DEFINE s == SubSeq(Contents, Size + 1, Len(Contents))
  <2>3. s \in [1 .. Size - Size -> Values] /\ Size \in 0 .. Size
    BY <2>1, PoppedSequences
  <2>4. Size - Size = 0
    BY <2>1
  <2>5. s \in [1 .. 0 -> Values]
    BY <2>3, <2>4
  <2> HIDE DEF s
  <2>6. /\ 0 \in 0 .. MaxSize /\ 0 < data_capacity
        /\ 0 \in 0 .. data_capacity - 1 /\ 0 = Slot(0, 0, data_capacity)
        /\ 0 .. 0 - 1 = {}
    BY <2>1, MaxSizeAssumption DEF Slot
  <2>7. IInv' /\ Contents' = s
    BY <1>1, <2>1, <2>2, <2>5, <2>6, RingWillHold
  <2> QED
    BY <2>7 DEF s, Queue!PopFront
<1> QED
  BY <1>2, <1>3 DEF IInv, RingIsSound

----------------------------------------------------------------------------
(* Elements come.                                                          *)

\* Sequence s of n elements, the first of them those there were, and the
\* block moved to hold them: at the back.
LEMMA MovedAndExtended ==
  ASSUME IInv, NEW n \in 0 .. MaxSize, Size <= n,
         NEW s \in [1 .. n -> Values], \A i \in 1 .. Size : s[i] = Contents[i],
         NEW capacity \in Nat, n <= capacity, 3 * (capacity + 1) < WordSize,
         NEW added \in [Size .. n - 1 -> Values],
         \A i \in Size .. n - 1 : added[i] = s[i + 1],
         Relocate(capacity, added, 0, n)
  PROVE  IInv' /\ Contents' = s
<1>1. Size \in Nat /\ n \in Nat
  BY ContentsAreElements, MaxSizeAssumption
<1>2. /\ data' \in Blocks(capacity + 1)
      /\ \A i \in 0 .. capacity : i \in Size .. n - 1 => data'[i] = added[i]
      /\ \A i \in 0 .. capacity : i \notin Size .. n - 1 => data'[i] = ElementAt(i)
  BY NewBlock
<1>3. /\ data_capacity' = capacity + 1 /\ begin' = 0 /\ end' = n
      /\ data_capacity' \in Nat
  BY DEF Relocate
<1>4. ASSUME NEW i \in 0 .. n - 1
      PROVE  data'[Slot(begin', i, data_capacity')] = s[i + 1]
  <2>1. i \in 0 .. capacity /\ Slot(begin', i, data_capacity') = i
    BY <1>1, <1>3 DEF Slot
  <2>2. CASE i \in 0 .. Size - 1
    <3>1. i \notin Size .. n - 1 /\ i + 1 \in 1 .. Size
      BY <1>1, <2>2
    <3> QED
      BY <1>2, <2>1, <2>2, <3>1, MovedInOrder
  <2>3. CASE i \in Size .. n - 1
    BY <1>2, <2>1, <2>3
  <2> QED
    BY <1>1, <2>2, <2>3
<1>5. end' = Slot(begin', n, data_capacity') /\ n < data_capacity'
  BY <1>1, <1>3 DEF Slot
<1>6. begin' \in 0 .. data_capacity' - 1
  BY <1>3
<1>7. 3 * data_capacity' < WordSize /\ data' \in Blocks(data_capacity')
  BY <1>2, <1>3
<1> QED
  BY <1>3, <1>4, <1>5, <1>6, <1>7, RingWillHold

\* emplace_back.
LEMMA EmplaceBackKeeps ==
  ASSUME IInv, NEW v \in Values, EmplaceBack(v)
  PROVE  IInv' /\ Queue!PushBack(v)
<1> DEFINE n == Size + 1
           s == Append(Contents, v)
<1>1. Size \in Nat /\ Contents \in [1 .. Size -> Values] /\ Size < MaxSize
  BY ContentsAreElements DEF EmplaceBack
<1>2. n \in 0 .. MaxSize /\ n - 1 = Size /\ Size <= n
  BY <1>1, MaxSizeAssumption
<1>3. /\ s \in [1 .. n -> Values]
      /\ s[n] = v
      /\ \A i \in 1 .. Size : s[i] = Contents[i]
  BY <1>1, PushedSequences
<1>4. s[n] = v /\ \A i \in 1 .. Size : s[i] = Contents[i] /\ i # n
  BY <1>1, <1>3
<1>5. CASE Fits(1)
  <2>1. /\ data' = [data EXCEPT ![end] = v] /\ end' = IndexNext(end)
        /\ data_capacity' = data_capacity /\ begin' = begin
    BY <1>5 DEF EmplaceBack
  <2>2. data_capacity > 0 /\ Size + 1 <= data_capacity - 1
    BY <1>5, RoomFound
  <2>3. /\ data_capacity \in Nat \ {0} /\ 3 * data_capacity < WordSize
        /\ begin \in 0 .. data_capacity - 1 /\ data \in Blocks(data_capacity)
        /\ end = Slot(begin, Size, data_capacity)
        /\ \A i \in 0 .. Size - 1 :
             data[Slot(begin, i, data_capacity)] = Contents[i + 1]
    BY <2>2, RingFound
  <2>4. /\ Size \in 0 .. data_capacity - 1 /\ Size # data_capacity - 1
        /\ n < data_capacity
    BY <1>1, <2>2, <2>3
  <2>5. end' = Slot(begin, n, data_capacity)
    BY <2>1, <2>3, <2>4, NeighboursAreSlots
  <2>6. end \in 0 .. data_capacity - 1
    BY <2>3, <2>4, SlotInBlock
  <2>7. /\ data' \in Blocks(data_capacity) /\ data'[end] = v
        /\ \A i \in 0 .. data_capacity - 1 : i # end => data'[i] = data[i]
    BY <2>1, <2>3, <2>6 DEF Blocks
  <2>8. ASSUME NEW i \in 0 .. n - 1
        PROVE  data'[Slot(begin, i, data_capacity)] = s[i + 1]
    <3>1. CASE i = Size
      BY <1>4, <2>3, <2>7, <3>1
    <3>2. CASE i # Size
      <4>1. i \in 0 .. Size - 1 /\ i + 1 \in 1 .. Size /\ i \in 0 .. data_capacity - 1
        BY <1>1, <2>3, <2>4, <3>2
      <4>2. /\ Slot(begin, i, data_capacity) \in 0 .. data_capacity - 1
            /\ Slot(begin, i, data_capacity) # end
        BY <2>3, <2>4, <3>2, <4>1, SlotInBlock, SlotsDiffer
      <4> QED
        BY <1>4, <2>3, <2>7, <4>1, <4>2
    <3> QED
      BY <3>1, <3>2
  <2> HIDE DEF n, s
  <2>9. IInv' /\ Contents' = s
    BY <1>2, <1>3, <2>1, <2>3, <2>4, <2>5, <2>7, <2>8, RingWillHold
  <2> QED
    BY <2>9 DEF s, Queue!PushBack
<1>6. CASE ~ Fits(1)
  <2> DEFINE capacity == GrownCapacity(1)
             added == [i \in {Size} |-> v]
  <2>1. Relocate(capacity, added, 0, n)
    BY <1>6 DEF EmplaceBack
  <2>2. Size + 1 <= MaxSize
    BY <1>1, MaxSizeAssumption
  <2>3. capacity \in Nat /\ n <= capacity /\ 3 * (capacity + 1) < WordSize
    BY <1>6, <2>2, GrowthSuffices
  <2>4. {Size} = Size .. n - 1
    BY <1>1
  <2>5. added \in [Size .. n - 1 -> Values] /\ added[Size] = v
    BY <2>4
  <2>6. \A i \in Size .. n - 1 : added[i] = s[i + 1]
    BY <1>4, <2>4, <2>5
  <2> HIDE DEF capacity, added, s, n
  <2>7. IInv' /\ Contents' = s
    BY <1>2, <1>3, <1>4, <2>1, <2>3, <2>5, <2>6, MovedAndExtended
  <2> QED
    BY <2>7 DEF s, Queue!PushBack
<1> QED
  BY <1>5, <1>6

\* resize to more elements, copies of v.
LEMMA ResizeUpKeeps ==
  ASSUME IInv, NEW count \in 0 .. MaxSize, NEW v \in Values, ResizeUp(count, v)
  PROVE  IInv' /\ Queue!Resize(count, v)
<1> DEFINE k == count - Size
           s == [i \in 1 .. count |-> IF i <= Len(Contents) THEN Contents[i] ELSE v]
<1>1. /\ Size \in Nat /\ Contents \in [1 .. Size -> Values]
      /\ Len(Contents) = Size /\ Size < count
  BY ContentsAreElements DEF ResizeUp
<1>2. count \in Nat /\ k \in Nat \ {0} /\ Size + k = count /\ Size <= count
  BY <1>1, MaxSizeAssumption
<1>3. s \in [1 .. count -> Values]
  BY <1>1
<1>4. /\ \A i \in 1 .. Size : s[i] = Contents[i]
      /\ \A i \in Size .. count - 1 : s[i + 1] = v
  BY <1>1, <1>2
<1>5. CASE Fits(k)
  <2>1. /\ data' = [j \in DOMAIN data |-> IF j \in Destroyed(end, k) THEN v ELSE data[j]]
        /\ end' = IndexIncrementBy(end, k)
        /\ data_capacity' = data_capacity /\ begin' = begin
    BY <1>5 DEF ResizeUp
  <2>2. data_capacity > 0 /\ Size + k <= data_capacity - 1
    BY <1>2, <1>5, RoomFound
  <2>3. /\ data_capacity \in Nat \ {0} /\ 3 * data_capacity < WordSize
        /\ begin \in 0 .. data_capacity - 1 /\ data \in Blocks(data_capacity)
        /\ end = Slot(begin, Size, data_capacity)
        /\ \A i \in 0 .. Size - 1 :
             data[Slot(begin, i, data_capacity)] = Contents[i + 1]
    BY <2>2, RingFound
  <2>4. /\ Size \in 0 .. data_capacity - 1 /\ k \in 0 .. data_capacity - 1
        /\ count < data_capacity /\ Size + k < data_capacity
        /\ Size + k # data_capacity /\ Size + k <= data_capacity
    BY <1>1, <1>2, <2>2, <2>3
  <2>5. end \in 0 .. data_capacity - 1
    BY <2>3, <2>4, SlotInBlock
  <2>6. end' = Slot(begin, count, data_capacity)
    <3>1. end' = Slot(end, k, data_capacity)
      BY <2>1, <2>3, <2>4, <2>5, IncrementIsSlot
    <3>2. Slot(end, k, data_capacity) = Slot(begin, Size + k, data_capacity)
      BY <2>3, <2>4, SlotOfSlot
    <3> QED
      BY <1>2, <3>1, <3>2
  <2>7. /\ data' \in Blocks(data_capacity)
        /\ \A j \in 0 .. data_capacity - 1 :
             data'[j] = IF j \in Destroyed(end, k) THEN v ELSE data[j]
    BY <2>1, <2>3 DEF Blocks
  <2>8. ASSUME NEW i \in 0 .. count - 1
        PROVE  data'[Slot(begin, i, data_capacity)] = s[i + 1]
    <3>1. i \in 0 .. data_capacity - 1 /\ Size + k - 1 = count - 1
      BY <1>1, <1>2, <2>3, <2>4
    <3>2. Slot(begin, i, data_capacity) \in 0 .. data_capacity - 1
      BY <2>3, <3>1, SlotInBlock
    <3>3. Slot(begin, i, data_capacity) \in Destroyed(end, k) <=> i \in Size .. count - 1
      BY <1>2, <2>3, <2>4, <3>1, DestroyedRange
    <3>4. CASE i \in Size .. count - 1
      BY <1>4, <2>7, <3>2, <3>3, <3>4
    <3>5. CASE i \notin Size .. count - 1
      <4>1. i \in 0 .. Size - 1 /\ i + 1 \in 1 .. Size
        BY <1>1, <1>2, <3>5
      <4> QED
        BY <1>4, <2>3, <2>7, <3>2, <3>3, <3>5, <4>1
    <3> QED
      BY <3>4, <3>5
  <2> HIDE DEF s, k
  <2>9. IInv' /\ Contents' = s
    BY <1>2, <1>3, <2>1, <2>3, <2>4, <2>6, <2>7, <2>8, RingWillHold
  <2> QED
    BY <2>9 DEF s, Queue!Resize
<1>6. CASE ~ Fits(k)
  <2> DEFINE capacity == GrownCapacity(k)
             added == [i \in Size .. count - 1 |-> v]
  <2>1. Relocate(capacity, added, 0, count)
    BY <1>6 DEF ResizeUp
  <2>2. Size + k <= MaxSize
    BY <1>2, MaxSizeAssumption
  <2>3. capacity \in Nat /\ count <= capacity /\ 3 * (capacity + 1) < WordSize
    BY <1>2, <1>6, <2>2, GrowthSuffices
  <2>4. added \in [Size .. count - 1 -> Values]
    OBVIOUS
  <2>5. \A i \in Size .. count - 1 : added[i] = s[i + 1]
    BY <1>4
  <2> HIDE DEF capacity, added, s
  <2>6. IInv' /\ Contents' = s
    BY <1>2, <1>3, <1>4, <2>1, <2>3, <2>4, <2>5, MovedAndExtended
  <2> QED
    BY <2>6 DEF s, Queue!Resize
<1> QED
  BY <1>5, <1>6

\* A ring that begins one slot earlier counts one more up to each element.
LEMMA SlotBefore ==
  ASSUME data_capacity \in Nat \ {0}, NEW b \in 0 .. data_capacity - 1
  PROVE  /\ IndexPrev(b) \in 0 .. data_capacity - 1
         /\ Slot(IndexPrev(b), 0, data_capacity) = IndexPrev(b)
         /\ \A i \in 0 .. data_capacity - 2 :
              /\ Slot(IndexPrev(b), i + 1, data_capacity) = Slot(b, i, data_capacity)
              /\ Slot(b, i, data_capacity) # IndexPrev(b)
BY DEF IndexPrev, Slot

\* emplace_front.
LEMMA EmplaceFrontKeeps ==
  ASSUME IInv, NEW v \in Values, EmplaceFront(v)
  PROVE  IInv' /\ Queue!PushFront(v)
<1> DEFINE n == Size + 1
           s == <<v>> \o Contents
<1>1. Size \in Nat /\ Contents \in [1 .. Size -> Values] /\ Size < MaxSize
  BY ContentsAreElements DEF EmplaceFront
<1>2. n \in 0 .. MaxSize /\ n - 1 = Size /\ Size <= n
  BY <1>1, MaxSizeAssumption
<1>3. /\ s \in [1 .. n -> Values]
      /\ s[1] = v
      /\ \A i \in 1 .. Size : s[i + 1] = Contents[i]
  BY <1>1, PushedSequences
<1>4. CASE Fits(1)
  <2> DEFINE first == IndexPrev(begin)
  <2>1. /\ data' = [data EXCEPT ![first] = v] /\ begin' = first
        /\ data_capacity' = data_capacity /\ end' = end
    BY <1>4 DEF EmplaceFront
  <2>2. data_capacity > 0 /\ Size + 1 <= data_capacity - 1
    BY <1>4, RoomFound
  <2>3. /\ data_capacity \in Nat \ {0} /\ 3 * data_capacity < WordSize
        /\ begin \in 0 .. data_capacity - 1 /\ data \in Blocks(data_capacity)
        /\ end = Slot(begin, Size, data_capacity)
        /\ \A i \in 0 .. Size - 1 :
             data[Slot(begin, i, data_capacity)] = Contents[i + 1]
    BY <2>2, RingFound
  <2>4. /\ first \in 0 .. data_capacity - 1
        /\ Slot(first, 0, data_capacity) = first
        /\ \A i \in 0 .. data_capacity - 2 :
             /\ Slot(first, i + 1, data_capacity) = Slot(begin, i, data_capacity)
             /\ Slot(begin, i, data_capacity) # first
    BY <2>3, SlotBefore
  <2> HIDE DEF first
  <2>5. /\ n < data_capacity /\ Size \in 0 .. data_capacity - 2
        /\ n = Size + 1
    BY <1>1, <2>2, <2>3
  <2>6. end' = Slot(first, n, data_capacity)
    BY <2>1, <2>3, <2>4, <2>5
  <2>7. /\ data' \in Blocks(data_capacity) /\ data'[first] = v
        /\ \A i \in 0 .. data_capacity - 1 : i # first => data'[i] = data[i]
    BY <2>1, <2>3, <2>4 DEF Blocks
  <2>8. ASSUME NEW i \in 0 .. n - 1
        PROVE  data'[Slot(first, i, data_capacity)] = s[i + 1]
    <3>1. CASE i = 0
      BY <1>3, <2>4, <2>7, <3>1
    <3>2. CASE i # 0
      <4> DEFINE j == i - 1
      <4>1. /\ j \in 0 .. Size - 1 /\ j \in 0 .. data_capacity - 2
            /\ j \in 0 .. data_capacity - 1
            /\ j + 1 = i /\ i \in 1 .. Size
        BY <1>1, <2>3, <2>5, <3>2
      <4> HIDE DEF j
      <4>2. Slot(first, i, data_capacity) = Slot(begin, j, data_capacity)
        BY <2>4, <4>1
      <4>3. Slot(begin, j, data_capacity) \in 0 .. data_capacity - 1
        BY <2>3, <4>1, SlotInBlock
      <4>4. data'[Slot(begin, j, data_capacity)] = Contents[i]
        BY <2>3, <2>4, <2>7, <4>1, <4>3
      <4> QED
        BY <1>3, <4>1, <4>2, <4>4
    <3> QED
      BY <3>1, <3>2
  <2> HIDE DEF n, s
  <2>9. IInv' /\ Contents' = s
    BY <1>2, <1>3, <2>1, <2>3, <2>4, <2>5, <2>6, <2>7, <2>8, RingWillHold
  <2> QED
    BY <2>9 DEF s, Queue!PushFront
<1>5. CASE ~ Fits(1)
  <2> DEFINE last == GrownCapacity(1)
             added == [i \in {last} |-> v]
  <2>1. Relocate(last, added, last, Size)
    BY <1>5 DEF EmplaceFront
  <2>2. Size + 1 <= MaxSize
    BY <1>1, MaxSizeAssumption
  <2>3. last \in Nat /\ Size + 1 <= last /\ 3 * (last + 1) < WordSize
    BY <1>5, <2>2, GrowthSuffices
  <2>4. added \in [{last} -> Values] /\ added[last] = v
    OBVIOUS
  <2> HIDE DEF last, added
  <2>5. /\ data' \in Blocks(last + 1)
        /\ \A i \in 0 .. last : i \in {last} => data'[i] = added[i]
        /\ \A i \in 0 .. last : i \notin {last} => data'[i] = ElementAt(i)
    BY <2>1, <2>3, <2>4, NewBlock
  <2>6. data_capacity' = last + 1 /\ begin' = last /\ end' = Size
    BY <2>1 DEF Relocate
  <2>7. /\ data_capacity' \in Nat /\ n < data_capacity'
        /\ 3 * data_capacity' < WordSize
        /\ begin' \in 0 .. data_capacity' - 1
        /\ data' \in Blocks(data_capacity')
    BY <1>1, <2>3, <2>5, <2>6
  <2>8. end' = Slot(begin', n, data_capacity')
    BY <1>1, <2>3, <2>6 DEF Slot
  <2>9. ASSUME NEW i \in 0 .. n - 1
        PROVE  data'[Slot(begin', i, data_capacity')] = s[i + 1]
    <3>1. CASE i = 0
      <4>1. Slot(begin', i, data_capacity') = last /\ last \in 0 .. last
        BY <2>3, <2>6, <3>1 DEF Slot
      <4> QED
        BY <1>3, <2>4, <2>5, <3>1, <4>1
    <3>2. CASE i # 0
      <4> DEFINE j == i - 1
      <4>1. /\ j \in 0 .. Size - 1 /\ j \in 0 .. last /\ j \notin {last}
            /\ j + 1 = i /\ i \in 1 .. Size
        BY <1>1, <2>3, <3>2
      <4>2. Slot(begin', i, data_capacity') = j
        BY <1>1, <2>3, <2>6, <3>2 DEF Slot
      <4> HIDE DEF j
      <4>3. data'[j] = Contents[i]
        BY <2>5, <4>1, MovedInOrder
      <4> QED
        BY <1>3, <4>1, <4>2, <4>3
    <3> QED
      BY <3>1, <3>2
  <2> HIDE DEF n, s
  <2>10. IInv' /\ Contents' = s
    BY <1>2, <1>3, <2>7, <2>8, <2>9, RingWillHold
  <2> QED
    BY <2>10 DEF s, Queue!PushFront
<1> QED
  BY <1>4, <1>5

\* reserve, and the block it allocates.
LEMMA ReserveKeeps ==
  ASSUME IInv, NEW capacity \in 0 .. MaxSize, Reserve(capacity)
  PROVE  IInv' /\ Contents' = Contents
<1>1. Size \in Nat /\ Contents \in [1 .. Size -> Values] /\ Size \in 0 .. MaxSize
  BY ContentsAreElements DEF IInv, LiveAreValues
<1>2. Size <= Capacity
  <2>1. CASE data_capacity = 0
    BY <2>1, NoBlockFound DEF Capacity
  <2>2. CASE data_capacity > 0
    BY <2>2, RingFound DEF Capacity
  <2> QED
    BY <2>1, <2>2 DEF IInv, RingIsSound
<1>3. capacity \in Nat /\ Size <= capacity /\ 3 * (capacity + 1) < WordSize
  <2>1. Capacity \in Int /\ capacity > Capacity
    BY DEF Capacity, Reserve, IInv, RingIsSound
  <2> QED
    BY <1>1, <1>2, <2>1, MaxSizeAssumption, WordSizeAssumption,
       MinCapacityIncrementAssumption
<1>4. Size .. Size - 1 = {} /\ <<>> \in [{} -> Values]
  BY <1>1
<1>5. <<>> \in [Size .. Size - 1 -> Values]
  BY <1>4
<1>6. Relocate(capacity, <<>>, 0, Size)
  BY DEF Reserve
<1>7. \A i \in Size .. Size - 1 : <<>>[i] = Contents[i + 1]
  BY <1>4
<1>8. Size <= Size
  BY <1>1
<1> QED
  BY <1>1, <1>3, <1>5, <1>6, <1>7, <1>8, MovedAndExtended

----------------------------------------------------------------------------
(* Steps.                                                                  *)

\* Each operation keeps the ring and does what its namesake does.
PromiseKept ==
  /\ \A v \in Values :
       /\ EmplaceBack(v) => IInv' /\ Queue!PushBack(v)
       /\ EmplaceFront(v) => IInv' /\ Queue!PushFront(v)
       /\ \A count \in 0 .. MaxSize :
            ResizeUp(count, v) => IInv' /\ Queue!Resize(count, v)
  /\ PopFront => IInv' /\ Queue!PopFront(1)
  /\ PopBack => IInv' /\ Queue!PopBack(1)
  /\ \A n \in 0 .. MaxSize :
       /\ PopFrontN(n) => IInv' /\ Queue!PopFront(Smaller(n, Size))
       /\ PopBackN(n) => IInv' /\ Queue!PopBack(Smaller(n, Size))
       /\ ResizeDown(n) => IInv' /\ Queue!PopBack(Size - n)
       /\ Reserve(n) => IInv' /\ Contents' = Contents
  /\ Clear => IInv' /\ Queue!PopFront(Size)

\* The operations together.
LEMMA OperationsKeep == IInv => PromiseKept
<1> SUFFICES ASSUME IInv PROVE PromiseKept
  OBVIOUS
<1>1. ASSUME NEW v \in Values
      PROVE  /\ EmplaceBack(v) => IInv' /\ Queue!PushBack(v)
             /\ EmplaceFront(v) => IInv' /\ Queue!PushFront(v)
             /\ \A count \in 0 .. MaxSize :
                  ResizeUp(count, v) => IInv' /\ Queue!Resize(count, v)
  BY EmplaceBackKeeps, EmplaceFrontKeeps, ResizeUpKeeps
<1>2. /\ PopFront => IInv' /\ Queue!PopFront(1)
      /\ PopBack => IInv' /\ Queue!PopBack(1)
      /\ Clear => IInv' /\ Queue!PopFront(Size)
  BY PopFrontKeeps, PopBackKeeps, ClearKeeps
<1>3. ASSUME NEW n \in 0 .. MaxSize
      PROVE  /\ PopFrontN(n) => IInv' /\ Queue!PopFront(Smaller(n, Size))
             /\ PopBackN(n) => IInv' /\ Queue!PopBack(Smaller(n, Size))
             /\ ResizeDown(n) => IInv' /\ Queue!PopBack(Size - n)
             /\ Reserve(n) => IInv' /\ Contents' = Contents
  <2>1. n \in Nat
    BY MaxSizeAssumption
  <2> QED
    BY <2>1, PopFrontNKeeps, PopBackNKeeps, ResizeDownKeeps, ReserveKeeps
<1> QED
  BY <1>1, <1>2, <1>3 DEF PromiseKept

\* A step that leaves the variables leaves the ring.
LEMMA StutterKeeps == IInv /\ UNCHANGED vars => IInv' /\ Contents' = Contents
<1> SUFFICES ASSUME IInv, UNCHANGED vars PROVE IInv' /\ Contents' = Contents
  OBVIOUS
<1>1. /\ data' = data /\ data_capacity' = data_capacity
      /\ begin' = begin /\ end' = end
  BY DEF vars
<1>2. Size' = Size /\ \A i : Element(i)' = Element(i)
  BY <1>1 DEF Size, Element
<1>3. Contents' = Contents
  BY <1>1, <1>2 DEF Contents, SlotAt
<1>4. RingIsSound'
  BY <1>1 DEF IInv, RingIsSound
<1>5. LiveAreValues'
  BY <1>2 DEF IInv, LiveAreValues
<1> QED
  BY <1>3, <1>4, <1>5 DEF IInv

\* The ring is sound in every state.
THEOREM DequeInvariant == Spec => []IInv
<1>1. Init => IInv
  BY NoBlockHoldsNothing DEF Init
<1>2. IInv /\ [Next]_vars => IInv'
  BY OperationsKeep, StutterKeeps DEF Next, PromiseKept
<1> QED
  BY <1>1, <1>2, PTL DEF Spec

\* begin_ and end_ are slots of the block whenever there is one.
THEOREM DequeTypeCorrect == Spec => []TypeOK
<1>1. IInv => TypeOK
  <2> SUFFICES ASSUME IInv PROVE TypeOK
    OBVIOUS
  <2>1. CASE data_capacity = 0
    <3>1. data = <<>> /\ begin = 0 /\ end = 0
      BY <2>1, NoBlockFound
    <3>2. DOMAIN data = {}
      BY <3>1
    <3> QED
      BY <2>1, <3>1, <3>2 DEF TypeOK, Larger
  <2>2. CASE data_capacity > 0
    <3>1. data \in Blocks(data_capacity) /\ data_capacity \in Nat
      BY <2>2, RingFound
    <3>2. DOMAIN data = 0 .. data_capacity - 1
          /\ \A s \in DOMAIN data : data[s] \in Values \cup {Garbage}
      BY <3>1 DEF Blocks
    <3>3. /\ begin \in 0 .. data_capacity - 1 /\ end \in 0 .. data_capacity - 1
          /\ Larger(data_capacity - 1, 0) = data_capacity - 1
      BY <2>2 DEF IInv, RingIsSound, Larger
    <3> QED
      BY <3>1, <3>2, <3>3 DEF TypeOK
  <2> QED
    BY <2>1, <2>2 DEF IInv, RingIsSound
<1> QED
  BY <1>1, DequeInvariant, PTL

\* Each operation has the effect of its namesake on a sequence: growing inside
\* emplace_back and emplace_front, and the wrap, are never seen.
THEOREM PromisesAreKept == Spec => OperationsKeepTheirPromise
<1> DEFINE Promise ==
      /\ \A v \in Values :
           /\ EmplaceBack(v) => Queue!PushBack(v)
           /\ EmplaceFront(v) => Queue!PushFront(v)
           /\ \A count \in 0 .. MaxSize :
                ResizeUp(count, v) => Queue!Resize(count, v)
      /\ \A n \in 0 .. MaxSize :
           /\ PopFrontN(n) => Queue!PopFront(Smaller(n, Size))
           /\ PopBackN(n) => Queue!PopBack(Smaller(n, Size))
           /\ ResizeDown(n) => Queue!PopBack(Size - n)
           /\ Reserve(n) => UNCHANGED Contents
<1>1. IInv /\ [Next]_vars => [Promise]_vars
  BY OperationsKeep DEF PromiseKept
<1>2. Spec => [][Promise]_vars
  BY <1>1, DequeInvariant, PTL DEF Spec
<1> QED
  BY <1>2 DEF OperationsKeepTheirPromise, Promise

\* The deque implements a sequence open at both ends: every operation is one
\* of the sequence or leaves it alone.
THEOREM DequeImplementsQueue == Spec => ImplementsQueue
<1>1. Init => Queue!Init
  BY NoBlockHoldsNothing DEF Init, Queue!Init
<1>2. IInv /\ [Next]_vars => [Queue!Next]_Contents
  <2> SUFFICES ASSUME IInv, [Next]_vars PROVE [Queue!Next]_Contents
    OBVIOUS
  <2>1. PromiseKept /\ Len(Contents) = Size /\ Size \in Nat
    BY OperationsKeep, ContentsAreElements
  <2>2. ASSUME NEW v \in Values, EmplaceBack(v) PROVE [Queue!Next]_Contents
    BY <2>1, <2>2 DEF PromiseKept, Queue!Next
  <2>3. ASSUME NEW v \in Values, EmplaceFront(v) PROVE [Queue!Next]_Contents
    BY <2>1, <2>3 DEF PromiseKept, Queue!Next
  <2>4. ASSUME NEW v \in Values, NEW count \in 0 .. MaxSize, ResizeUp(count, v)
        PROVE  [Queue!Next]_Contents
    BY <2>1, <2>4 DEF PromiseKept, Queue!Next
  <2>5. CASE PopFront
    <3>1. 1 \in 0 .. Len(Contents)
      BY <2>1, <2>5 DEF PopFront
    <3> QED
      BY <2>1, <2>5, <3>1 DEF PromiseKept, Queue!Next
  <2>6. CASE PopBack
    <3>1. 1 \in 0 .. Len(Contents)
      BY <2>1, <2>6 DEF PopBack
    <3> QED
      BY <2>1, <2>6, <3>1 DEF PromiseKept, Queue!Next
  <2>7. ASSUME NEW n \in 0 .. MaxSize, PopFrontN(n) \/ PopBackN(n)
        PROVE  [Queue!Next]_Contents
    <3>1. Smaller(n, Size) \in 0 .. Len(Contents)
      BY <2>1, MaxSizeAssumption DEF Smaller
    <3> QED
      BY <2>1, <2>7, <3>1 DEF PromiseKept, Queue!Next
  <2>8. ASSUME NEW n \in 0 .. MaxSize, ResizeDown(n) PROVE [Queue!Next]_Contents
    <3>1. Size - n \in 0 .. Len(Contents)
      BY <2>1, <2>8, MaxSizeAssumption DEF ResizeDown
    <3> QED
      BY <2>1, <2>8, <3>1 DEF PromiseKept, Queue!Next
  <2>9. ASSUME NEW n \in 0 .. MaxSize, Reserve(n) PROVE [Queue!Next]_Contents
    BY <2>1, <2>9 DEF PromiseKept
  <2>10. CASE Clear
    <3>1. Size \in 0 .. Len(Contents)
      BY <2>1
    <3> QED
      BY <2>1, <2>10, <3>1 DEF PromiseKept, Queue!Next
  <2>11. CASE UNCHANGED vars
    BY <2>11, StutterKeeps
  <2> QED
    BY <2>2, <2>3, <2>4, <2>5, <2>6, <2>7, <2>8, <2>9, <2>10, <2>11 DEF Next
<1>3. Spec => Queue!Init /\ [][Queue!Next]_Contents
  BY <1>1, <1>2, DequeInvariant, PTL DEF Spec
<1> QED
  BY <1>3 DEF ImplementsQueue, Queue!Spec

----------------------------------------------------------------------------
(* Positions.                                                              *)

\* front(), back() and the iterators.
LEMMA IteratorsDoAgree == IInv => IteratorsAgree
<1> SUFFICES ASSUME IInv PROVE IteratorsAgree
  OBVIOUS
<1>1. CASE data_capacity = 0
  <2>1. Size = 0
    BY <1>1, NoBlockFound
  <2> QED
    BY <1>1, <2>1 DEF IteratorsAgree
<1>2. CASE data_capacity > 0
  <2>1. /\ data_capacity \in Nat \ {0} /\ begin \in 0 .. data_capacity - 1
        /\ Size \in 0 .. data_capacity - 1
        /\ end = Slot(begin, Size, data_capacity)
        /\ \A i \in 0 .. Size - 1 :
             data[Slot(begin, i, data_capacity)] = Contents[i + 1]
    BY <1>2, RingFound
  <2>2. ASSUME Size > 0 PROVE Front = Contents[1] /\ Back = Contents[Size]
    <3>1. /\ 0 \in 0 .. Size - 1 /\ 0 + 1 = 1
          /\ Size - 1 \in 0 .. Size - 1 /\ (Size - 1) + 1 = Size
      BY <2>1, <2>2
    <3>2. begin = Slot(begin, 0, data_capacity)
      BY <2>1 DEF Slot
    <3>3. Slot(begin, Size - 1, data_capacity)
            = IF end = 0 THEN data_capacity - 1 ELSE end - 1
      BY <2>1, <2>2 DEF Slot
    <3>4. Front = Contents[1]
      BY <2>1, <3>1, <3>2 DEF Front
    <3>5. Back = Contents[Size]
      BY <2>1, <3>1, <3>3 DEF Back
    <3> QED
      BY <3>4, <3>5
  <2>3. ASSUME NEW i \in 0 .. Size
        PROVE  /\ ExternalPosition(IndexIncrementBy(begin, i)) = i
               /\ i < Size => IndexIncrementBy(begin, i) = SlotAt(i)
    <3>1. i \in 0 .. data_capacity - 1
      BY <2>1
    <3>2. IndexIncrementBy(begin, i) = Slot(begin, i, data_capacity)
      BY <2>1, <3>1, IncrementIsSlot
    <3>3. SlotAt(i) = Slot(begin, i, data_capacity)
      BY <1>2, <3>1, SlotAtIsSlot DEF IInv
    <3>4. ExternalPosition(Slot(begin, i, data_capacity)) = i
      BY <2>1, <3>1 DEF ExternalPosition, Slot
    <3> QED
      BY <3>2, <3>3, <3>4
  <2> QED
    BY <2>2, <2>3 DEF IteratorsAgree
<1> QED
  BY <1>1, <1>2 DEF IInv, RingIsSound

\* Indexes below the front.
LEMMA StaleIndexesDoAlias == IInv => StaleIndexAliases
<1> SUFFICES ASSUME IInv, NEW k \in 1 .. data_capacity
             PROVE  /\ (SlotAt(WordSize - k) < data_capacity) <=> (k <= begin)
                    /\ \A i \in 0 .. Size - 1 :
                         k <= begin => ((SlotAt(WordSize - k) = SlotAt(i))
                                          <=> (i = data_capacity - k))
  BY DEF StaleIndexAliases
<1>1. data_capacity > 0
  BY DEF IInv, RingIsSound
<1>2. /\ data_capacity \in Nat \ {0} /\ begin \in 0 .. data_capacity - 1
      /\ Size \in 0 .. data_capacity - 1 /\ 3 * data_capacity < WordSize
      /\ WordSize \in Nat \ {0} /\ k \in Nat
  BY <1>1, RingFound, WordSizeAssumption
<1>3. CASE k <= begin
  <2>1. begin - k \in 0 .. WordSize - 1 /\ begin - k < data_capacity
    BY <1>2, <1>3
  <2>2. begin + (WordSize - k) = (begin - k) + WordSize
    BY <1>2
  <2>3. ((begin - k) + WordSize) % WordSize = begin - k
    BY <1>2, <2>1, Remainders
  <2>4. SlotAt(WordSize - k) = begin - k
    BY <2>1, <2>2, <2>3 DEF SlotAt
  <2>5. ASSUME NEW i \in 0 .. Size - 1
        PROVE  (begin - k = SlotAt(i)) <=> (i = data_capacity - k)
    <3>1. i \in 0 .. data_capacity - 1
      BY <1>2
    <3>2. SlotAt(i) = Slot(begin, i, data_capacity)
      BY <1>1, <3>1, SlotAtIsSlot DEF IInv
    <3> QED
      BY <1>2, <1>3, <3>1, <3>2 DEF Slot
  <2> QED
    BY <1>3, <2>1, <2>4, <2>5
<1>4. CASE k > begin
  <2> DEFINE index == WordSize - (k - begin)
  <2>1. /\ index \in 0 .. WordSize - 1 /\ index - data_capacity \in 0 .. WordSize - 1
        /\ index >= 2 * data_capacity /\ begin + (WordSize - k) = index
    BY <1>2, <1>4
  <2> HIDE DEF index
  <2>2. index % WordSize = index /\ (index - data_capacity) % WordSize = index - data_capacity
    BY <1>2, <2>1, Remainders
  <2>3. SlotAt(WordSize - k) = index - data_capacity /\ index - data_capacity >= data_capacity
    BY <1>2, <2>1, <2>2 DEF SlotAt
  <2> QED
    BY <1>2, <1>4, <2>1, <2>3
<1> QED
  BY <1>2, <1>3, <1>4

\* Iterators and operator[] agree across the wrap, and an index below the
\* front is in the block exactly if it names a slot before begin_.
THEOREM PositionsStayExact == Spec => []PositionsAreExact
<1>1. IInv => PositionsAreExact
  BY IteratorsDoAgree, StaleIndexesDoAlias DEF PositionsAreExact
<1> QED
  BY <1>1, DequeInvariant, PTL
=============================================================================
