--------------------------- MODULE CircularDeque ---------------------------
(***************************************************************************)
(* QuicheCircularDeque: a block of memory used as a ring.  One slot stays  *)
(* unused, so that begin_ = end_ means empty and never full.  The block    *)
(* grows by relocation to the start of a larger one and never shrinks.     *)
(***************************************************************************)
EXTENDS Integers, Sequences

CONSTANTS
  Values,       \* elements, one of them what a default constructor leaves
  Garbage,      \* what a slot without a live element holds
  MinCapacityIncrement,
  MaxSize,      \* elements a caller keeps (bounds the model)
  WordSize      \* 2^64, the range of size_type

ASSUME MinCapacityIncrementAssumption == MinCapacityIncrement \in Nat \ {0}
ASSUME MaxSizeAssumption == MaxSize \in Nat
ASSUME GarbageAssumption == Garbage \notin Values
\* Blocks are far smaller than the range of size_type.
ASSUME WordSizeAssumption ==
  WordSize \in Nat /\ WordSize > 4 * (MaxSize + MinCapacityIncrement) + 4

VARIABLES
  data,           \* the slots of the block
  data_capacity,  \* their number
  begin, end      \* begin_ and end_

vars == <<data, data_capacity, begin, end>>

Larger(m, n) == IF m > n THEN m ELSE n
Smaller(m, n) == IF m < n THEN m ELSE n

Size == IF begin <= end THEN end - begin ELSE data_capacity + end - begin
Capacity == IF data_capacity = 0 THEN 0 ELSE data_capacity - 1

\* Faulty: an index one past the block is left as it is.
IndexNextUnwrapped(i) == i + 1

IndexPrev(i) == IF i = 0 THEN data_capacity - 1 ELSE i - 1
IndexNext(i) == IF i = data_capacity - 1 THEN 0 ELSE i + 1
IndexIncrementBy(i, delta) ==
  IF delta = 0 THEN i ELSE (i + data_capacity + delta) % data_capacity

\* Faulty: the remainder is taken by the capacity of the block.
SlotAtModulo(pos) == (begin + pos) % (data_capacity + 1)

\* The slot at(pos) returns, in size_type arithmetic.  It is in the block if
\* it is below data_capacity.
SlotAt(pos) ==
  LET index == (begin + pos) % WordSize
  IN  IF index < data_capacity THEN index
                               ELSE (index - data_capacity) % WordSize

\* front() and back().
Front == data[begin]
Back == data[IF end = 0 THEN data_capacity - 1 ELSE end - 1]

Init ==
  /\ data = <<>>
  /\ data_capacity = 0
  /\ begin = 0
  /\ end = 0

----------------------------------------------------------------------------
(* Growth.                                                                 *)

\* Faulty: the elements before the wrap are not told from those after it.
UnwrappedElementAt(i) == IF i < Size /\ begin + i < data_capacity
                           THEN data[begin + i] ELSE Garbage

\* The element Relocate puts in slot i of the new block: a wrapped range is
\* copied in two parts.
ElementAt(i) ==
  IF i >= Size THEN Garbage
  ELSE IF begin + i < data_capacity THEN data[begin + i]
  ELSE data[begin + i - data_capacity]

\* Relocate, then put each element of `added' (slot to value) in its slot.
Relocate(capacity, added, first, last) ==
  /\ data_capacity' = capacity + 1
  /\ data' = [i \in 0 .. capacity |->
                IF i \in DOMAIN added THEN added[i] ELSE ElementAt(i)]
  /\ begin' = first
  /\ end' = last

\* Faulty: the block counts as large enough when it would be full.
FitsWithoutSpare(n) == data_capacity >= Size + n

\* MaybeExpandCapacity has nothing to do for n more elements.
Fits(n) == Capacity >= Size + n

GrownCapacity(n) ==
  Larger(Size + n, Capacity + Larger(MinCapacityIncrement, Capacity \div 4))

----------------------------------------------------------------------------
(* Operations.                                                             *)

EmplaceBack(v) ==
  /\ Size < MaxSize
  /\ IF Fits(1)
       THEN /\ data' = [data EXCEPT ![end] = v]
            /\ end' = IndexNext(end)
            /\ UNCHANGED <<data_capacity, begin>>
       ELSE Relocate(GrownCapacity(1), [i \in {Size} |-> v], 0, Size + 1)

EmplaceFront(v) ==
  /\ Size < MaxSize
  /\ IF Fits(1)
       THEN /\ data' = [data EXCEPT ![IndexPrev(begin)] = v]
            /\ begin' = IndexPrev(begin)
            /\ UNCHANGED <<data_capacity, end>>
       ELSE LET last == GrownCapacity(1)
            IN  Relocate(last, [i \in {last} |-> v], last, Size)

\* The slots of n elements from `first' on are destroyed.
Destroyed(first, n) ==
  {s \in 0 .. data_capacity - 1 :
      \E i \in 0 .. n - 1 : s = IndexIncrementBy(first, i)}

Destroy(slots) == [s \in DOMAIN data |-> IF s \in slots THEN Garbage
                                                        ELSE data[s]]

PopFront ==
  /\ Size > 0
  /\ data' = Destroy({begin})
  /\ begin' = IndexNext(begin)
  /\ UNCHANGED <<data_capacity, end>>

PopFrontN(count) ==
  LET n == Smaller(count, Size)
  IN  /\ data' = Destroy(Destroyed(begin, n))
      /\ begin' = IndexIncrementBy(begin, n)
      /\ UNCHANGED <<data_capacity, end>>

PopBack ==
  /\ Size > 0
  /\ data' = Destroy({IndexPrev(end)})
  /\ end' = IndexPrev(end)
  /\ UNCHANGED <<data_capacity, begin>>

PopBackN(count) ==
  LET n == Smaller(count, Size)
      newEnd == IndexIncrementBy(end, -n)
  IN  /\ data' = Destroy(Destroyed(newEnd, n))
      /\ end' = newEnd
      /\ UNCHANGED <<data_capacity, begin>>

\* ResizeInternal, expanding.
ResizeUp(count, v) ==
  /\ count > Size
  /\ IF Fits(count - Size)
       THEN /\ data' = [s \in DOMAIN data |->
                          IF s \in Destroyed(end, count - Size) THEN v
                                                                ELSE data[s]]
            /\ end' = IndexIncrementBy(end, count - Size)
            /\ UNCHANGED <<data_capacity, begin>>
       ELSE Relocate(GrownCapacity(count - Size),
                     [i \in Size .. count - 1 |-> v], 0, count)

\* ResizeInternal, shrinking: it takes a remainder by data_capacity, so a
\* caller must not resize a deque that never held an element to 0.
ResizeDown(count) ==
  /\ count <= Size
  /\ data_capacity > 0
  /\ LET newEnd == (begin + count) % data_capacity
     IN  /\ data' = Destroy(Destroyed(newEnd, Size - count))
         /\ end' = newEnd
  /\ UNCHANGED <<data_capacity, begin>>

Reserve(capacity) ==
  /\ capacity > Capacity
  /\ Relocate(capacity, <<>>, 0, Size)

Clear ==
  /\ data' = Destroy(Destroyed(begin, Size))
  /\ begin' = 0
  /\ end' = 0
  /\ UNCHANGED data_capacity

Next ==
  \/ \E v \in Values :
       \/ EmplaceBack(v)
       \/ EmplaceFront(v)
       \/ \E count \in 0 .. MaxSize : ResizeUp(count, v)
  \/ PopFront
  \/ PopBack
  \/ \E n \in 0 .. MaxSize :
       PopFrontN(n) \/ PopBackN(n) \/ ResizeDown(n) \/ Reserve(n)
  \/ Clear

Spec == Init /\ [][Next]_vars

----------------------------------------------------------------------------
(* Properties.                                                             *)

\* begin_ and end_ are slots of the block, which holds elements or garbage.
TypeOK ==
  /\ data_capacity \in Nat
  /\ DOMAIN data = 0 .. data_capacity - 1 \/ (data_capacity = 0 /\ data = <<>>)
  /\ \A s \in DOMAIN data : data[s] \in Values \cup {Garbage}
  /\ begin \in 0 .. Larger(data_capacity - 1, 0)
  /\ end \in 0 .. Larger(data_capacity - 1, 0)

\* The live elements in order, as operator[] reads them.
Contents == [i \in 1 .. Size |-> data[SlotAt(i - 1)]]

Queue == INSTANCE DoubleEndedQueue WITH queue <- Contents

\* The elements are those of a sequence open at both ends, wherever the ring
\* stands and whether or not the block is relocated.
ImplementsQueue == Queue!Spec

\* Each operation has the very effect of its namesake on a sequence: growing
\* inside emplace_back never drops or reorders an element, and a count larger
\* than size() pops all of them.
OperationsKeepTheirPromise ==
  [][ /\ \A v \in Values :
           /\ EmplaceBack(v) => Queue!PushBack(v)
           /\ EmplaceFront(v) => Queue!PushFront(v)
           /\ \A count \in 0 .. MaxSize :
                ResizeUp(count, v) => Queue!Resize(count, v)
      /\ \A n \in 0 .. MaxSize :
           /\ PopFrontN(n) => Queue!PopFront(Smaller(n, Size))
           /\ PopBackN(n) => Queue!PopBack(Smaller(n, Size))
           /\ ResizeDown(n) => Queue!PopBack(Size - n)
           /\ Reserve(n) => UNCHANGED Contents
    ]_vars

\* The position an iterator at slot i stands at.
ExternalPosition(i) ==
  IF i >= begin THEN i - begin ELSE i + data_capacity - begin

\* front(), back() and the iterators agree with operator[]: a difference of
\* iterators is a difference of positions, also across the wrap.
IteratorsAgree ==
  /\ Size > 0 => Front = Contents[1] /\ Back = Contents[Size]
  /\ \A i \in 0 .. Size :
       data_capacity > 0 =>
         /\ ExternalPosition(IndexIncrementBy(begin, i)) = i
         /\ i < Size => IndexIncrementBy(begin, i) = SlotAt(i)

\* An index k below the front wraps around size_type.  It is in the block
\* exactly if k <= begin_, and then it is the slot of the element
\* data_capacity - k, if there are that many: what QuicUnackedPacketMap meets
\* when it looks up a packet it has already dropped.
StaleIndexAliases ==
  \A k \in 1 .. data_capacity :
    LET slot == SlotAt(WordSize - k)
    IN  /\ (slot < data_capacity) <=> (k <= begin)
        /\ \A i \in 0 .. Size - 1 :
             k <= begin => ((slot = SlotAt(i)) <=> (i = data_capacity - k))

\* Positions and slots are told apart, below the front as well.
PositionsAreExact == IteratorsAgree /\ StaleIndexAliases
============================================================================
