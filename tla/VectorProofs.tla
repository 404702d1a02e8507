---------------------------- MODULE VectorProofs ----------------------------
(***************************************************************************)
(* What is proved of the vector (Vector.tla): no call touches a cell       *)
(* outside its block, and the vector implements the list of its contract   *)
(* (VectorContract.tla) but for the removal of a range that reaches the    *)
(* end.                                                                    *)
(***************************************************************************)
EXTENDS Vector, SequenceTheorems, TLAPS

Cell == Elem \cup {Junk}

\* Every cell in use has been written: TypeOK needs it, for what pop, shift and
\* cmp_all hand back, and the contract, for the list to be one of elements.
InUse == \A a \in Block(0, num_elems) : mem[a] \in Elem

VecInv == TypeOK /\ NoOverrun /\ InUse

-----------------------------------------------------------------------------
(* Memory. *)

LEMMA Bounds == MaxLen \in Nat \ {0} /\ Elem \subseteq Nat /\ InitSize \subseteq Nat
  BY MaxLenAssumption, ElemAssumption, InitSizeAssumption

\* The cells that a list can use are addresses, and so are those one past it.
LEMMA UsedIsAddress ==
  ASSUME NEW n \in 0..MaxLen
  PROVE  Block(0, n) \subseteq Address /\ n \in Address
  BY Bounds DEF Block, Address, VECTOR_INIT_SIZE

LEMMA BlockShrinks ==
  ASSUME NEW n \in Nat, NEW k \in Nat, k <= n
  PROVE  Block(0, k) \subseteq Block(0, n)
  BY DEF Block

\* realloc keeps the cells that the block still has.
LEMMA ReallocKeeps ==
  ASSUME NEW m \in [Address -> Cell], NEW n \in Nat
  PROVE  /\ realloc(m, n) \in [Address -> Cell]
         /\ \A a \in Address : a < n => realloc(m, n)[a] = m[a]
  BY DEF realloc, Cell

\* memmove of cells that exist moves them and keeps the others.
LEMMA MemmoveMoves ==
  ASSUME NEW m \in [Address -> Cell], NEW to \in Nat, NEW from \in Nat, NEW n \in Nat,
         \A k \in Block(from, n) : k \in Address
  PROVE  /\ memmove(m, to, from, n) \in [Address -> Cell]
         /\ \A a \in Address :
              memmove(m, to, from, n)[a] = IF a \in Block(to, n) THEN m[from + (a - to)] ELSE m[a]
  <1>1. ASSUME NEW a \in Address, a \in Block(to, n)
        PROVE  from + (a - to) \in Address
    <2>1. a \in Int /\ to <= a /\ a <= to + n - 1
      BY <1>1 DEF Block
    <2>2. from + (a - to) \in Block(from, n)
      BY <2>1 DEF Block
    <2> QED
      BY <2>2
  <1> QED
    BY <1>1 DEF memmove

\* A block that is grown for one more element has a cell for it.
LEMMA RoomForOne ==
  ASSUME num_elems \in 0..MaxLen, num_alloc_elems \in Nat \ {0}, num_elems <= num_alloc_elems,
         NEW size \in {0, num_elems + 1}
  PROVE  WithRoom(size) \in Nat \ {0} /\ num_elems + 1 <= WithRoom(size) /\ num_alloc_elems <= WithRoom(size)
  BY Bounds DEF WithRoom, HasSpace, vector_grow

-----------------------------------------------------------------------------
(* The calls, one by one. *)

LEMMA InsertKeeps ==
  ASSUME VecInv, NEW e \in Elem, NEW i \in Index, vector_insert(e, i)
  PROVE  VecInv'
  <1> USE Bounds DEF VecInv, TypeOK, NoOverrun, InUse, vector_insert, Untouched, Returns, InBounds, Index
  <1>1. CASE InBounds(i)
    <2>1. i \in Address /\ Block(0, num_elems) \subseteq Address
      BY <1>1, UsedIsAddress DEF Block
    <2> QED
      BY <1>1, <2>1 DEF Block
  <1>2. CASE ~InBounds(i)
    BY <1>2
  <1> QED
    BY <1>1, <1>2

LEMMA PushWrites ==
  ASSUME VecInv, NEW e \in Elem, vector_push(e)
  PROVE  /\ VecInv' /\ num_elems' = num_elems + 1 /\ mem'[num_elems] = e
         /\ \A a \in Block(0, num_elems) : mem'[a] = mem[a]
  <1> USE Bounds
  <1>1. mem \in [Address -> Cell] /\ num_elems \in 0..MaxLen - 1 /\ num_alloc_elems \in Nat \ {0}
    BY DEF VecInv, TypeOK, vector_push, Cell
  <1>2. /\ num_alloc_elems' \in Nat \ {0} /\ num_elems + 1 <= num_alloc_elems'
        /\ num_alloc_elems <= num_alloc_elems'
    BY <1>1, RoomForOne DEF VecInv, NoOverrun, vector_push
  <1> DEFINE r == realloc(mem, num_alloc_elems')
  <1>3. r \in [Address -> Cell] /\ \A a \in Address : a < num_alloc_elems' => r[a] = mem[a]
    BY <1>1, <1>2, ReallocKeeps
  <1>4. Block(0, num_elems) \subseteq Address /\ num_elems \in Address
    BY <1>1, UsedIsAddress
  <1>5. mem' = [r EXCEPT ![num_elems] = e]
    BY DEF vector_push
  <1>6. mem' \in [Address -> Cell] /\ mem'[num_elems] = e
        /\ \A a \in Block(0, num_elems) : mem'[a] = mem[a]
    <2> HIDE DEF r
    <2> QED BY <1>1, <1>2, <1>3, <1>4, <1>5 DEF Block, Cell
  <1>7. num_elems' = num_elems + 1 /\ touched' = {num_elems} /\ result' = Nothing
    BY DEF vector_push, Returns
  <1> QED
    BY <1>1, <1>2, <1>6, <1>7 DEF VecInv, TypeOK, NoOverrun, InUse, Cell, Block

\* What insert_at and unshift have in common: e goes in at i, and what follows i moves
\* up by one, in a block that has grown if it had to.
LEMMA MakesRoom ==
  ASSUME VecInv, num_elems < MaxLen, NEW e \in Elem, NEW i \in 0..num_elems,
         num_elems' = num_elems + 1, result' = Nothing,
         NEW size \in {0, num_elems + 1}, num_alloc_elems' = WithRoom(size),
         mem' = [memmove(realloc(mem, num_alloc_elems'), i + 1, i, num_elems - i) EXCEPT ![i] = e],
         touched' = Block(i, num_elems + 1 - i)
  PROVE  /\ VecInv'
         /\ \A a \in Block(0, num_elems + 1) :
              mem'[a] = IF a = i THEN e ELSE IF a > i THEN mem[a - 1] ELSE mem[a]
  <1> USE Bounds
  <1>1. /\ mem \in [Address -> Cell] /\ num_elems \in 0..MaxLen - 1
        /\ num_alloc_elems \in Nat \ {0}
    BY DEF VecInv, TypeOK, Cell
  <1>2. num_alloc_elems' \in Nat \ {0} /\ num_elems + 1 <= num_alloc_elems'
    BY <1>1, RoomForOne DEF VecInv, NoOverrun
  <1> DEFINE r == realloc(mem, num_alloc_elems')
  <1>3. r \in [Address -> Cell] /\ \A a \in Address : a < num_alloc_elems' => r[a] = mem[a]
    BY <1>1, <1>2, ReallocKeeps
  <1>4. Block(0, num_elems + 1) \subseteq Address
    BY <1>1, UsedIsAddress
  <1> HIDE DEF r
  <1> DEFINE m == memmove(r, i + 1, i, num_elems - i)
  <1>5. /\ m \in [Address -> Cell]
        /\ \A a \in Address : m[a] = IF a \in Block(i + 1, num_elems - i) THEN r[a - 1] ELSE r[a]
    <2>1. \A k \in Block(i, num_elems - i) : k \in Address
      BY <1>1, <1>4 DEF Block
    <2>2. \A a \in Address : i + (a - (i + 1)) = a - 1
      BY <1>1 DEF Address
    <2> QED
      BY <1>1, <1>3, <2>1, <2>2, MemmoveMoves
  <1>6. mem' = [m EXCEPT ![i] = e]
    BY DEF r
  <1> HIDE DEF m
  <1>7. mem' \in [Address -> Cell]
    BY <1>5, <1>6 DEF Cell
  <1>8. ASSUME NEW a \in Block(0, num_elems + 1)
        PROVE  mem'[a] = IF a = i THEN e ELSE IF a > i THEN mem[a - 1] ELSE mem[a]
    <2>1. a \in Address /\ a \in Nat /\ a <= num_elems
      BY <1>1, <1>4 DEF Block
    <2>2. a > i => a - 1 \in Address
      BY <1>1, <1>4, <2>1 DEF Block
    <2>3. CASE a = i
      BY <1>5, <1>6, <2>1, <2>3
    <2>4. CASE a > i
      <3>1. a \in Block(i + 1, num_elems - i) /\ a - 1 < num_alloc_elems' /\ a # i
        BY <1>1, <1>2, <2>1, <2>4 DEF Block
      <3> QED
        BY <1>3, <1>5, <1>6, <2>1, <2>2, <2>4, <3>1
    <2>5. CASE a < i
      <3>1. a \notin Block(i + 1, num_elems - i) /\ a < num_alloc_elems' /\ ~(a > i) /\ a # i
        BY <1>1, <1>2, <2>1, <2>5 DEF Block
      <3> QED
        BY <1>3, <1>5, <1>6, <2>1, <3>1
    <2> QED
      BY <1>1, <2>1, <2>3, <2>4, <2>5
  <1>9. ASSUME NEW a \in Block(0, num_elems + 1)
        PROVE  mem'[a] \in Elem
    <2>1. \A k \in Block(0, num_elems) : mem[k] \in Elem
      BY DEF VecInv, InUse
    <2>2. /\ a > i => a - 1 \in Block(0, num_elems)
          /\ a < i => a \in Block(0, num_elems)
          /\ a \in Int /\ i \in Int
      BY <1>1 DEF Block
    <2>3. CASE a = i
      BY <1>8, <2>3
    <2>4. CASE a > i
      BY <1>8, <2>1, <2>2, <2>4
    <2>5. CASE a < i
      BY <1>8, <2>1, <2>2, <2>5
    <2> QED
      BY <2>2, <2>3, <2>4, <2>5
  <1>10. VecInv'
    BY <1>1, <1>2, <1>7, <1>9 DEF VecInv, TypeOK, NoOverrun, InUse, Cell, Block
  <1> QED
    BY <1>8, <1>10

LEMMA InsertAtMakesRoom ==
  ASSUME VecInv, NEW e \in Elem, NEW i \in Index, vector_insert_at(e, i)
  PROVE  /\ VecInv'
         /\ \A a \in Block(0, num_elems + 1) :
              mem'[a] = IF a = i THEN e ELSE IF a > i THEN mem[a - 1] ELSE mem[a]
  <1>1. i \in 0..num_elems /\ num_elems < MaxLen
    BY Bounds DEF vector_insert_at, Index, VecInv, TypeOK
  <1> QED
    BY <1>1, MakesRoom DEF vector_insert_at, Returns

LEMMA UnshiftMakesRoom ==
  ASSUME VecInv, NEW e \in Elem, vector_unshift(e)
  PROVE  /\ VecInv'
         /\ \A a \in Block(0, num_elems + 1) : mem'[a] = IF a = 0 THEN e ELSE mem[a - 1]
  <1>1. 0 \in 0..num_elems /\ num_elems < MaxLen /\ num_elems \in Nat
    BY Bounds DEF VecInv, TypeOK, vector_unshift
  <1>2. num_elems - 0 = num_elems /\ num_elems + 1 - 0 = num_elems + 1 /\ 0 + 1 = 1
    BY <1>1
  <1>3. /\ VecInv'
        /\ \A a \in Block(0, num_elems + 1) :
              mem'[a] = IF a = 0 THEN e ELSE IF a > 0 THEN mem[a - 1] ELSE mem[a]
    <2>1. /\ mem' = [memmove(realloc(mem, num_alloc_elems'), 0 + 1, 0, num_elems - 0) EXCEPT ![0] = e]
          /\ touched' = Block(0, num_elems + 1 - 0)
          /\ num_alloc_elems' = WithRoom(num_elems + 1) /\ num_elems' = num_elems + 1
          /\ result' = Nothing
      BY <1>2 DEF vector_unshift, Returns
    <2> QED
      BY <1>1, <2>1, MakesRoom
  <1> QED
    BY <1>1, <1>3 DEF Block

\* What shift and both removals have in common: i..j-1 go, and what follows moves down.
LEMMA ClosesGap ==
  ASSUME VecInv, NEW i \in Nat, NEW j \in i..num_elems, i < num_elems,
         mem' = memmove(mem, i, j, num_elems - j), num_elems' = num_elems - (j - i),
         num_alloc_elems' = num_alloc_elems, touched' \subseteq Block(0, num_elems),
         result' \in Elem \cup {Nothing}
  PROVE  /\ VecInv'
         /\ \A a \in Block(0, num_elems') : mem'[a] = IF a < i THEN mem[a] ELSE mem[a + (j - i)]
  <1> USE Bounds
  <1>1. /\ mem \in [Address -> Cell] /\ num_elems \in 0..MaxLen
        /\ num_alloc_elems \in Nat \ {0} /\ num_elems <= num_alloc_elems
    BY DEF VecInv, TypeOK, NoOverrun, Cell
  <1>2. num_elems' \in 0..num_elems
    BY <1>1
  <1>3. Block(0, num_elems) \subseteq Address
    BY <1>1, UsedIsAddress
  <1>4. /\ mem' \in [Address -> Cell]
        /\ \A a \in Address :
             mem'[a] = IF a \in Block(i, num_elems - j) THEN mem[j + (a - i)] ELSE mem[a]
    <2>1. \A k \in Block(j, num_elems - j) : k \in Address
      BY <1>1, <1>3 DEF Block
    <2>2. num_elems - j \in Nat /\ j \in Nat
      BY <1>1
    <2> QED
      BY <1>1, <1>2, <2>1, <2>2, MemmoveMoves
  <1>5. ASSUME NEW a \in Block(0, num_elems')
        PROVE  mem'[a] = IF a < i THEN mem[a] ELSE mem[a + (j - i)]
    <2>1. a \in Nat /\ a < num_elems - (j - i) /\ a \in Address
      BY <1>1, <1>2, <1>3 DEF Block
    <2>2. j + (a - i) = a + (j - i)
      BY <2>1
    <2>3. a \in Block(i, num_elems - j) <=> ~(a < i)
      BY <1>1, <2>1 DEF Block
    <2> QED
      BY <1>4, <2>1, <2>2, <2>3
  <1>6. \A a \in Block(0, num_elems') : mem'[a] \in Elem
    BY <1>1, <1>2, <1>5 DEF VecInv, InUse, Block
  <1>7. VecInv'
    BY <1>1, <1>2, <1>4, <1>6 DEF VecInv, TypeOK, NoOverrun, InUse, Cell, Block
  <1> QED
    BY <1>5, <1>7

LEMMA ShiftClosesGap ==
  ASSUME VecInv, vector_shift
  PROVE  /\ VecInv'
         /\ \A a \in Block(0, num_elems') : mem'[a] = mem[a + 1]
  <1>1. /\ num_elems \in Nat /\ num_elems > 0 /\ num_elems' = num_elems - 1
        /\ mem' = memmove(mem, 0, 1, num_elems - 1) /\ num_alloc_elems' = num_alloc_elems
        /\ touched' = Block(0, num_elems) /\ result' = mem[0]
    BY Bounds DEF VecInv, TypeOK, vector_shift, Returns
  <1>2. mem[0] \in Elem
    BY <1>1 DEF VecInv, InUse, Block
  <1>3. /\ VecInv'
        /\ \A a \in Block(0, num_elems') : mem'[a] = IF a < 0 THEN mem[a] ELSE mem[a + (1 - 0)]
    <2>1. 1 \in 0..num_elems /\ 0 < num_elems /\ num_elems - (1 - 0) = num_elems - 1
      BY <1>1
    <2> QED
      BY <1>1, <1>2, <2>1, ClosesGap
  <1>4. \A a \in Block(0, num_elems') : a \in Nat
    BY <1>1 DEF Block
  <1> QED
    BY <1>3, <1>4

\* Cuts(i, j) is what is left of the list when i..j-1 are gone.
Cuts(i, j) ==
  /\ num_elems' = num_elems - (j - i) /\ result' = Nothing
  /\ \A a \in Block(0, num_elems') : mem'[a] = IF a < i THEN mem[a] ELSE mem[a + (j - i)]

Stays == mem' = mem /\ num_elems' = num_elems /\ result' = Nothing

LEMMA CloseGapCuts ==
  ASSUME VecInv, NEW i \in Nat, NEW j \in i..num_elems, i < num_elems, CloseGap(i, j),
         result' = Nothing
  PROVE  VecInv' /\ Cuts(i, j)
  <1>1. Block(i, num_elems - j) \cup Block(j, num_elems - j) \subseteq Block(0, num_elems)
    BY Bounds DEF Block, VecInv, TypeOK
  <1> QED
    BY <1>1, ClosesGap DEF CloseGap, Cuts

LEMMA UntouchedKeeps ==
  ASSUME VecInv, Untouched, result' \in Elem \cup {Nothing}
  PROVE  VecInv'
  BY DEF VecInv, TypeOK, NoOverrun, InUse, Untouched, Block

LEMMA RemoveCuts ==
  ASSUME VecInv, NEW i \in Index, vector_remove(i)
  PROVE  VecInv' /\ IF i < num_elems THEN Cuts(i, i + 1) ELSE Stays
  <1>1. i \in Nat /\ num_elems \in Nat /\ result' = Nothing
    BY Bounds DEF Index, VecInv, TypeOK, vector_remove, Returns
  <1>2. CASE i < num_elems
    BY <1>1, <1>2, CloseGapCuts DEF vector_remove, InBounds
  <1>3. CASE ~(i < num_elems)
    BY <1>1, <1>3, UntouchedKeeps DEF vector_remove, InBounds, Stays, Untouched
  <1> QED
    BY <1>2, <1>3

LEMMA RemoveSomeCuts ==
  ASSUME VecInv, NEW i \in Index, NEW j \in Index, vector_remove_some(i, j)
  PROVE  VecInv' /\ IF j < num_elems /\ i # j THEN Cuts(i, j) ELSE Stays
  <1>1. i \in Nat /\ j \in Nat /\ i <= j /\ num_elems \in Nat /\ result' = Nothing
    BY Bounds DEF Index, VecInv, TypeOK, vector_remove_some, Returns
  <1>2. CASE j < num_elems /\ i # j
    BY <1>1, <1>2, CloseGapCuts DEF vector_remove_some, InBounds
  <1>3. CASE ~(j < num_elems /\ i # j)
    BY <1>1, <1>3, UntouchedKeeps DEF vector_remove_some, InBounds, Stays, Untouched
  <1> QED
    BY <1>2, <1>3

LEMMA TransposeKeeps ==
  ASSUME VecInv, NEW i \in Index, NEW j \in Index, vector_transpose(i, j)
  PROVE  /\ VecInv'
         /\ \A a \in Block(0, num_elems) :
              mem'[a] = IF a = j THEN mem[i] ELSE IF a = i THEN mem[j] ELSE mem[a]
  <1>1. /\ mem \in [Address -> Cell] /\ num_elems \in 0..MaxLen /\ i \in Nat /\ j \in Nat
        /\ i < num_elems /\ j < num_elems
    BY Bounds DEF Index, VecInv, TypeOK, vector_transpose, InBounds, Cell
  <1>2. Block(0, num_elems) \subseteq Address
    BY <1>1, UsedIsAddress
  <1>3. i \in Block(0, num_elems) /\ j \in Block(0, num_elems)
    BY <1>1 DEF Block
  <1>4. mem' = [mem EXCEPT ![i] = mem[j], ![j] = mem[i]]
    BY DEF vector_transpose
  <1>5. mem' \in [Address -> Cell]
    BY <1>1, <1>2, <1>3, <1>4
  <1>6. \A a \in Address : mem'[a] = IF a = j THEN mem[i] ELSE IF a = i THEN mem[j] ELSE mem[a]
    BY <1>1, <1>2, <1>3, <1>4
  <1>7. \A a \in Block(0, num_elems) : mem'[a] \in Elem
    BY <1>2, <1>3, <1>6 DEF VecInv, InUse
  <1>8. /\ num_elems' = num_elems /\ num_alloc_elems' = num_alloc_elems
        /\ touched' = {i, j} /\ result' = Nothing
    BY DEF vector_transpose, Returns
  <1>9. VecInv'
    BY <1>1, <1>5, <1>7, <1>8 DEF VecInv, TypeOK, NoOverrun, InUse, Cell
  <1> QED
    BY <1>2, <1>6, <1>9

\* What qsort and copy have in common: the list in use is replaced by another.
LEMMA FilledHolds ==
  ASSUME NEW m \in [Address -> Cell], NEW n \in 0..MaxLen, NEW l \in [1..n -> Elem]
  PROVE  /\ Filled(m, l) \in [Address -> Cell]
         /\ \A a \in Block(0, n) : Filled(m, l)[a] = l[a + 1]
  <1>1. Len(l) = n /\ n \in Nat
    BY Bounds
  <1>2. Block(0, n) \subseteq Address
    BY UsedIsAddress
  <1>3. ASSUME NEW a \in Address
        PROVE  a \in Nat /\ (a < n => l[a + 1] \in Elem)
    <2>1. a \in Nat
      BY DEF Address
    <2> QED
      BY <1>1, <2>1
  <1> QED
    BY <1>1, <1>2, <1>3 DEF Filled, Block, Cell

\* An order of the elements in use is a list of elements.
Orders(p) == [i \in 1..num_elems |-> Contents[p[i]]]

LEMMA QsortOrders ==
  ASSUME VecInv, vector_qsort
  PROVE  /\ VecInv' /\ num_elems' = num_elems /\ result' = Nothing
         /\ \E p \in Bijection(1..num_elems, 1..num_elems) :
              /\ \A i, j \in 1..num_elems : i < j => Orders(p)[i] <= Orders(p)[j]
              /\ \A a \in Block(0, num_elems) : mem'[a] = Orders(p)[a + 1]
  <1>1. PICK p \in Bijection(1..num_elems, 1..num_elems) :
          /\ \A i, j \in 1..num_elems : i < j => Orders(p)[i] <= Orders(p)[j]
          /\ mem' = Filled(mem, Orders(p))
    BY DEF vector_qsort, Orders
  <1>2. /\ mem \in [Address -> Cell] /\ num_elems \in 0..MaxLen
        /\ num_alloc_elems \in Nat \ {0} /\ num_elems <= num_alloc_elems
    BY Bounds DEF VecInv, TypeOK, Cell, NoOverrun
  <1>3. p \in [1..num_elems -> 1..num_elems]
    BY <1>1 DEF Bijection, Injection
  <1>4. Orders(p) \in [1..num_elems -> Elem]
    BY <1>2, <1>3, Bounds DEF Orders, Contents, VecInv, InUse, Block
  <1>5. /\ mem' \in [Address -> Cell]
        /\ \A a \in Block(0, num_elems) : mem'[a] = Orders(p)[a + 1]
    BY <1>1, <1>2, <1>4, FilledHolds
  <1>6. /\ num_elems' = num_elems /\ num_alloc_elems' = num_alloc_elems
        /\ touched' = Block(0, num_elems) /\ result' = Nothing
    BY DEF vector_qsort, Returns
  <1>7. \A a \in Block(0, num_elems) : mem'[a] \in Elem
    <2>1. \A a \in Block(0, num_elems) : a + 1 \in 1..num_elems
      BY <1>2, Bounds DEF Block
    <2> QED
      BY <1>4, <1>5, <2>1
  <1>8. VecInv'
    BY <1>2, <1>5, <1>6, <1>7, Bounds DEF VecInv, TypeOK, NoOverrun, InUse, Cell, Block
  <1> QED
    BY <1>1, <1>5, <1>6, <1>8

LEMMA ListsAreShort ==
  ASSUME NEW l \in Lists
  PROVE  l \in Seq(Elem) /\ Len(l) \in 0..MaxLen
  <1>1. PICK n \in 0..MaxLen, e \in Elem : l = [k \in 1..n |-> e]
    BY DEF Lists
  <1>2. n \in Nat
    BY Bounds
  <1> QED
    BY <1>1, <1>2

LEMMA CopyFills ==
  ASSUME VecInv, NEW l \in Lists, NEW alloc \in 1..MaxLen, vector_copy(l, alloc)
  PROVE  /\ VecInv' /\ num_elems' = Len(l) /\ result' = Nothing
         /\ \A a \in Block(0, num_elems') : mem'[a] = l[a + 1]
  <1> DEFINE n == Len(l)
  <1>1. l \in Seq(Elem) /\ n \in 0..MaxLen
    BY ListsAreShort
  <1>2. /\ num_elems' = n /\ num_alloc_elems' = alloc /\ n <= alloc
        /\ mem' = Filled(realloc(mem, alloc), l)
        /\ touched' = Block(0, n) /\ result' = Nothing
    BY DEF vector_copy, Returns
  <1>3. l \in [1..n -> Elem]
    BY <1>1
  <1>4. alloc \in Nat \ {0} /\ n \in Nat
    BY <1>1, Bounds
  <1> HIDE DEF n
  <1>5. realloc(mem, alloc) \in [Address -> Cell]
    BY <1>4, ReallocKeeps DEF VecInv, TypeOK, Cell
  <1>6. mem' \in [Address -> Cell] /\ \A a \in Block(0, n) : mem'[a] = l[a + 1]
    BY <1>1, <1>2, <1>3, <1>5, FilledHolds
  <1>7. \A a \in Block(0, n) : mem'[a] \in Elem
    BY <1>3, <1>4, <1>6 DEF Block
  <1>8. VecInv'
    BY <1>1, <1>2, <1>4, <1>6, <1>7 DEF VecInv, TypeOK, NoOverrun, InUse, Cell, Block
  <1> QED
    BY <1>2, <1>6, <1>8 DEF n

LEMMA RemoveAllKeeps ==
  ASSUME VecInv, vector_remove_all
  PROVE  VecInv' /\ num_elems' = 0 /\ result' = Nothing
  <1>1. mem' \in [Address -> Cell]
    BY ReallocKeeps DEF VecInv, TypeOK, Cell, vector_remove_all, VECTOR_INIT_SIZE
  <1>2. num_elems' = 0 /\ num_alloc_elems' = 4 /\ touched' = {} /\ result' = Nothing
    BY DEF vector_remove_all, VECTOR_INIT_SIZE, Returns
  <1> QED
    BY <1>1, <1>2, Bounds DEF VecInv, TypeOK, NoOverrun, InUse, Cell, Block

\* A call that only reads hands back an element that is in use, or none.
LEMMA ReadsKeep ==
  ASSUME VecInv, mem' = mem, num_alloc_elems' = num_alloc_elems,
         num_elems' \in 0..num_elems, touched' \subseteq Block(0, num_elems),
         result' = Nothing \/ \E a \in Block(0, num_elems) : result' = mem[a]
  PROVE  VecInv'
  <1>1. num_elems \in 0..MaxLen /\ num_alloc_elems \in Nat \ {0} /\ num_elems <= num_alloc_elems
    BY DEF VecInv, TypeOK, NoOverrun
  <1>2. TypeOK'
    <2>1. result' \in Elem \cup {Nothing}
      BY DEF VecInv, InUse
    <2>2. touched' \subseteq Nat /\ num_elems' \in 0..MaxLen
      BY <1>1, Bounds DEF Block
    <2> QED
      BY <1>1, <2>1, <2>2 DEF VecInv, TypeOK
  <1>3. NoOverrun'
    BY <1>1, Bounds DEF NoOverrun, Block
  <1>4. InUse'
    <2>1. Block(0, num_elems') \subseteq Block(0, num_elems)
      <3>1. num_elems \in Nat /\ num_elems' \in Nat /\ num_elems' <= num_elems
        BY <1>1, Bounds
      <3> QED
        BY <3>1, BlockShrinks
    <2>2. \A a \in Block(0, num_elems') : mem'[a] \in Elem
      BY <2>1 DEF VecInv, InUse
    <2> QED
      BY <2>2 DEF InUse, Block
  <1> QED
    BY <1>2, <1>3, <1>4 DEF VecInv

LEMMA PopKeeps ==
  ASSUME VecInv, vector_pop
  PROVE  VecInv'
  <1>1. num_elems \in Nat /\ num_elems > 0
    BY Bounds DEF VecInv, TypeOK, vector_pop
  <1>2. num_elems - 1 \in Block(0, num_elems) /\ num_elems - 1 \in 0..num_elems
    BY <1>1 DEF Block
  <1> QED
    BY <1>2, ReadsKeep DEF vector_pop, Returns

LEMMA GetKeeps ==
  ASSUME VecInv, NEW i \in Index, vector_get(i)
  PROVE  VecInv'
  <1>1. num_elems \in 0..num_elems /\ i \in Nat
    BY Bounds DEF VecInv, TypeOK, Index
  <1>2. InBounds(i) => i \in Block(0, num_elems)
    BY <1>1, Bounds DEF InBounds, Block, VecInv, TypeOK
  <1> QED
    BY <1>1, <1>2, ReadsKeep DEF vector_get, Returns

LEMMA CmpAllKeeps ==
  ASSUME VecInv, vector_cmp_all
  PROVE  VecInv'
  <1>1. num_elems \in 0..num_elems
    BY Bounds DEF VecInv, TypeOK
  <1> QED
    BY <1>1, ReadsKeep DEF vector_cmp_all, Returns

LEMMA VecStep ==
  ASSUME VecInv, [Next]_vars
  PROVE  VecInv'
  <1>1. CASE UNCHANGED vars
    BY <1>1 DEF vars, VecInv, TypeOK, NoOverrun, InUse, Block
  <1>2. CASE \E e \in Elem : vector_push(e) \/ vector_unshift(e)
    BY <1>2, PushWrites, UnshiftMakesRoom
  <1>3. CASE \E e \in Elem, i \in Index : vector_insert(e, i) \/ vector_insert_at(e, i)
    BY <1>3, InsertKeeps, InsertAtMakesRoom
  <1>4. CASE vector_pop \/ vector_shift \/ vector_cmp_all
    BY <1>4, PopKeeps, ShiftClosesGap, CmpAllKeeps
  <1>5. CASE \E i \in Index : vector_get(i) \/ vector_remove(i)
    BY <1>5, GetKeeps, RemoveCuts
  <1>6. CASE \E i \in Index, j \in Index : vector_transpose(i, j) \/ vector_remove_some(i, j)
    BY <1>6, TransposeKeeps, RemoveSomeCuts
  <1>7. CASE vector_remove_all \/ vector_qsort
    BY <1>7, RemoveAllKeeps, QsortOrders
  <1>8. CASE vector_dispose
    BY <1>8, UntouchedKeeps DEF vector_dispose, Returns
  <1>9. CASE \E l \in Lists, alloc \in 1..MaxLen : vector_copy(l, alloc)
    BY <1>9, CopyFills
  <1> QED
    BY <1>1, <1>2, <1>3, <1>4, <1>5, <1>6, <1>7, <1>8, <1>9 DEF Next, Disposed

LEMMA VecInit ==
  ASSUME Init
  PROVE  VecInv
  BY Bounds DEF Init, InitAlloc, VECTOR_INIT_SIZE, VecInv, TypeOK, NoOverrun, InUse, Block

\* The invariant of the vector: cells within the block, and every cell in use written.
THEOREM VecInvariant == Spec => []VecInv
  BY VecInit, VecStep, PTL DEF Spec

\* Every call on the vector keeps its fields in their ranges and hands back an element
\* or nothing (vector.c).
THEOREM VectorTypeCorrect == Spec => []TypeOK
  <1>1. VecInv => TypeOK
    BY DEF VecInv
  <1> QED
    BY <1>1, VecInvariant, PTL

\* No call that is legal reads or writes past the block, though the block shrinks and
\* grows by three different rules (vector.c:26-35, 66, 188-190).
THEOREM NoOverrunAlways == Spec => []NoOverrun
  <1>1. VecInv => NoOverrun
    BY DEF VecInv
  <1> QED
    BY <1>1, VecInvariant, PTL

-----------------------------------------------------------------------------
(* Contents as a sequence. *)

LEMMA ContentsAre ==
  ASSUME VecInv
  PROVE  /\ Contents \in Seq(Elem) /\ Len(Contents) = num_elems
         /\ \A k \in 1..num_elems : Contents[k] = mem[k - 1]
         /\ \A k \in 1..num_elems : mem[k - 1] \in Elem
         /\ num_elems \in 0..MaxLen /\ num_elems \in Nat
  <1>1. num_elems \in 0..MaxLen /\ num_elems \in Nat
    BY Bounds DEF VecInv, TypeOK
  <1>2. \A k \in 1..num_elems : mem[k - 1] \in Elem
    BY <1>1 DEF VecInv, InUse, Block
  <1> QED
    BY <1>1, <1>2 DEF Contents

\* The list that a call leaves, when it is l cell by cell.
LEMMA BecomesList ==
  ASSUME VecInv', NEW l \in Seq(Elem), Len(l) = num_elems',
         \A k \in 1..num_elems' : l[k] = mem'[k - 1]
  PROVE  Contents' = l
  <1>1. num_elems' \in Nat
    BY Bounds DEF VecInv, TypeOK
  <1>2. Contents' = [k \in 1..num_elems' |-> mem'[k - 1]]
    BY DEF Contents
  <1> DEFINE c == [k \in 1..num_elems' |-> mem'[k - 1]]
  <1>3. c \in Seq(Elem) /\ Len(c) = num_elems'
    BY <1>1 DEF VecInv, InUse, Block
  <1> QED
    BY <1>2, <1>3, SeqEqual

-----------------------------------------------------------------------------
(* Each call does what the contract says of it. *)

LEMMA DoesAsPromised ==
  ASSUME VecInv, VecInv', NEW op, NEW x, NEW y, NEW r, Calls(op, x, y), result' = r,
         NEW l \in Seq(Elem), Len(l) = num_elems', \A k \in 1..num_elems' : l[k] = mem'[k - 1]
  PROVE  Contract!Does(op, x, y, l, r)
  <1>1. Contents' = l
    BY BecomesList
  <1>2. num_elems' \in 0..MaxLen
    BY DEF VecInv, TypeOK
  <1> QED
    BY <1>1, <1>2, Bounds DEF Contract!Does, Contract!Open, Calls

\* A call that leaves the list as it is.
LEMMA LeavesList ==
  ASSUME VecInv, VecInv', NEW op, NEW x, NEW y, NEW r, Calls(op, x, y), result' = r,
         mem' = mem, num_elems' = num_elems
  PROVE  Contract!Does(op, x, y, Contents, r)
  BY ContentsAre, DoesAsPromised

LEMMA PushAppends ==
  ASSUME VecInv, NEW e \in Elem, vector_push(e)
  PROVE  Contract!Does("push", e, 0, Append(Contents, e), Nothing)
  <1> DEFINE l == Append(Contents, e)
  <1>1. VecInv' /\ num_elems' = num_elems + 1 /\ mem'[num_elems] = e
        /\ \A a \in Block(0, num_elems) : mem'[a] = mem[a]
    BY PushWrites
  <1>2. /\ Contents \in Seq(Elem) /\ Len(Contents) = num_elems /\ num_elems \in Nat
        /\ \A k \in 1..num_elems : Contents[k] = mem[k - 1]
    BY ContentsAre
  <1>3. l \in Seq(Elem) /\ Len(l) = num_elems + 1
        /\ \A k \in 1..num_elems + 1 : l[k] = IF k <= num_elems THEN Contents[k] ELSE e
    BY <1>2
  <1>4. ASSUME NEW k \in 1..num_elems + 1
        PROVE  l[k] = mem'[k - 1]
    <2>1. k <= num_elems => k - 1 \in Block(0, num_elems)
      BY <1>2 DEF Block
    <2> QED
      BY <1>1, <1>2, <1>3, <2>1
  <1>5. Calls("push", e, 0) /\ result' = Nothing
    BY DEF vector_push, Returns
  <1> HIDE DEF l
  <1>6. Contract!Does("push", e, 0, l, Nothing)
    BY <1>1, <1>3, <1>4, <1>5, DoesAsPromised
  <1> QED
    BY <1>6 DEF l

LEMMA InsertReplaces ==
  ASSUME VecInv, NEW e \in Elem, NEW i \in Index, vector_insert(e, i)
  PROVE  Contract!Does("insert", e, i,
           IF i < Len(Contents) THEN [Contents EXCEPT ![i + 1] = e] ELSE Contents, Nothing)
  <1> DEFINE l == [Contents EXCEPT ![i + 1] = e]
  <1>1. VecInv' /\ Calls("insert", e, i) /\ result' = Nothing /\ i \in Nat
    BY InsertKeeps, Bounds DEF vector_insert, Returns, Index
  <1>2. /\ Contents \in Seq(Elem) /\ Len(Contents) = num_elems /\ num_elems \in Nat
        /\ \A k \in 1..num_elems : Contents[k] = mem[k - 1]
    BY ContentsAre
  <1>3. CASE i < num_elems
    <2>1. i + 1 \in 1..Len(Contents)
      BY <1>1, <1>2, <1>3
    <2>2. l \in Seq(Elem) /\ Len(l) = num_elems
          /\ \A k \in 1..num_elems : l[k] = IF k = i + 1 THEN e ELSE Contents[k]
      BY <1>2, <2>1, ExceptSeq
    <2>3. num_elems' = num_elems /\ mem' = [mem EXCEPT ![i] = e]
      BY <1>3 DEF vector_insert, InBounds
    <2>4. ASSUME NEW k \in 1..num_elems
          PROVE  l[k] = mem'[k - 1]
      <3>1. k - 1 \in Address
        BY <1>2, ContentsAre, UsedIsAddress DEF Block
      <3>2. mem \in [Address -> Cell]
        BY DEF VecInv, TypeOK, Cell
      <3> HIDE DEF l
      <3>3. mem'[k - 1] = IF k - 1 = i THEN e ELSE mem[k - 1]
        BY <2>3, <3>1, <3>2
      <3>4. k - 1 = i <=> k = i + 1
        BY <1>1, <1>2
      <3> QED
        BY <1>2, <2>2, <3>3, <3>4
    <2> HIDE DEF l
    <2>5. Contract!Does("insert", e, i, l, Nothing)
      BY <1>1, <2>2, <2>3, <2>4, DoesAsPromised
    <2> QED
      BY <1>2, <1>3, <2>5 DEF l
  <1>4. CASE ~(i < num_elems)
    <2>1. mem' = mem /\ num_elems' = num_elems
      BY <1>4 DEF vector_insert, InBounds, Untouched
    <2> QED
      BY <1>1, <1>2, <1>4, <2>1, LeavesList
  <1> QED
    BY <1>3, <1>4

\* l is s and then t.
HasJoined(l, s, t) ==
  /\ l \in Seq(Elem) /\ Len(l) = Len(s) + Len(t)
  /\ \A k \in 1..Len(s) : l[k] = s[k]
  /\ \A k \in 1..Len(l) : k > Len(s) => l[k] = t[k - Len(s)]

LEMMA Joined ==
  ASSUME NEW s \in Seq(Elem), NEW t \in Seq(Elem), NEW l, l = s \o t
  PROVE  HasJoined(l, s, t)
  BY DEF HasJoined

LEMMA Cut ==
  ASSUME NEW s \in Seq(Elem), NEW i \in 0..Len(s)
  PROVE  /\ SubSeq(s, 1, i) \in Seq(Elem) /\ Len(SubSeq(s, 1, i)) = i
         /\ \A k \in 1..i : SubSeq(s, 1, i)[k] = s[k]
         /\ SubSeq(s, i + 1, Len(s)) \in Seq(Elem) /\ Len(SubSeq(s, i + 1, Len(s))) = Len(s) - i
         /\ \A k \in 1..Len(s) - i : SubSeq(s, i + 1, Len(s))[k] = s[i + k]
  OBVIOUS

\* l is s with e as a new element after the first i.
HasInserted(l, s, i, e) ==
  /\ l \in Seq(Elem) /\ Len(l) = Len(s) + 1
  /\ \A k \in 1..Len(l) : k <= i => l[k] = s[k]
  /\ l[i + 1] = e
  /\ \A k \in 1..Len(l) : k > i + 1 => l[k] = s[k - 1]

LEMMA InsertAtElements ==
  ASSUME NEW s \in Seq(Elem), NEW e \in Elem, NEW i \in 0..Len(s),
         NEW l, l = InsertAt(s, i + 1, e)
  PROVE  HasInserted(l, s, i, e)
  <1>0. i \in Nat /\ Len(s) \in Nat /\ i <= Len(s)
    OBVIOUS
  <1>1. PICK before : before = SubSeq(s, 1, i)
    OBVIOUS
  <1>2. PICK after : after = SubSeq(s, i + 1, Len(s))
    OBVIOUS
  <1>3. PICK start : start = before \o <<e>>
    OBVIOUS
  <1>4. l = start \o after
    <2>1. (i + 1) - 1 = i
      BY <1>0
    <2>2. l = SubSeq(s, 1, (i + 1) - 1) \o <<e>> \o SubSeq(s, i + 1, Len(s))
      BY DEF InsertAt
    <2> QED
      BY <1>1, <1>2, <1>3, <2>1, <2>2
  <1>5. before \in Seq(Elem) /\ Len(before) = i /\ \A k \in 1..i : before[k] = s[k]
    BY <1>1, Cut
  <1>6. after \in Seq(Elem) /\ Len(after) = Len(s) - i /\ \A k \in 1..Len(s) - i : after[k] = s[i + k]
    BY <1>2, Cut
  <1>7. /\ start \in Seq(Elem) /\ Len(start) = i + 1
        /\ \A k \in 1..i : start[k] = before[k]
    BY <1>3, <1>5
  <1>8. start[i + 1] = e
    BY <1>3, <1>5
  <1>9. /\ l \in Seq(Elem) /\ Len(l) = Len(start) + Len(after)
        /\ \A k \in 1..Len(start) : l[k] = start[k]
        /\ \A k \in 1..Len(l) : k > Len(start) => l[k] = after[k - Len(start)]
    <2>1. start \in Seq(Elem) /\ after \in Seq(Elem)
      BY <1>6, <1>7
    <2>2. HasJoined(l, start, after)
      BY <1>4, <2>1, Joined
    <2> QED
      BY <2>2 DEF HasJoined
  <1>10. Len(l) = Len(s) + 1
    BY <1>0, <1>6, <1>7, <1>9
  <1>11. ASSUME NEW k \in 1..Len(l), k <= i
         PROVE  l[k] = s[k]
    <2>1. k \in 1..i /\ k \in 1..Len(start)
      BY <1>0, <1>7, <1>10, <1>11
    <2> QED
      BY <2>1, <1>5, <1>7, <1>9
  <1>12. l[i + 1] = e
    <2>1. i + 1 \in 1..Len(start)
      BY <1>0, <1>7
    <2> QED
      BY <2>1, <1>8, <1>9
  <1>13. ASSUME NEW k \in 1..Len(l), k > i + 1
         PROVE  l[k] = s[k - 1]
    <2>1. PICK j \in Int : j = k - (i + 1)
      BY <1>0
    <2>2. j \in 1..Len(s) - i /\ i + j = k - 1
      BY <1>0, <1>10, <1>13, <2>1
    <2>3. l[k] = after[j]
      BY <1>7, <1>9, <1>13, <2>1
    <2>4. after[j] = s[i + j]
      BY <1>6, <2>2
    <2> QED
      BY <2>2, <2>3, <2>4
  <1> QED
    BY <1>9, <1>10, <1>11, <1>12, <1>13 DEF HasInserted

LEMMA InsertAtInserts ==
  ASSUME VecInv, NEW e \in Elem, NEW i \in Index, vector_insert_at(e, i)
  PROVE  /\ i \in 0..Len(Contents)
         /\ Contract!Does("insert_at", e, i, InsertAt(Contents, i + 1, e), Nothing)
  <1> DEFINE l == InsertAt(Contents, i + 1, e)
  <1>1. /\ VecInv'
        /\ \A a \in Block(0, num_elems + 1) :
             mem'[a] = IF a = i THEN e ELSE IF a > i THEN mem[a - 1] ELSE mem[a]
    BY InsertAtMakesRoom
  <1>2. /\ Contents \in Seq(Elem) /\ Len(Contents) = num_elems /\ num_elems \in Nat
        /\ \A k \in 1..num_elems : Contents[k] = mem[k - 1]
    BY ContentsAre
  <1>3. /\ i \in 0..num_elems /\ num_elems' = num_elems + 1
        /\ Calls("insert_at", e, i) /\ result' = Nothing
    BY <1>2, Bounds DEF vector_insert_at, Index, Returns
  <1>4. l = InsertAt(Contents, i + 1, e)
    OBVIOUS
  <1> HIDE DEF l
  <1>5. /\ l \in Seq(Elem) /\ Len(l) = num_elems + 1
        /\ \A k \in 1..num_elems + 1 : k <= i => l[k] = Contents[k]
        /\ l[i + 1] = e
        /\ \A k \in 1..num_elems + 1 : k > i + 1 => l[k] = Contents[k - 1]
    <2>1. Contents \in Seq(Elem) /\ i \in 0..Len(Contents)
      BY <1>2, <1>3
    <2>2. HasInserted(l, Contents, i, e)
      BY <2>1, <1>4, InsertAtElements
    <2> QED
      BY <1>2, <2>2 DEF HasInserted
  <1>6. ASSUME NEW k \in 1..num_elems + 1
        PROVE  l[k] = mem'[k - 1]
    <2>1. k - 1 \in Block(0, num_elems + 1)
      BY <1>2 DEF Block
    <2>2. CASE k <= i
      <3>1. k \in 1..num_elems /\ ~(k - 1 = i) /\ ~(k - 1 > i)
        BY <1>2, <1>3, <2>2
      <3>2. mem'[k - 1] = mem[k - 1]
        BY <1>1, <2>1, <3>1
      <3> QED
        BY <1>2, <1>5, <2>2, <3>1, <3>2
    <2>3. CASE k = i + 1
      <3>1. k - 1 = i
        BY <1>2, <1>3, <2>3
      <3> QED
        BY <1>1, <1>5, <2>1, <2>3, <3>1
    <2>4. CASE k > i + 1
      <3> DEFINE j == k - 1
      <3>1. j > i /\ j \in 1..num_elems
        BY <1>2, <1>3, <2>4
      <3> HIDE DEF j
      <3>2. mem'[j] = mem[j - 1]
        BY <1>1, <1>2, <1>3, <3>1 DEF Block
      <3>3. k - 1 = j
        BY DEF j
      <3>4. l[k] = mem[j - 1]
        BY <1>2, <1>5, <2>4, <3>1, <3>3
      <3> QED
        BY <3>1, <3>2, <3>3, <3>4
    <2> QED
      BY <1>2, <1>3, <2>2, <2>3, <2>4
  <1>7. Contract!Does("insert_at", e, i, l, Nothing)
    BY <1>1, <1>3, <1>5, <1>6, DoesAsPromised
  <1> QED
    BY <1>2, <1>3, <1>4, <1>7

LEMMA UnshiftPrepends ==
  ASSUME VecInv, NEW e \in Elem, vector_unshift(e)
  PROVE  Contract!Does("unshift", e, 0, <<e>> \o Contents, Nothing)
  <1> DEFINE l == <<e>> \o Contents
  <1>1. /\ VecInv'
        /\ \A a \in Block(0, num_elems + 1) : mem'[a] = IF a = 0 THEN e ELSE mem[a - 1]
    BY UnshiftMakesRoom
  <1>2. /\ Contents \in Seq(Elem) /\ Len(Contents) = num_elems /\ num_elems \in Nat
        /\ \A k \in 1..num_elems : Contents[k] = mem[k - 1]
    BY ContentsAre
  <1>3. num_elems' = num_elems + 1 /\ Calls("unshift", e, 0) /\ result' = Nothing
    BY DEF vector_unshift, Returns
  <1>4. /\ l \in Seq(Elem) /\ Len(l) = num_elems + 1
        /\ \A k \in 1..num_elems + 1 : l[k] = IF k = 1 THEN e ELSE Contents[k - 1]
    BY <1>2
  <1> HIDE DEF l
  <1>5. ASSUME NEW k \in 1..num_elems + 1
        PROVE  l[k] = mem'[k - 1]
    <2>1. k - 1 \in Block(0, num_elems + 1)
      BY <1>2 DEF Block
    <2>2. k # 1 => k - 1 \in 1..num_elems
      BY <1>2
    <2>3. k - 1 = 0 <=> k = 1
      BY <1>2
    <2> QED
      BY <1>1, <1>2, <1>4, <2>1, <2>2, <2>3
  <1>6. Contract!Does("unshift", e, 0, l, Nothing)
    BY <1>1, <1>3, <1>4, <1>5, DoesAsPromised
  <1> QED
    BY <1>6 DEF l

LEMMA PopTakesLast ==
  ASSUME VecInv, vector_pop
  PROVE  /\ Contents # <<>>
         /\ Contract!Does("pop", 0, 0, Front(Contents), Last(Contents))
  <1> DEFINE l == Front(Contents)
  <1>1. VecInv'
    BY PopKeeps
  <1>2. /\ Contents \in Seq(Elem) /\ Len(Contents) = num_elems /\ num_elems \in Nat
        /\ \A k \in 1..num_elems : Contents[k] = mem[k - 1]
    BY ContentsAre
  <1>3. /\ num_elems > 0 /\ num_elems' = num_elems - 1 /\ mem' = mem
        /\ Calls("pop", 0, 0) /\ result' = mem[num_elems - 1]
    BY DEF vector_pop, Returns
  <1>4. Contents # <<>> /\ Last(Contents) = mem[num_elems - 1]
    BY <1>2, <1>3 DEF Last
  <1>5. /\ l \in Seq(Elem) /\ Len(l) = num_elems - 1
        /\ \A k \in 1..num_elems - 1 : l[k] = Contents[k]
    BY <1>2, <1>3 DEF Front
  <1> HIDE DEF l
  <1>6. ASSUME NEW k \in 1..num_elems'
        PROVE  l[k] = mem'[k - 1]
    <2>1. k \in 1..num_elems - 1 /\ k \in 1..num_elems
      BY <1>2, <1>3
    <2> QED
      BY <1>2, <1>3, <1>5, <2>1
  <1>7. Contract!Does("pop", 0, 0, l, Last(Contents))
    BY <1>1, <1>3, <1>4, <1>5, <1>6, DoesAsPromised
  <1> QED
    BY <1>4, <1>7 DEF l

LEMMA ShiftTakesFirst ==
  ASSUME VecInv, vector_shift
  PROVE  /\ Contents # <<>>
         /\ Contract!Does("shift", 0, 0, Tail(Contents), Head(Contents))
  <1> DEFINE l == Tail(Contents)
  <1>1. VecInv' /\ \A a \in Block(0, num_elems') : mem'[a] = mem[a + 1]
    BY ShiftClosesGap
  <1>2. /\ Contents \in Seq(Elem) /\ Len(Contents) = num_elems /\ num_elems \in Nat
        /\ \A k \in 1..num_elems : Contents[k] = mem[k - 1]
    BY ContentsAre
  <1>3. /\ num_elems > 0 /\ num_elems' = num_elems - 1
        /\ Calls("shift", 0, 0) /\ result' = mem[0]
    BY DEF vector_shift, Returns
  <1>4. Contents # <<>>
    BY <1>2, <1>3
  <1>5. Head(Contents) = mem[0]
    <2>1. Contents[1] = mem[1 - 1]
      BY <1>2, <1>3
    <2> QED
      BY <1>2, <1>4, <2>1
  <1>6. /\ l \in Seq(Elem) /\ Len(l) = num_elems - 1
        /\ \A k \in 1..num_elems - 1 : l[k] = Contents[k + 1]
    BY <1>2, <1>4, HeadTailProperties
  <1> HIDE DEF l
  <1>7. ASSUME NEW k \in 1..num_elems'
        PROVE  l[k] = mem'[k - 1]
    <2>1. /\ k \in 1..num_elems - 1 /\ k + 1 \in 1..num_elems /\ k - 1 \in Block(0, num_elems')
          /\ (k + 1) - 1 = k /\ (k - 1) + 1 = k
      BY <1>2, <1>3 DEF Block
    <2>2. mem'[k - 1] = mem[(k - 1) + 1]
      BY <1>1, <2>1
    <2>3. l[k] = Contents[k + 1] /\ Contents[k + 1] = mem[(k + 1) - 1]
      BY <1>2, <1>6, <2>1
    <2> QED
      BY <2>1, <2>2, <2>3
  <1>8. Contract!Does("shift", 0, 0, l, Head(Contents))
    BY <1>1, <1>3, <1>5, <1>6, <1>7, DoesAsPromised
  <1> QED
    BY <1>4, <1>8 DEF l

\* l is s without the elements i + 1 to j.
HasRemoved(l, s, i, j) ==
  /\ l \in Seq(Elem) /\ Len(l) = Len(s) - (j - i)
  /\ \A k \in 1..Len(l) : k <= i => l[k] = s[k]
  /\ \A k \in 1..Len(l) : k > i => l[k] = s[k + (j - i)]

LEMMA PartsOfRemoved ==
  ASSUME NEW s \in Seq(Elem), NEW i \in Nat, NEW j \in i..Len(s),
         NEW before, Len(before) = i, \A k \in 1..i : before[k] = s[k],
         NEW after, Len(after) = Len(s) - j, \A k \in 1..Len(s) - j : after[k] = s[j + k],
         NEW l, HasJoined(l, before, after)
  PROVE  HasRemoved(l, s, i, j)
  <1>1. Len(s) \in Nat /\ j \in Nat /\ i <= j /\ j <= Len(s)
    OBVIOUS
  <1>2. l \in Seq(Elem) /\ Len(l) = i + (Len(s) - j)
    BY DEF HasJoined
  <1>3. Len(l) = Len(s) - (j - i)
    BY <1>1, <1>2
  <1>4. ASSUME NEW k \in 1..Len(l), k <= i
        PROVE  l[k] = s[k]
    <2>1. k \in 1..i
      BY <1>1, <1>3, <1>4
    <2> QED
      BY <2>1 DEF HasJoined
  <1>5. ASSUME NEW k \in 1..Len(l), k > i
        PROVE  l[k] = s[k + (j - i)]
    <2>1. PICK h \in Int : h = k - i
      BY <1>1
    <2>2. h \in 1..Len(s) - j /\ j + h = k + (j - i)
      BY <1>1, <1>2, <1>5, <2>1
    <2>3. l[k] = after[h]
      BY <1>5, <2>1 DEF HasJoined
    <2> QED
      BY <2>2, <2>3
  <1> QED
    BY <1>2, <1>3, <1>4, <1>5 DEF HasRemoved

LEMMA RemovedElements ==
  ASSUME NEW s \in Seq(Elem), NEW i \in Nat, NEW j \in i..Len(s),
         NEW l, l = SubSeq(s, 1, i) \o SubSeq(s, j + 1, Len(s))
  PROVE  HasRemoved(l, s, i, j)
  <1>1. i \in 0..Len(s) /\ j \in 0..Len(s)
    OBVIOUS
  <1>2. PICK before : before = SubSeq(s, 1, i)
    OBVIOUS
  <1>3. PICK after : after = SubSeq(s, j + 1, Len(s))
    OBVIOUS
  <1>4. before \in Seq(Elem) /\ Len(before) = i /\ \A k \in 1..i : before[k] = s[k]
    BY <1>1, <1>2, Cut
  <1>5. after \in Seq(Elem) /\ Len(after) = Len(s) - j /\ \A k \in 1..Len(s) - j : after[k] = s[j + k]
    BY <1>1, <1>3, Cut
  <1>6. HasJoined(l, before, after)
    BY <1>2, <1>3, <1>4, <1>5, Joined
  <1> QED
    BY <1>4, <1>5, <1>6, PartsOfRemoved

LEMMA CutsAreRemoved ==
  ASSUME VecInv, VecInv', NEW i \in Nat, NEW j \in i..num_elems, Cuts(i, j),
         NEW op, NEW x, NEW y, Calls(op, x, y)
  PROVE  Contract!Does(op, x, y, Contract!Removed(i, j), Nothing)
  <1>1. PICK l : l = SubSeq(Contents, 1, i) \o SubSeq(Contents, j + 1, Len(Contents))
    OBVIOUS
  <1>2. /\ Contents \in Seq(Elem) /\ Len(Contents) = num_elems /\ num_elems \in Nat
        /\ \A k \in 1..num_elems : Contents[k] = mem[k - 1]
    BY ContentsAre
  <1>3. HasRemoved(l, Contents, i, j)
    BY <1>1, <1>2, RemovedElements
  <1>4. /\ num_elems' = num_elems - (j - i) /\ result' = Nothing
        /\ \A a \in Block(0, num_elems') : mem'[a] = IF a < i THEN mem[a] ELSE mem[a + (j - i)]
    BY DEF Cuts
  <1>5. l \in Seq(Elem) /\ Len(l) = num_elems'
    BY <1>2, <1>3, <1>4 DEF HasRemoved
  <1>6. ASSUME NEW k \in 1..num_elems'
        PROVE  l[k] = mem'[k - 1]
    <2>1. k - 1 \in Block(0, num_elems') /\ k \in 1..num_elems /\ k + (j - i) \in 1..num_elems
      BY <1>2, <1>4 DEF Block
    <2>2. PICK h \in Int : h = k + (j - i)
      BY <1>2
    <2>3. (k - 1) + (j - i) = h - 1 /\ (k - 1 < i <=> k <= i) /\ (k <= i \/ k > i)
      BY <1>2, <2>2
    <2>4. mem'[k - 1] = IF k <= i THEN mem[k - 1] ELSE mem[h - 1]
      BY <1>4, <2>1, <2>3
    <2>5. l[k] = IF k <= i THEN Contents[k] ELSE Contents[h]
      BY <1>3, <1>5, <2>2, <2>3 DEF HasRemoved
    <2> QED
      BY <1>2, <2>1, <2>2, <2>4, <2>5
  <1>7. Contract!Does(op, x, y, l, Nothing)
    BY <1>4, <1>5, <1>6, DoesAsPromised
  <1> QED
    BY <1>1, <1>7 DEF Contract!Removed

LEMMA RemoveRemoves ==
  ASSUME VecInv, NEW i \in Index, vector_remove(i)
  PROVE  Contract!Does("remove", i, 0,
           IF i < Len(Contents) THEN Contract!Removed(i, i + 1) ELSE Contents, Nothing)
  <1>1. VecInv' /\ IF i < num_elems THEN Cuts(i, i + 1) ELSE Stays
    BY RemoveCuts
  <1>2. Len(Contents) = num_elems /\ num_elems \in Nat /\ i \in Nat
    BY ContentsAre, Bounds DEF Index
  <1>3. Calls("remove", i, 0) /\ result' = Nothing
    BY DEF vector_remove, Returns
  <1>4. CASE i < num_elems
    <2>1. i + 1 \in i..num_elems
      BY <1>2, <1>4
    <2>2. Contract!Does("remove", i, 0, Contract!Removed(i, i + 1), Nothing)
      BY <1>1, <1>2, <1>3, <1>4, <2>1, CutsAreRemoved
    <2> QED
      BY <1>2, <1>4, <2>2
  <1>5. CASE ~(i < num_elems)
    <2>1. Contract!Does("remove", i, 0, Contents, Nothing)
      BY <1>1, <1>3, <1>5, LeavesList DEF Stays
    <2> QED
      BY <1>2, <1>5, <2>1
  <1> QED
    BY <1>4, <1>5

LEMMA RemoveSomeRemoves ==
  ASSUME VecInv, NEW i \in Index, NEW j \in Index, vector_remove_some(i, j)
  PROVE  \/ /\ j \in i..MaxLen + 1
            /\ Contract!Does("remove_some", i, j,
                 IF j <= Len(Contents) THEN Contract!Removed(i, j) ELSE Contents, Nothing)
         \/ RemovesToEnd
  <1>1. VecInv' /\ IF j < num_elems /\ i # j THEN Cuts(i, j) ELSE Stays
    BY RemoveSomeCuts
  <1>2. /\ Len(Contents) = num_elems /\ num_elems \in Nat /\ i \in Nat /\ j \in Nat
        /\ j \in i..MaxLen + 1
    BY ContentsAre, Bounds DEF Index, vector_remove_some
  <1>3. Calls("remove_some", i, j) /\ result' = Nothing
    BY DEF vector_remove_some, Returns
  <1>4. CASE j < num_elems \/ (j = num_elems /\ i = j)
    <2>1. Cuts(i, j)
      <3>1. CASE i # j
        BY <1>1, <1>2, <1>4, <3>1
      <3>2. CASE i = j
        <4>1. mem' = mem /\ num_elems' = num_elems
          BY <1>1, <3>2 DEF Stays
        <4>2. j - i = 0 /\ num_elems - 0 = num_elems
          BY <1>2, <3>2
        <4>3. \A a \in Block(0, num_elems) : a + 0 = a
          BY <1>2 DEF Block
        <4> QED
          BY <1>3, <4>1, <4>2, <4>3 DEF Cuts
      <3> QED
        BY <3>1, <3>2
    <2>2. j \in i..num_elems
      BY <1>2, <1>4
    <2>3. Contract!Does("remove_some", i, j, Contract!Removed(i, j), Nothing)
      BY <1>1, <1>2, <1>3, <2>1, <2>2, CutsAreRemoved
    <2> QED
      BY <1>2, <1>4, <2>3
  <1>5. CASE j > num_elems
    <2>1. Contract!Does("remove_some", i, j, Contents, Nothing)
      BY <1>1, <1>2, <1>3, <1>5, LeavesList DEF Stays
    <2> QED
      BY <1>2, <1>5, <2>1
  <1>6. CASE j = num_elems /\ i # j
    <2>1. mem' = mem /\ num_elems' = num_elems
      BY <1>1, <1>2, <1>6 DEF Stays
    <2>2. Contents' = Contents
      BY <2>1 DEF Contents
    <2>3. call' = <<"remove_some", i, j>> /\ i < j
      BY <1>2, <1>3, <1>6 DEF Calls
    <2> QED
      BY <1>6, <2>2, <2>3 DEF RemovesToEnd
  <1>7. \/ j < num_elems \/ (j = num_elems /\ i = j)
        \/ j > num_elems
        \/ j = num_elems /\ i # j
    BY <1>2
  <1> QED
    BY <1>4, <1>5, <1>6, <1>7, Zenon

LEMMA GetReads ==
  ASSUME VecInv, NEW i \in Index, vector_get(i)
  PROVE  Contract!Does("get", i, 0, Contents,
           IF i < Len(Contents) THEN Contents[i + 1] ELSE Nothing)
  <1>1. /\ Len(Contents) = num_elems /\ num_elems \in Nat /\ i \in Nat
        /\ \A k \in 1..num_elems : Contents[k] = mem[k - 1]
    BY ContentsAre, Bounds DEF Index
  <1>2. /\ mem' = mem /\ num_elems' = num_elems /\ Calls("get", i, 0)
        /\ result' = IF i < num_elems THEN mem[i] ELSE Nothing
    BY DEF vector_get, Returns, InBounds
  <1>3. i < num_elems => i + 1 \in 1..num_elems /\ (i + 1) - 1 = i
    BY <1>1
  <1>4. result' = IF i < Len(Contents) THEN Contents[i + 1] ELSE Nothing
    BY <1>1, <1>2, <1>3
  <1> QED
    BY <1>2, <1>4, GetKeeps, LeavesList

LEMMA TransposeSwaps ==
  ASSUME VecInv, NEW i \in Index, NEW j \in Index, vector_transpose(i, j)
  PROVE  /\ i < Len(Contents) /\ j < Len(Contents)
         /\ Contract!Does("transpose", i, j,
              [Contents EXCEPT ![i + 1] = Contents[j + 1], ![j + 1] = Contents[i + 1]], Nothing)
  <1> DEFINE l == [Contents EXCEPT ![i + 1] = Contents[j + 1], ![j + 1] = Contents[i + 1]]
  <1>1. /\ VecInv'
        /\ \A a \in Block(0, num_elems) :
             mem'[a] = IF a = j THEN mem[i] ELSE IF a = i THEN mem[j] ELSE mem[a]
    BY TransposeKeeps
  <1>2. /\ Contents \in Seq(Elem) /\ Len(Contents) = num_elems /\ num_elems \in Nat
        /\ \A k \in 1..num_elems : Contents[k] = mem[k - 1]
    BY ContentsAre
  <1>3. /\ i < num_elems /\ j < num_elems /\ i \in Nat /\ j \in Nat
        /\ num_elems' = num_elems /\ result' = Nothing /\ Calls("transpose", i, j)
    BY Bounds DEF vector_transpose, InBounds, Returns, Index
  <1>4. /\ i + 1 \in 1..num_elems /\ j + 1 \in 1..num_elems
        /\ (i + 1) - 1 = i /\ (j + 1) - 1 = j
    BY <1>2, <1>3
  <1>5. Contents \in [1..num_elems -> Elem]
    BY <1>2
  <1>6. /\ l \in [1..num_elems -> Elem]
        /\ \A k \in 1..num_elems : l[k] =
             IF k = j + 1 THEN Contents[i + 1] ELSE IF k = i + 1 THEN Contents[j + 1] ELSE Contents[k]
    BY <1>4, <1>5
  <1> HIDE DEF l
  <1>7. l \in Seq(Elem) /\ Len(l) = num_elems
    BY <1>2, <1>6
  <1>8. ASSUME NEW k \in 1..num_elems
        PROVE  l[k] = mem'[k - 1]
    <2>1. /\ k - 1 \in Block(0, num_elems)
          /\ (k - 1 = i <=> k = i + 1) /\ (k - 1 = j <=> k = j + 1)
      BY <1>2, <1>3 DEF Block
    <2>2. mem'[k - 1] = IF k = j + 1 THEN mem[i] ELSE IF k = i + 1 THEN mem[j] ELSE mem[k - 1]
      BY <1>1, <2>1
    <2> QED
      BY <1>2, <1>4, <1>6, <2>2
  <1>9. Contract!Does("transpose", i, j, l, Nothing)
    BY <1>1, <1>3, <1>7, <1>8, DoesAsPromised
  <1> QED
    BY <1>2, <1>3, <1>9 DEF l

LEMMA CmpAllFindsMax ==
  ASSUME VecInv, vector_cmp_all
  PROVE  /\ Contents # <<>>
         /\ Contract!Does("cmp_all", 0, 0, Contents, Max(Range(Contents)))
  <1>1. /\ Contents \in Seq(Elem) /\ Len(Contents) = num_elems /\ num_elems \in Nat
        /\ \A k \in 1..num_elems : Contents[k] = mem[k - 1] /\ mem[k - 1] \in Elem
    BY ContentsAre
  <1>2. /\ num_elems > 0 /\ mem' = mem /\ num_elems' = num_elems /\ Calls("cmp_all", 0, 0)
    BY DEF vector_cmp_all
  <1>3. PICK i \in Block(0, num_elems) :
          (\A j \in Block(0, num_elems) : mem[j] <= mem[i]) /\ result' = mem[i]
    BY DEF vector_cmp_all, Returns
  <1>4. Contents # <<>>
    BY <1>1, <1>2
  <1>5. Range(Contents) = {Contents[k] : k \in 1..num_elems}
    <2>1. DOMAIN Contents = 1..num_elems
      BY <1>1
    <2> QED
      BY <2>1, Zenon DEF Range
  <1>6. result' \in Range(Contents)
    <2>1. i + 1 \in 1..num_elems /\ (i + 1) - 1 = i
      BY <1>1 DEF Block
    <2> QED
      BY <1>1, <1>3, <1>5, <2>1
  <1>7. \A x \in Range(Contents) : x \in Nat /\ result' >= x
    <2>1. ASSUME NEW k \in 1..num_elems
          PROVE  Contents[k] \in Nat /\ result' >= Contents[k]
      <3>1. k - 1 \in Block(0, num_elems)
        BY <1>1 DEF Block
      <3>2. mem[k - 1] \in Nat /\ mem[k - 1] <= mem[i]
        BY <1>1, <1>3, <3>1, Bounds
      <3>3. mem[i] \in Nat
        <4>1. mem[i] \in Elem
          BY DEF VecInv, InUse
        <4> QED
          BY <4>1, Bounds
      <3> QED
        BY <1>1, <1>3, <3>2, <3>3
    <2> QED
      BY <1>5, <2>1
  <1>8. PICK R : R = Range(Contents)
    OBVIOUS
  <1>9. PICK r : r = result'
    OBVIOUS
  <1>10. r \in R /\ \A x \in R : x \in Nat /\ r >= x
    BY <1>6, <1>7, <1>8, <1>9
  <1>11. Max(R) = r
    <2>1. Max(R) \in R /\ \A y \in R : Max(R) >= y
      BY <1>10 DEF Max
    <2> QED
      BY <1>10, <2>1
  <1>12. Contract!Does("cmp_all", 0, 0, Contents, r)
    BY <1>2, <1>9, CmpAllKeeps, LeavesList
  <1> QED
    BY <1>4, <1>8, <1>11, <1>12

LEMMA QsortSorts ==
  ASSUME VecInv, vector_qsort
  PROVE  \E sorted \in Contract!Sorted(Contents) : Contract!Does("qsort", 0, 0, sorted, Nothing)
  <1>1. VecInv' /\ num_elems' = num_elems /\ result' = Nothing
    BY QsortOrders
  <1>2. PICK p \in Bijection(1..num_elems, 1..num_elems) :
          /\ \A i, j \in 1..num_elems : i < j => Orders(p)[i] <= Orders(p)[j]
          /\ \A a \in Block(0, num_elems) : mem'[a] = Orders(p)[a + 1]
    BY QsortOrders
  <1>3. /\ Contents \in Seq(Elem) /\ Len(Contents) = num_elems /\ num_elems \in Nat
    BY ContentsAre
  <1>4. p \in [1..num_elems -> 1..num_elems] /\ DOMAIN Contents = 1..num_elems
        /\ Contents \in [1..num_elems -> Elem]
    BY <1>2, <1>3 DEF Bijection, Injection
  <1>5. PICK l : l = Orders(p)
    OBVIOUS
  <1>6. l \in [1..num_elems -> Elem]
    BY <1>4, <1>5 DEF Orders
  <1>7. l \in Contract!Sorted(Contents)
    <2>1. l \in Contract!Arranged(Contents)
      <3>1. l = [i \in DOMAIN Contents |-> Contents[p[i]]]
        BY <1>4, <1>5 DEF Orders
      <3>2. p \in Bijection(DOMAIN Contents, DOMAIN Contents)
        BY <1>2, <1>4
      <3>3. p \in Contract!Bijection(DOMAIN Contents, DOMAIN Contents)
        BY <3>2 DEF Contract!Bijection, Contract!Injection, Contract!Surjection,
             Contract!IsInjective, Bijection, Injection, Surjection, IsInjective
      <3> QED
        BY <3>1, <3>3 DEF Contract!Arranged
    <2>2. \A i, j \in DOMAIN l : i < j => l[i] <= l[j]
      BY <1>2, <1>5, <1>6
    <2> QED
      BY <2>1, <2>2 DEF Contract!Sorted
  <1>8. l \in Seq(Elem) /\ Len(l) = num_elems
    BY <1>3, <1>6
  <1>9. ASSUME NEW k \in 1..num_elems
        PROVE  l[k] = mem'[k - 1]
    <2>1. k - 1 \in Block(0, num_elems) /\ (k - 1) + 1 = k
      BY <1>3 DEF Block
    <2> QED
      BY <1>2, <1>5, <2>1
  <1>10. Calls("qsort", 0, 0)
    BY DEF vector_qsort
  <1>11. Contract!Does("qsort", 0, 0, l, Nothing)
    BY <1>1, <1>8, <1>9, <1>10, DoesAsPromised
  <1> QED
    BY <1>7, <1>11

LEMMA RemoveAllEmpties ==
  ASSUME VecInv, vector_remove_all
  PROVE  Contract!Does("remove_all", 0, 0, <<>>, Nothing)
  <1>1. VecInv' /\ num_elems' = 0 /\ result' = Nothing
    BY RemoveAllKeeps
  <1>2. <<>> \in Seq(Elem) /\ Len(<<>>) = num_elems' /\ 1..num_elems' = {}
    BY <1>1
  <1>3. Calls("remove_all", 0, 0)
    BY DEF vector_remove_all
  <1> QED
    BY <1>1, <1>2, <1>3, DoesAsPromised

LEMMA CopyCopies ==
  ASSUME VecInv, NEW l \in Lists, NEW alloc \in 1..MaxLen, vector_copy(l, alloc)
  PROVE  /\ Contract!Open /\ call' = <<"copy", 0, 0>>
         /\ Contents' \in Seq(Elem) /\ result' = Contract!Nothing
  <1>1. /\ VecInv' /\ num_elems' = Len(l) /\ result' = Nothing
        /\ \A a \in Block(0, num_elems') : mem'[a] = l[a + 1]
    BY CopyFills
  <1>2. l \in Seq(Elem) /\ Len(l) \in Nat
    BY ListsAreShort
  <1>3. ASSUME NEW k \in 1..num_elems'
        PROVE  l[k] = mem'[k - 1]
    <2>1. k - 1 \in Block(0, num_elems') /\ (k - 1) + 1 = k
      BY <1>1, <1>2 DEF Block
    <2> QED
      BY <1>1, <2>1
  <1>4. Contents' = l
    BY <1>1, <1>2, <1>3, BecomesList
  <1> QED
    BY <1>1, <1>2, <1>4 DEF vector_copy, Calls, Contract!Open, Contract!Nothing, Nothing

LEMMA DisposeLeaves ==
  ASSUME VecInv, vector_dispose
  PROVE  Contract!Does("dispose", 0, 0, Contents, Nothing)
  BY UntouchedKeeps, LeavesList DEF vector_dispose, Returns, Untouched

-----------------------------------------------------------------------------
(* The refinement. *)

LEMMA ContractInit ==
  ASSUME Init
  PROVE  Contract!Init
  <1>1. num_elems = 0
    BY DEF Init
  <1>2. Contents = <<>>
    BY <1>1 DEF Contents
  <1> QED
    BY <1>2 DEF Init, Contract!Init, Contract!Nothing, Nothing

LEMMA ContractStep ==
  ASSUME VecInv, [Next]_vars
  PROVE  [Contract!Next \/ RemovesToEnd]_<<Contents, call, result>>
  <1> USE DEF Contract!Nothing, Nothing
  <1>1. CASE UNCHANGED vars
    BY <1>1 DEF vars, Contents
  <1>2. CASE \E e \in Elem : vector_push(e) \/ vector_unshift(e)
    BY <1>2, PushAppends, UnshiftPrepends DEF Contract!Next, Contract!Adds
  <1>3. CASE \E e \in Elem, i \in Index : vector_insert(e, i)
    BY <1>3, InsertReplaces DEF Contract!Next, Contract!Adds, Contract!Index, Index
  <1>4. CASE \E e \in Elem, i \in Index : vector_insert_at(e, i)
    BY <1>4, InsertAtInserts DEF Contract!Next, Contract!Adds, Contract!InsertAt, InsertAt
  <1>5. CASE vector_pop \/ vector_shift
    BY <1>5, PopTakesLast, ShiftTakesFirst
       DEF Contract!Next, Contract!Takes, Contract!Front, Contract!Last, Front, Last
  <1>6. CASE vector_cmp_all
    BY <1>6, CmpAllFindsMax
       DEF Contract!Next, Contract!Takes, Contract!Max, Contract!Range, Max, Range
  <1>7. CASE \E i \in Index : vector_get(i) \/ vector_remove(i)
    BY <1>7, GetReads, RemoveRemoves DEF Contract!Next, Contract!Indexed, Contract!Index, Index
  <1>8. CASE \E i \in Index, j \in Index : vector_remove_some(i, j)
    BY <1>8, RemoveSomeRemoves DEF Contract!Next, Contract!Indexed, Contract!Index, Index
  <1>9. CASE \E i \in Index, j \in Index : vector_transpose(i, j)
    BY <1>9, TransposeSwaps DEF Contract!Next, Contract!Indexed, Contract!Index, Index
  <1>10. CASE vector_remove_all \/ vector_qsort
    BY <1>10, RemoveAllEmpties, QsortSorts DEF Contract!Next, Contract!Whole
  <1>11. CASE vector_dispose
    BY <1>11, DisposeLeaves DEF Contract!Next, Contract!Whole
  <1>12. CASE \E l \in Lists, alloc \in 1..MaxLen : vector_copy(l, alloc)
    BY <1>12, CopyCopies DEF Contract!Next, Contract!Whole
  <1> QED
    BY <1>1, <1>2, <1>3, <1>4, <1>5, <1>6, <1>7, <1>8, <1>9, <1>10, <1>11, <1>12 DEF Next, Disposed

\* In every sequence of calls a vector is the list its callers take it for, with the
\* elements it hands back, but for a remove_some that reaches the end (vector.c:177), for
\* elements and lists of any number.
THEOREM VectorImplementsContract == Spec => ImplementsContract
  <1>1. VecInv /\ [Next]_vars => [Contract!Next \/ RemovesToEnd]_<<Contents, call, result>>
    BY ContractStep
  <1> QED
    BY <1>1, ContractInit, VecInvariant, PTL DEF Spec, ImplementsContract

=============================================================================
