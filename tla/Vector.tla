------------------------------- MODULE Vector -------------------------------
(***************************************************************************)
(* The growing array that holds the daemon's lists of pids (vector.c): a   *)
(* block of num_alloc_elems cells, of which the first num_elems are in     *)
(* use.  Memory reaches past the block, so that an access outside it shows *)
(* as a cell the block does not have.                                      *)
(*                                                                         *)
(* Abstractions: malloc and realloc succeed (the code asserts it); what a  *)
(* cell holds before it is written is Junk; sizes do not wrap.             *)
(***************************************************************************)
EXTENDS Integers, Sequences, SequencesExt

CONSTANTS Elem, MaxLen,   \* as in VectorContract
          InitSize        \* the init_size arguments that are tried

ASSUME ElemAssumption     == Elem \subseteq Nat /\ Elem # {}
ASSUME MaxLenAssumption   == MaxLen \in Nat \ {0}
ASSUME InitSizeAssumption == InitSize \subseteq Nat /\ InitSize # {}

VARIABLES mem,                        \* v->elems
          num_elems, num_alloc_elems,
          touched,                    \* the cells that the last call read or wrote
          call, result                \* the call and the element it handed back

vars == <<mem, num_elems, num_alloc_elems, touched, call, result>>

Junk    == -1
Nothing == -2

VECTOR_INIT_SIZE == 4

InitAlloc(size) == IF size > 0 THEN size ELSE VECTOR_INIT_SIZE

\* bound: growth doubles a block that is full, and no list is longer than MaxLen
Address == 0..2 * (MaxLen + VECTOR_INIT_SIZE)
Index   == 0..MaxLen + 1
Lists   == {[k \in 1..n |-> e] : n \in 0..MaxLen, e \in Elem}    \* bound: what copy is given

TypeOK ==
  /\ mem \in [Address -> Elem \cup {Junk}]
  /\ num_elems \in 0..MaxLen /\ num_alloc_elems \in Nat \ {0}
  /\ touched \subseteq Nat
  /\ result \in Elem \cup {Nothing}

\* vector_init
Init ==
  /\ mem = [a \in Address |-> Junk]
  /\ num_elems = 0
  /\ \E size \in InitSize : num_alloc_elems = InitAlloc(size)
  /\ touched = {}
  /\ call = <<"init", 0, 0>> /\ result = Nothing

-----------------------------------------------------------------------------
(* Memory. *)

Block(i, n) == i..i + n - 1

memmove(m, to, from, n) ==
  [a \in Address |-> IF a \in Block(to, n) THEN m[from + (a - to)] ELSE m[a]]

\* Keeps the cells that the old and the new block share.
realloc(m, n) == [a \in Address |-> IF a < n THEN m[a] ELSE Junk]

\* Mutation of HasSpace: the cell that is to be added is not counted.
HasSpaceLoose == num_elems <= num_alloc_elems

HasSpace    == num_elems + 1 <= num_alloc_elems
InBounds(i) == i < num_elems

vector_grow(size) == IF size > num_alloc_elems THEN size ELSE 2 * num_alloc_elems

\* Room for one more, by vector_grow(v, size) when there is none.
WithRoom(size) == IF HasSpace THEN num_alloc_elems ELSE vector_grow(size)

-----------------------------------------------------------------------------
(* Calls. *)

Calls(op, x, y) ==
  /\ call[1] # "dispose"
  /\ call' = <<op, x, y>>

Returns(e) == result' = e

Untouched == UNCHANGED <<mem, num_elems, num_alloc_elems>> /\ touched' = {}

\* vector_insert with an index: writes over the element that is there.
vector_insert(e, i) ==
  /\ Calls("insert", e, i) /\ Returns(Nothing)
  /\ IF InBounds(i)
     THEN /\ mem' = [mem EXCEPT ![i] = e]
          /\ touched' = {i}
          /\ UNCHANGED <<num_elems, num_alloc_elems>>
     ELSE Untouched

\* vector_insert with index -1.
vector_push(e) ==
  /\ num_elems < MaxLen
  /\ Calls("push", e, 0) /\ Returns(Nothing)
  /\ num_alloc_elems' = WithRoom(0)
  /\ mem' = [realloc(mem, num_alloc_elems') EXCEPT ![num_elems] = e]
  /\ touched' = {num_elems}
  /\ num_elems' = num_elems + 1

vector_insert_at(e, i) ==
  /\ num_elems < MaxLen
  /\ i <= num_elems
  /\ Calls("insert_at", e, i) /\ Returns(Nothing)
  /\ num_alloc_elems' = WithRoom(0)
  /\ mem' = [memmove(realloc(mem, num_alloc_elems'), i + 1, i, num_elems - i) EXCEPT ![i] = e]
  /\ touched' = Block(i, num_elems + 1 - i)
  /\ num_elems' = num_elems + 1

vector_unshift(e) ==
  /\ num_elems < MaxLen
  /\ Calls("unshift", e, 0) /\ Returns(Nothing)
  /\ num_alloc_elems' = WithRoom(num_elems + 1)
  /\ mem' = [memmove(realloc(mem, num_alloc_elems'), 1, 0, num_elems) EXCEPT ![0] = e]
  /\ touched' = Block(0, num_elems + 1)
  /\ num_elems' = num_elems + 1

vector_pop ==
  /\ num_elems > 0
  /\ Calls("pop", 0, 0) /\ Returns(mem[num_elems - 1])
  /\ touched' = {num_elems - 1}
  /\ num_elems' = num_elems - 1
  /\ UNCHANGED <<mem, num_alloc_elems>>

vector_shift ==
  /\ num_elems > 0
  /\ Calls("shift", 0, 0) /\ Returns(mem[0])
  /\ num_elems' = num_elems - 1
  /\ mem' = memmove(mem, 0, 1, num_elems')
  /\ touched' = Block(0, num_elems)
  /\ UNCHANGED num_alloc_elems

vector_transpose(i, j) ==
  /\ InBounds(i) /\ InBounds(j)
  /\ Calls("transpose", i, j) /\ Returns(Nothing)
  /\ mem' = [mem EXCEPT ![i] = mem[j], ![j] = mem[i]]
  /\ touched' = {i, j}
  /\ UNCHANGED <<num_elems, num_alloc_elems>>

vector_get(i) ==
  /\ Calls("get", i, 0)
  /\ Returns(IF InBounds(i) THEN mem[i] ELSE Nothing)
  /\ touched' = {i} \cap Block(0, num_elems)
  /\ UNCHANGED <<mem, num_elems, num_alloc_elems>>

\* memmove(INDEX(i), INDEX(j), num_elems - j)
CloseGap(i, j) ==
  /\ mem' = memmove(mem, i, j, num_elems - j)
  /\ touched' = Block(i, num_elems - j) \cup Block(j, num_elems - j)
  /\ num_elems' = num_elems - (j - i)
  /\ UNCHANGED num_alloc_elems

\* Mutation of vector_remove: no test of the bounds.
vector_remove_unchecked(i) ==
  /\ Calls("remove", i, 0) /\ Returns(Nothing)
  /\ CloseGap(i, i + 1)

vector_remove(i) ==
  /\ Calls("remove", i, 0) /\ Returns(Nothing)
  /\ IF InBounds(i) THEN CloseGap(i, i + 1) ELSE Untouched

\* Mutation of vector_remove_some: both ends of the range are removed.
vector_remove_some_closed(from, to) ==
  /\ from <= to
  /\ Calls("remove_some", from, to) /\ Returns(Nothing)
  /\ IF InBounds(from) /\ InBounds(to) THEN CloseGap(from, to + 1) ELSE Untouched

\* Removes from..to-1, but nothing when to is num_elems (vector.c:177).
vector_remove_some(from, to) ==
  /\ from <= to
  /\ Calls("remove_some", from, to) /\ Returns(Nothing)
  /\ IF InBounds(from) /\ InBounds(to) /\ from # to THEN CloseGap(from, to) ELSE Untouched

\* The block goes back to its first size.
vector_remove_all ==
  /\ Calls("remove_all", 0, 0) /\ Returns(Nothing)
  /\ num_elems' = 0
  /\ num_alloc_elems' = VECTOR_INIT_SIZE
  /\ mem' = realloc(mem, VECTOR_INIT_SIZE)
  /\ touched' = {}

\* cmp_func orders the elements by their value; the first greatest is handed back.
vector_cmp_all ==
  /\ num_elems > 0
  /\ Calls("cmp_all", 0, 0)
  /\ \E i \in Block(0, num_elems) : /\ \A j \in Block(0, num_elems) : mem[j] <= mem[i]
                                    /\ Returns(mem[i])
  /\ touched' = Block(0, num_elems)
  /\ UNCHANGED <<mem, num_elems, num_alloc_elems>>

\* The elements in use, as a list.
Contents == [i \in 1..num_elems |-> mem[i - 1]]

Filled(m, l) == [a \in Address |-> IF a < Len(l) THEN l[a + 1] ELSE m[a]]

\* qsort(3) moves the elements in use so that they ascend.
vector_qsort ==
  /\ Calls("qsort", 0, 0) /\ Returns(Nothing)
  /\ \E p \in Bijection(1..num_elems, 1..num_elems) :
       LET sorted == [i \in 1..num_elems |-> Contents[p[i]]]
       IN  /\ \A i, j \in 1..num_elems : i < j => sorted[i] <= sorted[j]
           /\ mem' = Filled(mem, sorted)
  /\ touched' = Block(0, num_elems)
  /\ UNCHANGED <<num_elems, num_alloc_elems>>

\* The vector becomes a copy of one that holds l in a block of alloc cells.
vector_copy(l, alloc) ==
  /\ Len(l) <= alloc
  /\ Calls("copy", 0, 0) /\ Returns(Nothing)
  /\ num_elems' = Len(l) /\ num_alloc_elems' = alloc
  /\ mem' = Filled(realloc(mem, alloc), l)
  /\ touched' = Block(0, num_elems')

\* The block is freed, the fields stay, and no call may follow.  free_func is NULL in
\* every vector of the daemon.
vector_dispose == Calls("dispose", 0, 0) /\ Returns(Nothing) /\ Untouched

Disposed == call[1] = "dispose" /\ UNCHANGED vars

-----------------------------------------------------------------------------
Next ==
  \/ \E e \in Elem :
       \/ vector_push(e) \/ vector_unshift(e)
       \/ \E i \in Index : vector_insert(e, i) \/ vector_insert_at(e, i)
  \/ vector_pop \/ vector_shift \/ vector_cmp_all
  \/ \E i \in Index :
       \/ vector_get(i) \/ vector_remove(i)
       \/ \E j \in Index : vector_transpose(i, j) \/ vector_remove_some(i, j)
  \/ vector_remove_all \/ vector_qsort \/ vector_dispose
  \/ \E l \in Lists, alloc \in 1..MaxLen : vector_copy(l, alloc)
  \/ Disposed

Spec == Init /\ [][Next]_vars

-----------------------------------------------------------------------------
(* Properties. *)

\* No call that is legal reads or writes past the block, though the block shrinks
\* and grows by three different rules (vector.c:26-35, 66, 188-190).
NoOverrun ==
  /\ num_elems <= num_alloc_elems
  /\ \A i \in touched : i < num_alloc_elems

Contract == INSTANCE VectorContract WITH list <- Contents

\* The one call that does not keep the promise: vector.c:177 returns without removing
\* anything when the range reaches the end.
RemovesToEnd ==
  /\ call'[1] = "remove_some" /\ call'[2] < call'[3] /\ call'[3] = num_elems
  /\ UNCHANGED Contents

\* In every sequence of calls a vector is the list its callers take it for, with the
\* elements it hands back, but for a remove_some that reaches the end, which leaves the
\* list as it was though its callers (core.c:757, 789) expect the elements gone.
ImplementsContract == Contract!Init /\ [][Contract!Next \/ RemovesToEnd]_<<Contents, call, result>>

=============================================================================
