--------------------------- MODULE VectorContract ---------------------------
(***************************************************************************)
(* What a vector promises its callers: a list, indexed from 0, on which    *)
(* each call does one thing and hands back at most one element.  The calls *)
(* are those a caller may make: pop, shift and cmp_all on a list that has  *)
(* an element, insert_at no further than the end, transpose within it,     *)
(* remove_some with from <= to.  remove_some takes from..to-1 off, up to   *)
(* the whole list: the balancing of migration (core.c:742-757, 778-789)    *)
(* moves threads while i < length and then removes 0..i-1.                 *)
(***************************************************************************)
EXTENDS Integers, Sequences, SequencesExt

CONSTANTS Elem,     \* the elements (pids), ordered as cmp_func orders them
          MaxLen    \* bound: elements in a list

VARIABLES list,
          call,     \* the last call, with its arguments
          result    \* the element it handed back, or Nothing

Nothing == -2
Index   == 0..MaxLen + 1

Init == list = <<>> /\ call = <<"init", 0, 0>> /\ result = Nothing

Open == call[1] # "dispose"

\* A call that leaves l in the vector and hands back r.
Does(op, x, y, l, r) ==
  /\ Open /\ Len(l) <= MaxLen
  /\ call' = <<op, x, y>> /\ list' = l /\ result' = r

Removed(i, j) == SubSeq(list, 1, i) \o SubSeq(list, j + 1, Len(list))

\* The elements of s in ascending order (equal elements do not differ).
Arranged(s)   == {[i \in DOMAIN s |-> s[p[i]]] : p \in Bijection(DOMAIN s, DOMAIN s)}
Sorted(s)     == {t \in Arranged(s) : \A i, j \in DOMAIN t : i < j => t[i] <= t[j]}

Adds(e) ==
  \/ Does("push", e, 0, Append(list, e), Nothing)
  \/ Does("unshift", e, 0, <<e>> \o list, Nothing)
  \/ \E i \in 0..Len(list) : Does("insert_at", e, i, InsertAt(list, i + 1, e), Nothing)
  \/ \E i \in Index : Does("insert", e, i, IF i < Len(list) THEN [list EXCEPT ![i + 1] = e] ELSE list, Nothing)

Takes ==
  /\ list # <<>>
  /\ \/ Does("pop", 0, 0, Front(list), Last(list))
     \/ Does("shift", 0, 0, Tail(list), Head(list))
     \/ Does("cmp_all", 0, 0, list, Max(Range(list)))

\* An index out of bounds is ignored; so is a range that goes past the end.
Indexed(i) ==
  \/ Does("get", i, 0, list, IF i < Len(list) THEN list[i + 1] ELSE Nothing)
  \/ Does("remove", i, 0, IF i < Len(list) THEN Removed(i, i + 1) ELSE list, Nothing)
  \/ \E j \in i..MaxLen + 1 :
       Does("remove_some", i, j, IF j <= Len(list) THEN Removed(i, j) ELSE list, Nothing)
  \/ \E j \in Index :
       /\ i < Len(list) /\ j < Len(list)
       /\ Does("transpose", i, j, [list EXCEPT ![i + 1] = list[j + 1], ![j + 1] = list[i + 1]], Nothing)

Whole ==
  \/ Does("remove_all", 0, 0, <<>>, Nothing)
  \/ \E sorted \in Sorted(list) : Does("qsort", 0, 0, sorted, Nothing)
  \/ Open /\ call' = <<"copy", 0, 0>> /\ list' \in Seq(Elem) /\ result' = Nothing
  \/ Does("dispose", 0, 0, list, Nothing)

Next == (\E e \in Elem : Adds(e)) \/ Takes \/ (\E i \in Index : Indexed(i)) \/ Whole

Spec == Init /\ [][Next]_<<list, call, result>>
=============================================================================
