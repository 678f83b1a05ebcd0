-------------------------------- MODULE Lists --------------------------------
(***************************************************************************)
(* The kernel's doubly linked lists (list.c, list.h).  A list is a circle  *)
(* of items and an end marker.  pxIndex, the item last handed out by       *)
(* listGET_OWNER_OF_NEXT_ENTRY, only ever moves in the ready lists: those  *)
(* are records of the items in order and the position of pxIndex, 0 being  *)
(* the end marker.  In every other list pxIndex rests on the end marker,   *)
(* and the list is the sequence of its items.                              *)
(***************************************************************************)
EXTENDS Integers, Sequences, SequencesExt

\* vListInitialise
EmptyList == [items |-> <<>>, index |-> 0]

Contained(x, list) == x \in ToSet(list.items)

\* Position of x in the sequence s, in which it occurs once.
PositionOf(x, s) == CHOOSE i \in DOMAIN s : s[i] = x

\* The list without its item x, or as it is.
Without(s, x) == IF x \in ToSet(s) THEN RemoveAt(s, PositionOf(x, s)) ELSE s

\* listINSERT_END, vListInsertEnd: the new item goes just before pxIndex, so
\* that it is the last one the index will come to.
InsertEnd(list, x) ==
    IF list.index = 0
      THEN [list EXCEPT !.items = Append(@, x)]
      ELSE [items |-> InsertAt(list.items, list.index, x),
            index |-> list.index + 1]

\* uxListRemove, listREMOVE_ITEM: a pxIndex on the item that leaves moves
\* back to the one before it.
ListRemove(list, x) ==
    [items |-> Without(list.items, x),
     index |-> IF PositionOf(x, list.items) <= list.index
                 THEN list.index - 1 ELSE list.index]

\* listGET_OWNER_OF_NEXT_ENTRY: the index steps over the end marker.
IndexToNext(list) ==
    [list EXCEPT !.index = IF @ = Len(list.items) THEN 1 ELSE @ + 1]

\* vListInsert: before the first item of a greater value, so behind those of
\* the same value.  value maps the items, the new one included, to theirs.
SortedInsert(s, x, value) ==
    LET greater == {i \in DOMAIN s : value[s[i]] > value[x]}
        at == IF greater = {} THEN Len(s) + 1
              ELSE CHOOSE i \in greater : \A j \in greater : i <= j
    IN  InsertAt(s, at, x)

=============================================================================
