------------------------------- MODULE Views -------------------------------
(***************************************************************************)
(* Views of append-only arrays and maps (core/src/runtime/log-view.ts).  A *)
(* view is a length and a reference to storage it shares with the views it *)
(* was made from: an append writes to shared storage only from the view at *)
(* its tip and copies otherwise.  Snapshots, frames and engines hold such  *)
(* views of one log, and branches of it are appended to in any order.      *)
(***************************************************************************)
EXTENDS Naturals, Sequences, FiniteSets

CONSTANTS
    Values,      \* items
    ViewKeys,    \* keys of a map
    MaxViews,    \* bound on the views made
    MaxLength    \* bound on their lengths

VARIABLES
    arrays,      \* backing arrays, items in order
    views,       \* views made so far: array, length, and the items it had when made
    maps,        \* backing maps: entries [key, value], in the order of insertion; `at' is the index
    indexes      \* views of maps: map, size, and the entries it had when made

viewVars == <<arrays, views, maps, indexes>>

\* What a view reads: the first items of its array.
Items(v) == SubSeq(arrays[v.array], 1, v.length)

\* Faulty variant of InPlace: an append from any view that is not empty goes to its array.
InPlaceAlways(v) == v.length > 0
\* append writes in place from the tip alone; the empty view owns nothing.
InPlace(v) == v.length > 0 /\ Len(arrays[v.array]) = v.length

append(v, item) ==
    /\ Len(views) < MaxViews /\ v.length < MaxLength
    /\ IF InPlace(v)
       THEN /\ arrays' = [arrays EXCEPT ![v.array] = Append(@, item)]
            /\ views' = Append(views, [array |-> v.array, length |-> Len(arrays[v.array]) + 1, was |-> Append(Items(v), item)])
       ELSE /\ arrays' = Append(arrays, Append(Items(v), item))
            /\ views' = Append(views, [array |-> Len(arrays) + 1, length |-> v.length + 1, was |-> Append(Items(v), item)])
    /\ UNCHANGED <<maps, indexes>>

take(v, n) ==
    /\ Len(views) < MaxViews /\ n < v.length
    /\ views' = Append(views, [array |-> v.array, length |-> n, was |-> SubSeq(v.was, 1, n)])
    /\ UNCHANGED <<arrays, maps, indexes>>

\* What an index view reads: the entries inserted before its size was reached.
Entries(x) == {[key |-> maps[x.map][i].key, value |-> maps[x.map][i].value] : i \in 1 .. x.size}
Entry(x, k) == {e \in Entries(x) : e.key = k}

\* set: an entry that is there is replaced in a copy, at its place.
set(x, k, value) ==
    LET current == Entry(x, k)
        new == [key |-> k, value |-> value]
        is == (Entries(x) \ current) \cup {new}
        copy == IF current = {} THEN Append(SubSeq(maps[x.map], 1, x.size), new)
                ELSE [i \in 1 .. x.size |-> IF maps[x.map][i].key = k THEN new ELSE maps[x.map][i]]
    IN  /\ Len(indexes) < MaxViews
        /\ current # {new}
        /\ IF current = {} /\ x.size > 0 /\ Len(maps[x.map]) = x.size
           THEN /\ maps' = [maps EXCEPT ![x.map] = Append(@, new)]
                /\ indexes' = Append(indexes, [map |-> x.map, size |-> x.size + 1, was |-> is])
           ELSE /\ maps' = Append(maps, copy)
                /\ indexes' = Append(indexes, [map |-> Len(maps) + 1, size |-> Len(copy), was |-> is])
        /\ UNCHANGED <<arrays, views>>

ViewsInit ==
    /\ arrays = <<<<>>>> /\ views = <<[array |-> 1, length |-> 0, was |-> <<>>]>>
    /\ maps = <<<<>>>> /\ indexes = <<[map |-> 1, size |-> 0, was |-> {}]>>

ViewsNext ==
    \/ \E i \in DOMAIN views, item \in Values : append(views[i], item)
    \/ \E i \in DOMAIN views : \E n \in 0 .. views[i].length : take(views[i], n)
    \/ \E i \in DOMAIN indexes, k \in ViewKeys, value \in Values : set(indexes[i], k, value)

ViewsSpec == ViewsInit /\ [][ViewsNext]_viewVars

-----------------------------------------------------------------------------
(* Properties *)

\* A view never changes: whatever is appended to it, to its branches and to what it was taken
\* from, it reads what it read when it was made.
ViewsFixed ==
    /\ \A i \in DOMAIN views : Items(views[i]) = views[i].was
    /\ \A i \in DOMAIN indexes :
         Entries(indexes[i]) = indexes[i].was /\ \A k \in ViewKeys : Cardinality(Entry(indexes[i], k)) <= 1
=============================================================================
