---------------------------- MODULE SnapshotStore ----------------------------
(***************************************************************************)
(* What marks promise to those who set them: a memory that can be put back *)
(* to what it was.  There is no trail and no bar here; a mark is a copy of *)
(* the memory, and undoing it copies back.                                 *)
(***************************************************************************)
EXTENDS Naturals, Sequences

CONSTANTS Addr, lBase, Word

VARIABLES
  store,  \* the memory
  top,    \* the first free word below lBase
  snaps   \* the copies, oldest first

vars == <<store, top, snaps>>

\* The words that existed when the top was t.
Existed(t) == { a \in Addr : a < t \/ a >= lBase }

Copy(m, t) == [top |-> t, snap |-> m]

\* One word changes, and one may be taken.
Write ==
  /\ \E w \in Existed(top) \cup {top} :
       \A a \in Existed(top) : a # w => store'[a] = store[a]
  /\ top' \in {top, top + 1}
  /\ UNCHANGED snaps

Save ==
  /\ snaps' = Append(snaps, Copy(store, top))
  /\ UNCHANGED <<store, top>>

\* The copies from some position on are dropped.
Forget ==
  /\ \E n \in 1 .. Len(snaps) : snaps' = SubSeq(snaps, 1, n)
  /\ UNCHANGED <<store, top>>

\* What existed when copy i was made is as it was then.  The copy is used up,
\* or kept, or kept with a new one on top of it.
Restore ==
  \E i \in 1 .. Len(snaps) :
    /\ top' >= snaps[i].top
    /\ \A a \in Existed(snaps[i].top) : store'[a] = snaps[i].snap[a]
    /\ snaps' \in { SubSeq(snaps, 1, i - 1), SubSeq(snaps, 1, i),
                    Append(SubSeq(snaps, 1, i), Copy(store', top')) }

Init ==
  /\ store \in [Addr -> Word]
  /\ top = 0
  /\ snaps = <<Copy(store, top)>>

Next == Write \/ Save \/ Forget \/ Restore

Spec == Init /\ [][Next]_vars

=============================================================================
