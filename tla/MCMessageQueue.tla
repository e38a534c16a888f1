--------------------------- MODULE MCMessageQueue ---------------------------
(***************************************************************************)
(* MessageQueue for TLC: the scenarios, each small enough and together       *)
(* with every kind of thread, of ending a wait and of queue but "named".     *)
(***************************************************************************)
EXTENDS MessageQueue, TLC

CONSTANTS r1, r2, w1, w2, d, a, b

\* Threads that are not named make no calls.
Calls(f) == [t \in Threads |-> IF t \in DOMAIN f THEN f[t] ELSE 0]

\* Two readers with patterns, one of which takes what the other has rejected.
Patterned == [kind |-> "anonymous", terms |-> {a, b}, wanted |-> {a, b, Unbound},
              timed |-> {r1, w1}, bound |-> Calls(r1 :> 1 @@ r2 :> 1 @@ w1 :> 2),
              signals |-> 0]

\* Two readers, of which one may leave on a signal or at its deadline.
Interrupted == [Patterned EXCEPT !.terms = {a}, !.wanted = {a, Unbound}, !.signals = 1]

\* Two senders that wait for room.
Crowded == [Interrupted EXCEPT !.bound = Calls(r1 :> 1 @@ w1 :> 2 @@ w2 :> 2),
                               !.signals = 0]

\* The queue is destroyed while others use it, or its owner ends.
Destroyed == [Crowded EXCEPT !.bound = Calls(r1 :> 1 @@ w1 :> 1 @@ w2 :> 1 @@ d :> 1)]
OwnerEnds == [Destroyed EXCEPT !.kind = "thread", !.signals = 1]

Passing == {Patterned, Interrupted, Crowded, Destroyed, OwnerEnds}
SenderUnlocked == {[Crowded EXCEPT !.bound = Calls(r1 :> 1 @@ w1 :> 1 @@ w2 :> 1),
                                   !.signals = 1]}
NamedFreed == {[Destroyed EXCEPT !.kind = "named",
                                 !.bound = Calls(r1 :> 1 @@ w1 :> 1 @@ d :> 1)]}

\* A message that waits for room may be overtaken by one sent later, while one
\* reader makes room and another rejects what it finds.
Overtaking == [Patterned EXCEPT !.wanted = {a, b}, !.timed = {},
                  !.bound = Calls(r1 :> 2 @@ r2 :> 1 @@ w1 :> 3 @@ w2 :> 1)]

\* Which of the messages a reader gets, also when it may give up, ...
Choosing == [Patterned EXCEPT !.bound = Calls(r1 :> 1 @@ r2 :> 1 @@ w1 :> 3)]
GivingUp == [Patterned EXCEPT !.bound = Calls(r1 :> 2 @@ w1 :> 3), !.signals = 1]

\* ... and when the queue is destroyed.
Closing == [Destroyed EXCEPT !.terms = {a, b}, !.wanted = {a, b},
                  !.bound = Calls(r1 :> 1 @@ w1 :> 2 @@ w2 :> 2 @@ d :> 1)]

Ordering == {Overtaking, Choosing, GivingUp, Closing}
=============================================================================
