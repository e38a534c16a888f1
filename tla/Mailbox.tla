------------------------------ MODULE Mailbox ------------------------------
(***************************************************************************)
(* What a Prolog message queue promises to the threads that share it: a    *)
(* bounded sequence of terms to which a sender appends, from which a        *)
(* receiver takes the oldest term that unifies with its pattern, and that   *)
(* takes and gives nothing once it is closed; a call that does not succeed  *)
(* has no effect.  Mutexes, condition variables, waiting and storage are    *)
(* the business of MessageQueue, which implements this specification.       *)
(***************************************************************************)
EXTENDS Naturals, Sequences

CONSTANTS Senders, Receivers,  \* the threads
          Terms,     \* the messages
          Unbound,   \* the pattern that is an unbound variable
          MaxSize    \* the option max_size(N); 0 stands for no bound

VARIABLES contents,  \* the terms that are in the queue, oldest first
          open,      \* FALSE once the queue has been destroyed
          arg,       \* the message or pattern of each thread's call
          done       \* the threads whose call has succeeded

vars == <<contents, open, arg, done>>

Users == Senders \cup Receivers
Patterns == Terms \cup {Unbound}

\* PL_unify() of a receiver's pattern and a ground message.
Unifies(p, m) == p = Unbound \/ p = m

\* The places of the terms in the sequence s that unify with p.
Matches(s, p) == {i \in 1..Len(s) : Unifies(p, s[i])}

Init == contents = <<>> /\ open = TRUE /\ arg = [u \in Users |-> Unbound] /\ done = {}

\* A thread makes a call, or its call returns.
Ask(u) == /\ \E p \in Patterns : arg' = [arg EXCEPT ![u] = p]
          /\ done' = done \ {u}
          /\ UNCHANGED <<contents, open>>

\* The call of u succeeds, as one call does once.
Succeed(u) == open /\ u \notin done /\ done' = done \cup {u} /\ UNCHANGED <<open, arg>>

Send(u) == /\ Succeed(u)
           /\ MaxSize = 0 \/ Len(contents) < MaxSize
           /\ contents' = Append(contents, arg[u])

Receive(u) ==
    /\ Succeed(u)
    /\ \E i \in Matches(contents, arg[u]) :
          /\ \A j \in Matches(contents, arg[u]) : i <= j
          /\ contents' = SubSeq(contents, 1, i - 1)
                           \o SubSeq(contents, i + 1, Len(contents))

\* A receiver looks whether there is a term for it, and leaves it there.
Look(u) == /\ Succeed(u)
           /\ Matches(contents, arg[u]) # {}
           /\ UNCHANGED contents

Close == open' = FALSE /\ contents' = <<>> /\ UNCHANGED <<arg, done>>

Next == \/ \E u \in Users : Ask(u)
        \/ \E u \in Senders : Send(u)
        \/ \E u \in Receivers : Receive(u) \/ Look(u)
        \/ Close

Spec == Init /\ [][Next]_vars
=============================================================================
