-------------------------------- MODULE Fifo --------------------------------
(***************************************************************************)
(* What queues promise: the items of each come out in the order they went  *)
(* in, except those that were sent to the front, and one that was sent     *)
(* over the last.  One step may work on two: a queue set is sent the       *)
(* handle of the queue that was sent an item.                              *)
(***************************************************************************)
EXTENDS Integers, Sequences

CONSTANTS Queues, Items

VARIABLES contents, delivered, length

Init ==
    /\ contents = [x \in Queues |-> <<>>]
    /\ delivered \in [Queues -> Items]

\* One item goes to the front, or one to the back: or several, as a queue set
\* may be sent at once the handles that were counted in the lock of a member.
Send(x) ==
    /\ \/ \E item \in Items : contents'[x] = <<item>> \o contents[x]
       \/ /\ Len(contents'[x]) > Len(contents[x])
          /\ \A i \in 1 .. Len(contents[x]) : contents'[x][i] = contents[x][i]
          /\ \A i \in 1 .. Len(contents'[x]) : contents'[x][i] \in Items
    /\ Len(contents'[x]) <= length[x]
    /\ delivered'[x] = delivered[x]

Overwrite(x) ==
    /\ length[x] = 1
    /\ \E item \in Items : contents'[x] = <<item>>
    /\ delivered'[x] = delivered[x]

Receive(x) ==
    /\ contents[x] # <<>>
    /\ contents'[x] = Tail(contents[x])
    /\ delivered'[x] = Head(contents[x])

Peek(x) ==
    /\ contents[x] # <<>>
    /\ contents'[x] = contents[x]
    /\ delivered'[x] = Head(contents[x])

Reset(x) == contents'[x] = <<>> /\ delivered'[x] = delivered[x]

Idles(x) == contents'[x] = contents[x] /\ delivered'[x] = delivered[x]

Next ==
    /\ \A x \in Queues :
         Send(x) \/ Overwrite(x) \/ Receive(x) \/ Peek(x) \/ Reset(x) \/ Idles(x)
    /\ UNCHANGED length

Spec == Init /\ [][Next]_<<contents, delivered, length>>

=============================================================================
