----------------------------- MODULE ClientQueue -----------------------------
(***************************************************************************)
(* What GameServer promises a client about his messages: they are handled  *)
(* one at a time, in the order in which they were accepted.                *)
(***************************************************************************)
EXTENDS Sequences

CONSTANTS Clients, Messages, Nobody

VARIABLES
  waiting,      \* waiting[c]: accepted messages of client c, the oldest first
  busy          \* busy[c]: the message being handled, or Nobody

Init ==
  /\ waiting = [c \in Clients |-> <<>>]
  /\ busy = [c \in Clients |-> Nobody]

Accept(c, m) ==
  /\ waiting' = [waiting EXCEPT ![c] = Append(@, m)]
  /\ UNCHANGED busy

Begin(c) ==
  /\ busy[c] = Nobody
  /\ waiting[c] # <<>>
  /\ busy' = [busy EXCEPT ![c] = Head(waiting[c])]
  /\ waiting' = [waiting EXCEPT ![c] = Tail(@)]

End(c) ==
  /\ busy[c] # Nobody
  /\ busy' = [busy EXCEPT ![c] = Nobody]
  /\ UNCHANGED waiting

Next == \E c \in Clients : (\E m \in Messages : Accept(c, m)) \/ Begin(c) \/ End(c)

Spec == Init /\ [][Next]_<<waiting, busy>>
=============================================================================
