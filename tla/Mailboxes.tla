----------------------------- MODULE Mailboxes -----------------------------
(***************************************************************************)
(* What message.c promises its callers: that every process has a mailbox   *)
(* of its own.  A message goes to the end of the box of the process it is  *)
(* sent to; that process alone takes messages out, whole, in the order in  *)
(* which they were sent and each of them once.  The programs get this from *)
(* one FIFO that all of them read, as far as their calls and signals come  *)
(* in the right order (module MCShell).                                    *)
(***************************************************************************)
EXTENDS Naturals, Sequences

CONSTANTS
  Process,   \* those who have a mailbox
  Nothing    \* no message

VARIABLES
  box,       \* messages sent to each process and not yet received, oldest first
  got        \* the message each process has received and not yet decoded

mailVars == <<box, got>>

Init ==
  /\ box = [p \in Process |-> <<>>]
  /\ got = [p \in Process |-> Nothing]

\* One more message, the last one of the new box.
Send(to) ==
  /\ Len(box'[to]) = Len(box[to]) + 1
  /\ box' = [box EXCEPT ![to] = Append(@, box'[to][Len(@) + 1])]
  /\ UNCHANGED got

Receive(p) ==
  /\ got[p] = Nothing
  /\ box[p] # <<>>
  /\ got' = [got EXCEPT ![p] = Head(box[p])]
  /\ box' = [box EXCEPT ![p] = Tail(@)]

Release(p) ==
  /\ got[p] # Nothing
  /\ got' = [got EXCEPT ![p] = Nothing]
  /\ UNCHANGED box

Next == \E p \in Process : Send(p) \/ Receive(p) \/ Release(p)

Spec == Init /\ [][Next]_mailVars
=============================================================================
