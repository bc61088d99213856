------------------------------ MODULE Messages ------------------------------
(***************************************************************************)
(* message.c: messages over the one FIFO every program shares, announced   *)
(* with SIGUSR1.  A call of message_send(), message_wait() or              *)
(* message_read() by p is the record lib[p]: `at' is where it stands,      *)
(* `pid' its argument, and `status' or `msg' what it returned once `at' is *)
(* "ret".  Each call is as many steps as it makes system calls or tests    *)
(* and resets of the flags the handler sets, since a signal or another     *)
(* process may come in between.                                            *)
(*                                                                         *)
(*   message_send:  write -> kill -> ret                                   *)
(*   message_wait:  check -> read, or check -> suspend -> asleep -> check  *)
(*   message_read:  read -> reset -> ret                                   *)
(*                                                                         *)
(* A text is read a character at a time.  Nobody can tell as long as the   *)
(* reader is alone and not about to be killed: it then takes the whole     *)
(* text in one step, since its read()s commute with all that the others    *)
(* do.  Otherwise a step takes one atom.                                   *)
(***************************************************************************)
EXTENDS Kernel

VARIABLES
  fifo,      \* what is in the FIFO, oldest first, each text with its addressee
  linked     \* whether the FIFO has its name in the directory

\* `to' is not in the FIFO: it records whom the text was written for.
Letter(to, text) == [to |-> to, text |-> text]

CallPoints == {"ret", "write", "kill", "check", "suspend", "asleep", "read", "reset"}

-----------------------------------------------------------------------------
(***************************************************************************)
(* Starting a call; each is the new value of lib[p].                       *)
(***************************************************************************)
message_send(p, to, type, content) ==
  [lib[p] EXCEPT !.at = "write", !.pid = to, !.msg = NULL,
                 !.text = MessageText(p, type, content)]

\* Mutant: a message is read without waiting for its announcement.
message_wait_unannounced(p, from) ==
  [lib[p] EXCEPT !.at = "read", !.pid = from, !.msg = NULL, !.text = <<>>]

message_wait(p, from) ==
  [lib[p] EXCEPT !.at = "check", !.pid = from, !.msg = NULL, !.text = <<>>]

message_read(p) ==
  [lib[p] EXCEPT !.at = "read", !.pid = NoPid, !.msg = NULL, !.text = <<>>]

\* p is at a point of its program and its last call has returned.
Ready(p, point) == pc[p] = point /\ lib[p].at = "ret"

-----------------------------------------------------------------------------
\* The write() of message_send(), to a FIFO that has room for the text.
WriteText(p) ==
  /\ lib[p].at = "write"
  /\ fifo' = Append(fifo, Letter(lib[p].pid, lib[p].text))
  /\ lib' = [lib EXCEPT ![p].at = "kill", ![p].text = <<>>]
  /\ UNCHANGED <<pc, mem, sig, parent, nextPid>>

\* The text stays in the FIFO when there is nobody left to notify.
NotifyReceiver(p) ==
  /\ lib[p].at = "kill"
  /\ PostUsr1(lib[p].pid, p)
  /\ lib' = [lib EXCEPT ![p].at = "ret", ![p].pid = NoPid,
                        ![p].status = IF Exists(lib[p].pid) THEN 0 ELSE -1]
  /\ UNCHANGED <<pc, mem, parent, nextPid, fifo>>

\* set_unread_flag(), the handler of SIGUSR1.
set_unread_flag(p) ==
  /\ Alive(p)
  /\ sig[p].usr1 # NoPid
  /\ sig' = [sig EXCEPT ![p].usr1 = NoPid]
  /\ lib' = [lib EXCEPT ![p].unread_flag = TRUE,
                        ![p].message_sender = sig[p].usr1,
                        ![p].at = WokenAt(@)]
  /\ \E point \in AfterSignal(p) : pc' = [pc EXCEPT ![p] = point]
  /\ UNCHANGED <<mem, parent, nextPid, fifo>>

\* The loop condition of message_wait().
Announced(p) == lib[p].unread_flag /\ lib[p].pid \in {lib[p].message_sender, -1}

CheckFlags(p) ==
  /\ lib[p].at = "check"
  /\ lib' = [lib EXCEPT ![p].at = IF Announced(p) THEN "read" ELSE "suspend"]
  /\ UNCHANGED <<pc, mem, sig, parent, nextPid, fifo>>

\* sigsuspend() with an empty mask: SIGUSR1 was never blocked, so one that
\* has been handled since the check is not noticed here.
Suspend(p) ==
  /\ lib[p].at = "suspend"
  /\ lib' = [lib EXCEPT ![p].at = "asleep"]
  /\ UNCHANGED <<pc, mem, sig, parent, nextPid, fifo>>

\* Nobody else reads, and no signal will kill p or make it exit.
Undisturbed(p) ==
  /\ \A q \in Pid \ {p} : lib[q].at # "read"
  /\ ~Interrupted(p)
  /\ pc[p] \in ManagerPoints => sig[p].term = NoPid

\* An empty FIFO gives NULL and leaves the flags alone.
ReadNothing(p) ==
  /\ lib' = [lib EXCEPT ![p].at = "ret", ![p].pid = NoPid, ![p].text = <<>>, ![p].msg = NULL]
  /\ UNCHANGED fifo

\* The rest of the oldest text, up to and with its null character.
ReadToEnd(p) ==
  LET text == lib[p].text \o Head(fifo).text
  IN  /\ lib' = [lib EXCEPT ![p].at = "reset", ![p].text = text, ![p].msg = MessageOf(text)]
      /\ fifo' = Tail(fifo)

ReadAtom(p) ==
  LET first == Head(fifo)
  IN  /\ lib' = [lib EXCEPT ![p].text = Append(@, Head(first.text))]
      /\ fifo' = <<Letter(first.to, Tail(first.text))>> \o Tail(fifo)

ReadText(p) ==
  /\ lib[p].at = "read"
  /\ CASE fifo = <<>> -> ReadNothing(p)
       [] fifo # <<>> /\ (Undisturbed(p) \/ Head(fifo).text = <<>>) -> ReadToEnd(p)
       [] OTHER -> ReadAtom(p)
  /\ UNCHANGED <<pc, mem, sig, parent, nextPid>>

\* Mutant: message_sender is reset to 0.
ResetFlags_zero(p) ==
  /\ lib[p].at = "reset"
  /\ lib' = [lib EXCEPT ![p].at = "ret", ![p].pid = NoPid, ![p].text = <<>>,
                        ![p].unread_flag = FALSE, ![p].message_sender = 0]
  /\ UNCHANGED <<pc, mem, sig, parent, nextPid, fifo>>

\* Mutant: the flags are not reset.
ResetFlags_forgotten(p) ==
  /\ lib[p].at = "reset"
  /\ lib' = [lib EXCEPT ![p].at = "ret", ![p].pid = NoPid, ![p].text = <<>>]
  /\ UNCHANGED <<pc, mem, sig, parent, nextPid, fifo>>

\* reset_unread_flag() and set_message_sender(-1), before returning.
ResetFlags(p) ==
  /\ lib[p].at = "reset"
  /\ lib' = [lib EXCEPT ![p].at = "ret", ![p].pid = NoPid, ![p].text = <<>>,
                        ![p].unread_flag = FALSE, ![p].message_sender = NoPid]
  /\ UNCHANGED <<pc, mem, sig, parent, nextPid, fifo>>

MessageStep(p) ==
  \/ WriteText(p)
  \/ NotifyReceiver(p)
  \/ CheckFlags(p)
  \/ Suspend(p)
  \/ ReadText(p)
  \/ ResetFlags(p)

LetterType == [to : Nat, text : Str]

LibType ==
  [unread_flag : BOOLEAN, message_sender : Pid \union {NoPid}, at : CallPoints,
   pid : Nat \union {NoPid}, text : Str, status : {0, -1}, msg : Message \union {NULL}]
=============================================================================
