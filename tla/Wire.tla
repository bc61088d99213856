-------------------------------- MODULE Wire --------------------------------
(***************************************************************************)
(* The strings CustomShell's programs exchange, and the conversions they   *)
(* go through.  A string is a sequence of atoms: the words a name or a     *)
(* message field is made of, the numbers printed by asprintf(), and the    *)
(* two delimiters that the decoders give a meaning to.  How a word is      *)
(* spelled never matters to the code, so words are opaque; where the       *)
(* delimiters fall does matter, so the tokenizer is modelled exactly.      *)
(*                                                                         *)
(*   common.c     tokenize()                                               *)
(*   message.c    the "<pid_sender>:<type>:<content>" text                 *)
(*   proc_tree.c  the "<pid>;<ppid>;<name>" text of a node                 *)
(***************************************************************************)
EXTENDS Naturals, Sequences, FiniteSets

CONSTANTS
  Words,    \* the words that names are made of
  Colon,    \* ':', which separates the fields of a message
  Semi,     \* ';', which separates the fields of a node
  Pad,      \* a content nobody looks into: "NULL" and the error texts
  NULL,     \* the null pointer
  MSG_ADD, MSG_REMOVE, MSG_INFO, MSG_ERROR, MSG_SUCCESS, MSG_LIST, MSG_SPAWN

MsgType == {MSG_ADD, MSG_REMOVE, MSG_INFO, MSG_ERROR, MSG_SUCCESS, MSG_LIST, MSG_SPAWN}

Atom == Words \union {Colon, Semi, Pad} \union MsgType \union Nat
Str  == Seq(Atom)

\* No string is at the null pointer; a delimiter is neither a digit, a type nor a
\* padding, and the types that matter are not taken for others.
ASSUME NullAssumption == NULL \notin Str

ASSUME AtomAssumption ==
  /\ Colon # Semi
  /\ \A c \in {Colon, Semi} : c \notin MsgType \union Nat \union {Pad}
  /\ MSG_ADD \notin {MSG_REMOVE, MSG_INFO, MSG_ERROR, MSG_SUCCESS, MSG_LIST, MSG_SPAWN}
  /\ MSG_LIST \notin {MSG_REMOVE, MSG_INFO, MSG_ERROR, MSG_SUCCESS, MSG_SPAWN}
  /\ MSG_SUCCESS \notin {MSG_INFO, MSG_ERROR}
  /\ MSG_REMOVE \notin {MSG_INFO, MSG_ERROR, MSG_SUCCESS}
  /\ MSG_INFO # MSG_ERROR
  /\ MSG_SPAWN \notin {MSG_REMOVE, MSG_INFO, MSG_ERROR, MSG_SUCCESS}

-----------------------------------------------------------------------------
(***************************************************************************)
(* tokenize(): the maximal runs of non-delimiters, in order.  strtok()     *)
(* skips leading, trailing and repeated delimiters, so an empty field      *)
(* never shows up in the result.                                           *)
(***************************************************************************)
TokenStarts(str, delim) ==
  {i \in 1..Len(str) : str[i] # delim /\ (i = 1 \/ str[i-1] = delim)}

TokenEnd(str, delim, i) ==
  CHOOSE j \in i..Len(str) :
    /\ \A k \in i..j : str[k] # delim
    /\ j = Len(str) \/ str[j+1] = delim

\* The element of S that has k-1 smaller ones in S.
Nth(S, k) == CHOOSE i \in S : Cardinality({j \in S : j < i}) = k - 1

tokenize(str, delim) ==
  LET starts == TokenStarts(str, delim)
  IN  [k \in 1..Cardinality(starts) |->
         LET i == Nth(starts, k) IN SubSeq(str, i, TokenEnd(str, delim, i))]

\* atol() of a field: the number it starts with, or 0.  Two numbers that have
\* run together when a text was torn make a third, far from any pid.
atol(field) ==
  CASE field[1] \notin Nat                        -> 0
    [] Len(field) > 1 /\ {field[1], field[2]} \subseteq Nat -> 1000 * field[1] + field[2]
    [] OTHER                                      -> field[1]

\* The type of a message is compared as a whole.
TypeOf(field) == IF Len(field) = 1 THEN field[1] ELSE Pad

-----------------------------------------------------------------------------
(***************************************************************************)
(* Messages.                                                               *)
(***************************************************************************)
Message == [sender : Nat, type : Atom, content : Str]

\* The text message_send() writes; a NULL content is padded.
MessageText(sender, type, content) ==
  <<sender, Colon, type, Colon>> \o content

\* Mutant: more than three fields are accepted.
MessageOf_lenient(text) ==
  LET fields == tokenize(text, Colon)
  IN  IF Len(fields) >= 3
      THEN [sender |-> atol(fields[1]), type |-> TypeOf(fields[2]), content |-> fields[3]]
      ELSE NULL

\* What message_read() makes of a text: NULL unless it has three fields.
MessageOf(text) ==
  LET fields == tokenize(text, Colon)
  IN  IF Len(fields) = 3
      THEN [sender |-> atol(fields[1]), type |-> TypeOf(fields[2]), content |-> fields[3]]
      ELSE NULL

-----------------------------------------------------------------------------
(***************************************************************************)
(* Nodes of the process tree, as they travel.                              *)
(***************************************************************************)
ProcInfo == [pid : Nat, ppid : Nat, name : Str]

proc_node_tostr(pid, ppid, name) == <<pid, Semi, ppid, Semi>> \o name

\* Mutant: whatever follows the second ';' is taken as the name.
proc_node_fromstr_greedy(str) ==
  LET fields == tokenize(str, Semi)
  IN  IF Len(fields) >= 3
      THEN [pid |-> atol(fields[1]), ppid |-> atol(fields[2]), name |-> SubSeq(str, 5, Len(str))]
      ELSE NULL

proc_node_fromstr(str) ==
  LET fields == tokenize(str, Semi)
  IN  IF Len(fields) = 3
      THEN [pid |-> atol(fields[1]), ppid |-> atol(fields[2]), name |-> fields[3]]
      ELSE NULL

\* Nor is a message or a node at the null pointer.
ASSUME NullRecordAssumption == NULL \notin Message \union ProcInfo

\* The name child_clone() gives to the i-th clone, "<name>_<i>".
CloneName(name, i) == Append(name, i)

\* A name the two decoders hand back unchanged.
CleanName(name) == Len(name) > 0 /\ \A i \in 1..Len(name) : name[i] \notin {Colon, Semi}
=============================================================================
