------------------------------ MODULE Tokenizer ------------------------------
(***************************************************************************)
(* The loop of tokenize() in common.c, one iteration a step: strtok()      *)
(* gives the next token and the token is written to an array that doubles  *)
(* when full and is cut to size at the end.  The result is compared with   *)
(* the declarative tokenize() of module Wire, on which the decoders of     *)
(* messages and nodes rest; they are checked here for the same strings.    *)
(***************************************************************************)
EXTENDS Wire, SequencesExt

CONSTANTS
  MaxLen,     \* bound: length of the strings
  Unset       \* content of a slot of the array that was never written

\* What was never written is no string.
ASSUME UnsetAssumption == Unset \notin Str

ASSUME MaxLenAssumption == MaxLen \in Nat

VARIABLES
  str,             \* the string
  delim,           \* the delimiter
  rest,            \* first position strtok() has not looked at
  current_token,   \* what it returned last
  tokens,          \* the slots of the array
  tokens_count,
  done

vars == <<str, delim, rest, current_token, tokens, tokens_count, done>>

tokens_size == Len(tokens)

Strings == SeqOf(Words \union {Colon, Semi}, MaxLen)

\* strtok(): the token that starts at the first non-delimiter from position k
\* on, and where to go on after it; the delimiter that ends it is consumed.
strtok(s, d, k) ==
  LET starts == {i \in k..Len(s) : s[i] # d}
      start  == Min(starts)
      ends   == {i \in start..Len(s) : s[i] = d}
      end    == IF ends = {} THEN Len(s) + 1 ELSE Min(ends)
  IN  IF starts = {} THEN [token |-> NULL, rest |-> Len(s) + 1]
      ELSE [token |-> SubSeq(s, start, end - 1), rest |-> end + 1]

Init ==
  /\ str \in Strings
  /\ delim \in {Colon, Semi}
  /\ LET first == strtok(str, delim, 1)
     IN  current_token = first.token /\ rest = first.rest
  /\ tokens = <<>>
  /\ tokens_count = 0
  /\ done = FALSE

\* Mutant: the array grows one token too late.
Grown_late == IF tokens_count > tokens_size
              THEN tokens \o [i \in 1..(IF tokens_size = 0 THEN 2 ELSE tokens_size) |-> Unset]
              ELSE tokens

Grown == IF tokens_count = tokens_size
         THEN tokens \o [i \in 1..(IF tokens_size = 0 THEN 2 ELSE tokens_size) |-> Unset]
         ELSE tokens

\* One iteration of the loop.
AddToken ==
  /\ current_token # NULL
  /\ tokens' = [Grown EXCEPT ![tokens_count + 1] = current_token]
  /\ tokens_count' = tokens_count + 1
  /\ LET next == strtok(str, delim, rest)
     IN  current_token' = next.token /\ rest' = next.rest
  /\ UNCHANGED <<str, delim, done>>

\* Mutant: the array keeps its size.
Shrink_not ==
  /\ current_token = NULL
  /\ ~done
  /\ done' = TRUE
  /\ UNCHANGED <<str, delim, rest, current_token, tokens, tokens_count>>

\* The array is cut to the tokens found.
Shrink ==
  /\ current_token = NULL
  /\ ~done
  /\ tokens' = IF tokens_count < tokens_size THEN SubSeq(tokens, 1, tokens_count) ELSE tokens
  /\ done' = TRUE
  /\ UNCHANGED <<str, delim, rest, current_token, tokens_count>>

Next == AddToken \/ Shrink

Spec == Init /\ [][Next]_vars

-----------------------------------------------------------------------------
\* What tokenize() returns is what the other modules take it to return, and
\* no slot of the array it returns is left unwritten.
TokensRight == done => tokens = tokenize(str, delim) /\ tokens_count = Len(tokens)

\* Every write falls into the allocated part of the array.
WithinArray == tokens_count <= tokens_size /\ \A i \in 1..tokens_count : tokens[i] # Unset

\* The node of a process and the message that carries it decode to what was
\* encoded exactly when the name has no delimiter of its own; ';' at either
\* end of a name is dropped silently, and any other one makes the node NULL.
NodeRoundTrip ==
  LET info == proc_node_fromstr(proc_node_tostr(2, 1, str))
      clean == \A i \in 1..Len(str) : str[i] # Semi
  IN  /\ str # <<>> /\ clean <=> info = [pid |-> 2, ppid |-> 1, name |-> str]
      /\ info # NULL /\ ~clean => Semi \in {str[1], str[Len(str)]}

\* A message decodes exactly when one field is left of its content, and
\* keeps the content when that has no ':'.
MessageRoundTrip ==
  LET msg == MessageOf(MessageText(3, MSG_INFO, str))
      clean == \A i \in 1..Len(str) : str[i] # Colon
  IN  /\ str # <<>> /\ clean <=> msg = [sender |-> 3, type |-> MSG_INFO, content |-> str]
      /\ msg = NULL <=> Len(tokenize(str, Colon)) # 1

\* What is encoded and decoded comes back as it was, whole, or not at all, but
\* for the ';' at an end of a name.
RoundTrips == NodeRoundTrip /\ MessageRoundTrip
=============================================================================
