------------------------------- MODULE Detokenizer -------------------------------
(***************************************************************************)
(* Incremental decoding (tokenizer/detokenize.py) as _decode_stream of     *)
(* server/generation.py drives it: one id at a time, each answered with    *)
(* the text that has become printable.                                     *)
(*                                                                         *)
(* Text is a sequence of characters.  A token is the bytes it stands for:  *)
(* a character that is one byte is that byte, and "e1" and "e2" are the    *)
(* two halves of the character "E"; a half without the other decodes to    *)
(* U+FFFD, written "FFFD".                                                 *)
(***************************************************************************)
EXTENDS Integers, Sequences, FiniteSets, FiniteSetsExt, SequencesExt

CONSTANTS
  Tokens,       \* ids of the vocabulary
  Bytes,        \* the bytes of each token
  StripsSpace,  \* whether decode drops a leading space, as sentencepiece does
  StopStrs,     \* stop strings of the manager
  MaxIds        \* bound on the ids of one reply

\* What the constants have to satisfy.
DetokenizerAssumption ==
  /\ DOMAIN Bytes = Tokens
  /\ StripsSpace \in BOOLEAN
  /\ <<>> \notin StopStrs
  /\ MaxIds \in Nat

VARIABLES
  phase,  \* of the one decode context: "none", "open", "deleted"
  state,  \* its _DecodeState
  sent    \* the deltas the client has received, joined

vars == <<phase, state, sent>>

Space == "sp"
Blank == {Space}

\* tokenizer.decode: the bytes of the tokens, joined and read as text.
DecodeBytes(bytes) ==
  LET Join(text, b) == IF b = "e2" /\ text # <<>> /\ Last(text) = "e1"
                       THEN Append(Front(text), "E")
                       ELSE Append(text, b)
      joined == FoldLeft(Join, <<>>, bytes)
  IN  [i \in DOMAIN joined |-> IF joined[i] \in {"e1", "e2"} THEN "FFFD" ELSE joined[i]]

Decode(ids) ==
  LET text == DecodeBytes(FlattenSeq([i \in DOMAIN ids |-> Bytes[ids[i]]]))
  IN  IF StripsSpace /\ text # <<>> /\ Head(text) = Space THEN Tail(text) ELSE text

NewState == [ids |-> <<>>, str |-> <<>>, read |-> 0, surr |-> 0, sent |-> 0]

Drop(s, n) == SubSeq(s, n + 1, Len(s))

\* Leading blanks of a text that cannot be accepted yet are not shown.
FindPrintable(text) ==
  LET printable == {i \in DOMAIN text : text[i] \notin Blank}
  IN  IF printable = {} THEN <<>> ELSE SubSeq(text, Min(printable), Len(text))

\* A bug: a suffix that is the whole of a stop string is held back as well.
StopHoldbackSlip(text) ==
  LET held == {n \in 1..Len(text) :
                 \E stop \in StopStrs : IsPrefix(Drop(text, Len(text) - n), stop)}
  IN  IF held = {} THEN 0 ELSE Max(held)

\* The longest suffix of text that begins a stop string without completing it.
StopHoldback(text) ==
  LET held == {n \in 1..Len(text) :
                 \E stop \in StopStrs :
                    Len(stop) > n /\ IsPrefix(Drop(text, Len(text) - n), stop)}
  IN  IF held = {} THEN 0 ELSE Max(held)

\* What the ids say after the text of the ids accepted last.
NewText(s) ==
  Drop(Decode(Drop(s.ids, s.surr)), Len(Decode(SubSeq(s.ids, s.surr + 1, s.read))))

\* The new text is stable: it joins the decoded text and the offsets move on.
Accept(s, text) ==
  [s EXCEPT !.str = @ \o text, !.surr = s.read, !.read = Len(s.ids)]

-----------------------------------------------------------------------------

Init ==
  /\ phase = "none"
  /\ state = NewState
  /\ sent = <<>>

\* create(uid)
Create ==
  /\ phase = "none"
  /\ phase' = "open"
  /\ state' = NewState
  /\ UNCHANGED sent

\* update(uid, [token])
Update(token) ==
  /\ phase = "open"
  /\ Len(state.ids) < MaxIds
  /\ LET s      == [state EXCEPT !.ids = Append(@, token)]
         text   == NewText(s)
         stable == text # <<>> /\ Last(text) # "FFFD"
         next   == IF stable THEN Accept(s, text) ELSE s
         output == IF stable THEN next.str ELSE s.str \o FindPrintable(text)
         end    == Len(output) - StopHoldback(output)
     IN  /\ state' = [next EXCEPT !.sent = IF end > @ THEN end ELSE @]
         /\ sent' = sent \o SubSeq(output, s.sent + 1, end)
  /\ UNCHANGED phase

\* delete(uid), in the finally of _decode_stream: nothing is flushed.
Delete ==
  /\ phase = "open"
  /\ phase' = "deleted"
  /\ UNCHANGED <<state, sent>>

Next == Create \/ (\E token \in Tokens : Update(token)) \/ Delete

Spec == Init /\ [][Next]_vars

-----------------------------------------------------------------------------

TypeOK ==
  /\ phase \in {"none", "open", "deleted"}
  /\ state.ids \in Seq(Tokens)
  /\ 0 <= state.surr /\ state.surr <= state.read /\ state.read <= Len(state.ids)
  /\ state.sent \in Nat

(***************************************************************************)
(* The text that has been accepted is the decode of the ids accepted: the  *)
(* offsets never cut a character in two and never lose or repeat a space   *)
(* that the tokenizer drops in front of a decode.                          *)
(***************************************************************************)
AcceptedIsDecode == state.str = Decode(SubSeq(state.ids, 1, state.read))

\* The last n characters begin a stop string and do not complete it.
MayBecomeStop(text, n) ==
  \E stop \in StopStrs : n < Len(stop) /\ \A i \in 1..n : text[Len(text) - n + i] = stop[i]

\* A blank stands before a half in one token that is not the reply's first.
BlankBeforeHalf ==
  \E i \in 2..Len(state.ids) :
     LET bytes == Bytes[state.ids[i]]
     IN  bytes # <<>> /\ Head(bytes) \in Blank /\ Last(DecodeBytes(bytes)) = "FFFD"

(***************************************************************************)
(* What the client has received is the decode of all the ids, short of the *)
(* tail that may still become a stop string, except that a character cut   *)
(* into two tokens stays the U+FFFD its first half was shown as: update    *)
(* moves sent_offset past it and sends nothing again.  A token of a blank  *)
(* and a half is shown without its blank, which shifts what follows; the   *)
(* length is right again once the ids are accepted.                        *)
(***************************************************************************)
StreamIsMarkedDecode ==
  LET text == Decode(state.ids)
  IN  \E n \in 0..Len(text) :
         /\ n > 0 => MayBecomeStop(text, n)
         /\ \A m \in n + 1..Len(text) : ~MayBecomeStop(text, m)
         /\ (state.read = Len(state.ids) \/ ~BlankBeforeHalf) => Len(sent) = Len(text) - n
         /\ ~BlankBeforeHalf =>
              \A i \in DOMAIN sent :
                 sent[i] = text[i] \/ (sent[i] = "FFFD" /\ text[i] = "E")

(***************************************************************************)
(* "The concatenated stream equals the result of a single greedy decode of *)
(* the full id sequence" (the docstring of DetokenizeManager), once the    *)
(* reply has ended.                                                        *)
(***************************************************************************)
StreamIsDecode == phase = "deleted" => sent = Decode(state.ids)
=============================================================================
