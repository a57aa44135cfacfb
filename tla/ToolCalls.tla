------------------------------- MODULE ToolCalls -------------------------------
(***************************************************************************)
(* The tagged tool-call grammars (server/function_call_parser.py): a       *)
(* generator per stream, over one parser object per family, whose          *)
(* _tool_call_ids every stream of the server shares.                       *)
(*                                                                         *)
(* A reply is a sequence of characters that arrives in chunks, cut         *)
(* anywhere.  A body is JSON when it is in JsonBodies.                     *)
(***************************************************************************)
EXTENDS Integers, Sequences, FiniteSets, FiniteSetsExt, SequencesExt

CONSTANTS
  Streams,
  Replies,       \* the texts the model may generate
  OpenMarker, CloseMarker,
  JsonBodies     \* the bodies that json.loads reads as an object with a name

\* What the constants have to satisfy.
ToolCallsAssumption ==
  /\ OpenMarker # <<>> /\ CloseMarker # <<>>
  /\ \A text \in Replies : text \in Seq(UNION {Range(t) : t \in Replies})

VARIABLES
  text,    \* the reply of every stream
  fed,     \* how many of its characters the parser has been given
  buffer,  \* buffer of the generator
  calls,   \* the calls each stream has yielded; alone tells of those whose
           \* next_id no other ran beside (for the properties)
  ids,     \* _tool_call_ids of the parser object, call_n being n
  drawing  \* how far each stream is in next_id for the body of a block

vars == <<text, fed, buffer, calls, ids, drawing>>

-----------------------------------------------------------------------------

Drop(s, n) == SubSeq(s, n + 1, Len(s))
Take(s, n) == SubSeq(s, 1, n)

\* str.find from a position on: 0 when tag is not there.
Find(s, tag, from) ==
  LET found == {i \in from..Len(s) : IsPrefix(tag, Drop(s, i - 1))}
  IN  IF found = {} THEN 0 ELSE Min(found)

\* A bug: a marker that is cut by the end of the chunk is let go.
TrailingPartialSlip(s, tag) == 0

\* _trailing_partial: the longest suffix that is a proper prefix of tag.
TrailingPartial(s, tag) ==
  Max({0} \cup {n \in 1..Min({Len(s), Len(tag) - 1}) : IsSuffix(Take(tag, n), s)})

\* Between two chunks a stream draws no id.
Idle == [at |-> "chunk", body |-> <<>>, id |-> 0, alone |-> TRUE]

\* The loop of GenericTagParser.parse over the buffer, up to the next block:
\* the text before it is joined to the text after it, and an id is drawn.
Scan(buf) ==
  LET start == Find(buf, OpenMarker, 1)
      body  == start + Len(OpenMarker)
      end   == Find(buf, CloseMarker, body)
  IN  IF start = 0
      THEN [buffer |-> Drop(buf, Len(buf) - TrailingPartial(buf, OpenMarker)), drawing |-> Idle]
      ELSE IF end = 0 THEN [buffer |-> Drop(buf, start - 1), drawing |-> Idle]
      ELSE [buffer  |-> Take(buf, start - 1) \o Drop(buf, end + Len(CloseMarker) - 1),
            drawing |-> [Idle EXCEPT !.at = "count", !.body = SubSeq(buf, body, end - 1)]]

-----------------------------------------------------------------------------

Init ==
  /\ text \in [Streams -> Replies]
  /\ fed = [s \in Streams |-> 0]
  /\ buffer = [s \in Streams |-> <<>>]
  /\ calls = [s \in Streams |-> <<>>]
  /\ ids = <<>>
  /\ drawing = [s \in Streams |-> Idle]

\* The next chunk of a stream.
Feed(s) ==
  /\ drawing[s].at = "chunk"
  /\ \E n \in 1..Len(text[s]) - fed[s] :
       LET scan == Scan(buffer[s] \o SubSeq(text[s], fed[s] + 1, fed[s] + n))
       IN  /\ fed' = [fed EXCEPT ![s] = @ + n]
           /\ buffer' = [buffer EXCEPT ![s] = scan.buffer]
           /\ drawing' = [drawing EXCEPT ![s] = scan.drawing]
  /\ UNCHANGED <<text, calls, ids>>

\* next_id reads the length, appends the id it makes of it, and returns what
\* is then the last: three steps, between which other threads run.
CountIds(s) ==
  /\ drawing[s].at = "count"
  /\ LET beside == {o \in Streams : drawing[o].at \in {"append", "return"}}
     IN  drawing' = [o \in Streams |->
           IF o = s THEN [drawing[s] EXCEPT !.at = "append", !.id = Len(ids),
                                            !.alone = beside = {}]
           ELSE IF o \in beside THEN [drawing[o] EXCEPT !.alone = FALSE]
           ELSE drawing[o]]
  /\ UNCHANGED <<text, fed, buffer, calls, ids>>

AppendId(s) ==
  /\ drawing[s].at = "append"
  /\ ids' = Append(ids, drawing[s].id)
  /\ drawing' = [drawing EXCEPT ![s].at = "return"]
  /\ UNCHANGED <<text, fed, buffer, calls>>

\* The call is yielded, a malformed body without a name, and the loop goes on.
YieldCall(s) ==
  /\ drawing[s].at = "return"
  /\ LET body == drawing[s].body
         scan == Scan(buffer[s])
     IN  /\ calls' = [calls EXCEPT ![s] = Append(@,
               [id |-> Last(ids), name |-> IF body \in JsonBodies THEN body ELSE <<>>,
                alone |-> drawing[s].alone])]
         /\ buffer' = [buffer EXCEPT ![s] = scan.buffer]
         /\ drawing' = [drawing EXCEPT ![s] = scan.drawing]
  /\ UNCHANGED <<text, fed, ids>>

Next == \E s \in Streams : Feed(s) \/ CountIds(s) \/ AppendId(s) \/ YieldCall(s)

Spec == Init /\ [][Next]_vars

-----------------------------------------------------------------------------

Fed(s) == Take(text[s], fed[s])

\* The blocks of a text, read from the left, each from its opener to the first
\* closer behind it; what is between two blocks belongs to neither.
RECURSIVE Blocks(_)
Blocks(t) ==
  LET start == Find(t, OpenMarker, 1)
      body  == start + Len(OpenMarker)
      end   == Find(t, CloseMarker, body)
  IN  IF start = 0 \/ end = 0 THEN <<>>
      ELSE <<SubSeq(t, body, end - 1)>> \o Blocks(Drop(t, end + Len(CloseMarker) - 1))

TypeOK ==
  /\ \A s \in Streams : fed[s] \in 0..Len(text[s])
  /\ Len(ids) = FoldSet(LAMBDA s, n : n + Len(calls[s]), 0, Streams)
                 + Cardinality({s \in Streams : drawing[s].at = "return"})

(***************************************************************************)
(* "consumes decoded chunks, buffers across chunk boundaries, and yields   *)
(* one tool_call dict per complete call" (server/function_call_parser.py): *)
(* wherever the text is cut, the calls are those of the blocks in it, and  *)
(* none is left when the next chunk is asked for.                          *)
(***************************************************************************)
OneCallPerBlock ==
  \A s \in Streams :
    LET blocks == Blocks(Fed(s))
    IN  /\ Len(calls[s]) <= Len(blocks)
        /\ drawing[s].at = "chunk" => Len(calls[s]) = Len(blocks)
        /\ \A i \in DOMAIN calls[s] :
             calls[s][i].name = IF blocks[i] \in JsonBodies THEN blocks[i] ELSE <<>>

(***************************************************************************)
(* What is buffered between two chunks is an unfinished call or the        *)
(* beginning of a marker, and the end of what was fed: a stream of plain   *)
(* text is not kept in memory.                                             *)
(***************************************************************************)
OnlyUnfinishedIsHeld ==
  \A s \in Streams : drawing[s].at = "chunk" =>
    /\ IsSuffix(buffer[s], Fed(s))
    /\ \/ IsPrefix(OpenMarker, buffer[s])
       \/ IsStrictPrefix(buffer[s], OpenMarker)

(***************************************************************************)
(* A call whose id was drawn while no other thread drew one has an id that *)
(* no other call of the server has, whatever threads that draw together do *)
(* before and after (next_id).                                             *)
(***************************************************************************)
IdsDrawnAloneAreUnique ==
  \A s, t \in Streams : \A i \in DOMAIN calls[s], j \in DOMAIN calls[t] :
    calls[s][i].id = calls[t][j].id /\ calls[s][i].alone => s = t /\ i = j

(***************************************************************************)
(* An id names one call of the server, for a client sends it back with the *)
(* result of the tool.  Two threads that draw at once break it.            *)
(***************************************************************************)
IdsAreUnique ==
  \A s, t \in Streams : \A i \in DOMAIN calls[s], j \in DOMAIN calls[t] :
    calls[s][i].id = calls[t][j].id => s = t /\ i = j

(***************************************************************************)
(* "assigns stable call_N ids in stream order": a reply's calls are        *)
(* call_0, call_1, ... whatever else the server does.                      *)
(***************************************************************************)
IdsInStreamOrder ==
  \A s \in Streams : \A i \in DOMAIN calls[s] : calls[s][i].id = i - 1
=============================================================================
