----------------------------- MODULE ResponseStream -----------------------------
(***************************************************************************)
(* From decoded tokens to what a client receives: ThinkTagParser           *)
(* (server/reasoning_parser.py), stream_chat (server/generation.py) and    *)
(* the events of the three routes (server/openai_api.py,                   *)
(* server/anthropic_api.py).                                               *)
(*                                                                         *)
(* Text is a sequence of characters.  The parser of a family is one object *)
(* of the module, so every request of the server parses with the same      *)
(* _pending.  A token, with all its events, is one step; the steps of      *)
(* different requests interleave, for the routes run in threads.           *)
(***************************************************************************)
EXTENDS Integers, Sequences, FiniteSets, FiniteSetsExt, SequencesExt

CONSTANTS
  Requests,
  Routes,      \* the routes the requests use: of "chat", "responses", "messages"
  Parses,      \* whether --reasoning-parser names a family with think tags
  OpenTag, CloseTag,
  TokenTexts,  \* the texts a token of each request may decode to
  MaxTokens,   \* bound on the tokens of one reply
  MaxLive,     \* how many replies the clients have open at a time
  MaxBroken    \* bound on clients that go away

\* What the constants have to satisfy.
ResponseStreamAssumption ==
  /\ Routes \subseteq {"chat", "responses", "messages"}
  /\ Parses \in BOOLEAN
  /\ OpenTag # <<>> /\ CloseTag # <<>>
  /\ \A r \in Requests : <<>> \notin TokenTexts[r]
  /\ MaxTokens \in Nat /\ MaxLive \in Nat /\ MaxBroken \in Nat

VARIABLES
  pending,  \* _pending of the parser object
  reply,    \* the route of each request, the tokens it has consumed, and
            \* whether it has had the parser to itself (for the properties)
  wire      \* the events each client has received

vars == <<pending, reply, wire>>

-----------------------------------------------------------------------------

Drop(s, n) == SubSeq(s, n + 1, Len(s))
Take(s, n) == SubSeq(s, 1, n)

\* str.find: where tag starts in text, none being 0.
Find(text, tag) ==
  LET found == {i \in 1..Len(text) : IsPrefix(tag, Drop(text, i - 1))}
  IN  IF found = {} THEN 0 ELSE Min(found)

\* The longest suffix of text that is a proper prefix of tag.
TrailingPartial(text, tag) ==
  Max({0} \cup {n \in 1..Min({Len(text), Len(tag) - 1}) : IsSuffix(Take(tag, n), text)})

Reasoning(text) == [reasoning |-> text, content |-> <<>>]
Content(text)   == [reasoning |-> <<>>, content |-> text]
Delta(inThink, text) == IF inThink THEN Reasoning(text) ELSE Content(text)

NonEmpty(delta) == delta # Content(<<>>)

\* A bug: a closed block is dropped with its tag.
RECURSIVE ParseTextSlip(_, _)
ParseTextSlip(text, inThink) ==
  LET tag   == IF inThink THEN CloseTag ELSE OpenTag
      start == Find(text, tag)
      kept  == Len(text) - TrailingPartial(text, tag)
      rest  == ParseTextSlip(Drop(text, start + Len(tag) - 1), ~inThink)
  IN  IF start = 0
      THEN [deltas |-> <<Delta(inThink, Drop(text, kept))>>,
            pending |-> Take(text, kept)]
      ELSE [rest EXCEPT !.deltas =
              IF inThink THEN @ ELSE <<Content(Take(text, start - 1))>> \o @]

\* The loop of ThinkTagParser.parse over what is pending: what it yields and
\* what it leaves pending.  in_think is a local of the call.
RECURSIVE ParseText(_, _)
ParseText(text, inThink) ==
  LET tag   == IF inThink THEN CloseTag ELSE OpenTag
      start == Find(text, tag)
      kept  == Len(text) - TrailingPartial(text, tag)
      rest  == ParseText(Drop(text, start + Len(tag) - 1), ~inThink)
  IN  IF start = 0
      THEN IF kept = 0
           THEN [deltas |-> <<>>, pending |-> text]
           ELSE [deltas |-> <<Delta(inThink, Drop(text, kept))>>,
                 pending |-> Take(text, kept)]
      ELSE [rest EXCEPT !.deltas = <<Delta(inThink, Take(text, start - 1))>> \o @]

\* stream_chat hands the parser one token at a time.
Parse(token) == ParseText(pending \o token, FALSE)

\* /v1/responses gives stream_chat no parser.
ParsesOn(route) == Parses /\ route # "responses"
Parsed(r) == ParsesOn(reply[r].route)

-----------------------------------------------------------------------------

Event(type, index, text) == [type |-> type, index |-> index, text |-> text]
Plain(type) == Event(type, 0, <<>>)

Opening(route) ==
  CASE route = "chat"      -> <<>>
    [] route = "messages"  -> <<Plain("message_start")>>
    [] route = "responses" -> <<Plain("created"), Plain("in_progress"),
                                Plain("item_added"), Plain("part_added")>>

\* Blocks of /v1/messages: thinking is block 0, text is block 1.
ThinkBlock == 0
TextBlock == 1
NoBlock == -1

\* A delta of another kind than the last opens its block, again if need be.
BlockEvents(open, index, text) ==
  IF text = <<>> THEN <<>>
  ELSE (IF open = index THEN <<>> ELSE <<Event("block_start", index, <<>>)>>)
       \o <<Event("block_delta", index, text)>>

OpenBlock(events) ==
  LET starts == {i \in DOMAIN events : events[i].type = "block_start"}
  IN  IF starts = {} THEN NoBlock ELSE events[Max(starts)].index

\* The events of one delta.  A delta of a chat chunk carries both kinds.
DeltaEvents(route, events, delta) ==
  CASE route = "chat" ->
         <<[type |-> "chunk", reasoning |-> delta.reasoning, text |-> delta.content]>>
    [] route = "responses" ->
         IF delta.content = <<>> THEN <<>> ELSE <<Event("text_delta", 0, delta.content)>>
    [] route = "messages" ->
         LET think == BlockEvents(OpenBlock(events), ThinkBlock, delta.reasoning)
         IN  think \o BlockEvents(OpenBlock(events \o think), TextBlock, delta.content)

\* The deltas stream_chat passes on, each turned into events.
AddDeltas(route, events, deltas) ==
  LET Add(sofar, delta) == sofar \o DeltaEvents(route, sofar, delta)
  IN  FoldLeft(Add, events, SelectSeq(deltas, NonEmpty))

OfType(events, type) == SelectSeq(events, LAMBDA e : e.type = type)
Join(events) == FlattenSeq([i \in DOMAIN events |-> events[i].text])

Closing(route, events) ==
  CASE route = "chat"      -> <<Plain("finish"), Plain("done")>>
    [] route = "messages"  -> <<Plain("message_stop")>>
    [] route = "responses" ->
         <<Event("text_done", 0, Join(OfType(events, "text_delta"))),
           Plain("part_done"), Plain("item_done"), Plain("completed")>>

-----------------------------------------------------------------------------

Live == {r \in Requests : reply[r].phase = "open"}
Broken == {r \in Requests : reply[r].phase \in {"broken", "failed"}}

Init ==
  /\ pending = <<>>
  /\ reply = [r \in Requests |-> [phase |-> "new", route |-> "none", tokens |-> <<>>,
                               alone |-> TRUE]]
  /\ wire = [r \in Requests |-> <<>>]

Begin(r, route) ==
  /\ reply[r].phase = "new"
  /\ Cardinality(Live) < MaxLive
  /\ LET beside == IF ParsesOn(route) THEN {o \in Live : Parsed(o)} ELSE {}
         held   == ParsesOn(route) /\ pending # <<>>
     IN  reply' = [o \in Requests |->
           IF o = r THEN [reply[r] EXCEPT !.phase = "open", !.route = route,
                                          !.alone = ~held /\ beside = {}]
           ELSE IF o \in beside THEN [reply[o] EXCEPT !.alone = FALSE]
           ELSE reply[o]]
  /\ wire' = [wire EXCEPT ![r] = Opening(route)]
  /\ UNCHANGED pending

\* The engine is not loaded.  The error event of /v1/messages carries the body
\* of the JSONResponse, which is bytes: json.dumps raises and nothing is sent.
BeginNotReady(r, route) ==
  /\ reply[r].phase = "new"
  /\ Cardinality(Broken) < MaxBroken
  /\ reply' = [reply EXCEPT ![r] = [@ EXCEPT !.phase = "failed", !.route = route]]
  /\ UNCHANGED <<pending, wire>>

Token(r, token) ==
  /\ reply[r].phase = "open"
  /\ Len(reply[r].tokens) < MaxTokens
  /\ reply' = [reply EXCEPT ![r].tokens = Append(@, token)]
  /\ LET parsed == IF Parsed(r) THEN Parse(token)
                   ELSE [deltas |-> <<Content(token)>>, pending |-> pending]
     IN  /\ pending' = parsed.pending
         /\ wire' = [wire EXCEPT ![r] = AddDeltas(reply[r].route, @, parsed.deltas)]

\* flush() of the parser: what is pending is content, and no longer pending.
Flush(r) == IF Parsed(r) THEN <<Content(pending)>> ELSE <<>>
Unflushed(r) == IF Parsed(r) THEN <<>> ELSE pending

Finish(r) ==
  /\ reply[r].phase = "open"
  /\ reply' = [reply EXCEPT ![r].phase = "done"]
  /\ pending' = Unflushed(r)
  /\ LET all == AddDeltas(reply[r].route, wire[r], Flush(r))
     IN  wire' = [wire EXCEPT ![r] = all \o Closing(reply[r].route, all)]

\* The client goes away, or the engine raises: the generator is closed.
Break(r) ==
  /\ reply[r].phase = "open"
  /\ Cardinality(Broken) < MaxBroken
  /\ reply' = [reply EXCEPT ![r].phase = "broken"]
  /\ UNCHANGED <<pending, wire>>

Next == \E r \in Requests :
  \/ \E route \in Routes : Begin(r, route) \/ BeginNotReady(r, route)
  \/ \E token \in TokenTexts[r] : Token(r, token)
  \/ Finish(r)
  \/ Break(r)

Spec == Init /\ [][Next]_vars

-----------------------------------------------------------------------------

Text(r) == FlattenSeq(reply[r].tokens)

\* What the client makes of its events, and the non-streaming routes of theirs.
ContentOf(r) ==
  CASE reply[r].route = "messages"  ->
         Join(SelectSeq(wire[r], LAMBDA e : e.type = "block_delta" /\ e.index = TextBlock))
    [] reply[r].route = "responses" -> Join(OfType(wire[r], "text_delta"))
    [] OTHER                        -> Join(OfType(wire[r], "chunk"))

ReasoningOf(r) ==
  CASE reply[r].route = "messages"  ->
         Join(SelectSeq(wire[r], LAMBDA e : e.type = "block_delta" /\ e.index = ThinkBlock))
    [] reply[r].route = "chat"      ->
         LET chunks == OfType(wire[r], "chunk")
         IN  FlattenSeq([i \in DOMAIN chunks |-> chunks[i].reasoning])
    [] OTHER                        -> <<>>

Done == {r \in Requests : reply[r].phase = "done"}

TypeOK ==
  /\ \A r \in Requests :
        /\ reply[r].phase \in {"new", "open", "done", "broken", "failed"}
        /\ reply[r].route \in Routes \cup {"none"}
        /\ Len(reply[r].tokens) <= MaxTokens
  /\ pending # <<>> => \E r \in Live \cup Broken : Parsed(r)

(***************************************************************************)
(* Every event of a reply makes sense after the ones before it: it starts  *)
(* with the opening events, a delta of /v1/messages belongs to the block   *)
(* opened last, an open block is not opened twice in a row, and nothing    *)
(* follows the closing event.                                              *)
(***************************************************************************)
EventsWellFormed ==
  \A r \in Requests : LET events == wire[r] IN
    /\ reply[r].phase \in {"open", "done"} => IsPrefix(Opening(reply[r].route), events)
    /\ \A i \in DOMAIN events :
         /\ events[i].type = "block_delta" =>
              OpenBlock(Take(events, i)) = events[i].index
         /\ events[i].type = "block_start" =>
              /\ OpenBlock(Take(events, i - 1)) # events[i].index
              /\ i < Len(events) /\ events[i + 1].type = "block_delta"
         /\ events[i].type \in {"message_stop", "done", "completed"} =>
              i = Len(events) /\ r \in Done

(***************************************************************************)
(* Without think tags to look for, the content a client has received is    *)
(* the text of its tokens at every moment, and the text that the events of *)
(* /v1/responses repeat at the end is the one they streamed.               *)
(***************************************************************************)
UnparsedIsVerbatim ==
  \A r \in Requests : ~Parsed(r) =>
    /\ ContentOf(r) = Text(r)
    /\ ReasoningOf(r) = <<>>
    /\ \A i \in DOMAIN wire[r] : wire[r][i].type = "text_done" => wire[r][i].text = Text(r)

Times(ch, text) == Cardinality({i \in DOMAIN text : text[i] = ch})

\* sent is text, in some order, less some whole tags.
IsTextLessTags(sent, text) ==
  \E opens, closes \in 0..Len(text) :
    \A ch \in Range(text \o sent) :
      Times(ch, text) = Times(ch, sent) + opens * Times(ch, OpenTag)
                                        + closes * Times(ch, CloseTag)

(***************************************************************************)
(* A reply that had the parser to itself has, when it ends, lost and       *)
(* repeated no character but those of whole tags, however its tags were    *)
(* cut into tokens (ThinkTagParser.parse and flush).                       *)
(***************************************************************************)
NothingLost ==
  \A r \in Done : reply[r].alone =>
    IsTextLessTags(ContentOf(r) \o ReasoningOf(r), Text(r))

(***************************************************************************)
(* Streams that share the parser may send each other's text, but together, *)
(* and with what the parser holds, they have at every moment what their    *)
(* tokens said: also while two routes interleave, and after one broke off  *)
(* and left its text behind (get_parser, stream_chat).                     *)
(***************************************************************************)
NothingLostByAll ==
  LET all  == SetToSeq({r \in Requests : Parsed(r)})
      Of(op(_)) == FlattenSeq([i \in DOMAIN all |-> op(all[i])])
  IN  IsTextLessTags(Of(ContentOf) \o Of(ReasoningOf) \o pending, Of(Text))

\* The reference: the reasoning and the content of a whole text, whether it
\* ends inside a block, and what follows its last tag.
RECURSIVE Split(_, _)
Split(text, inThink) ==
  LET tag   == IF inThink THEN CloseTag ELSE OpenTag
      start == Find(text, tag)
      part  == Delta(inThink, IF start = 0 THEN text ELSE Take(text, start - 1))
      rest  == IF start = 0
               THEN [reasoning |-> <<>>, content |-> <<>>, inside |-> inThink, last |-> text]
               ELSE Split(Drop(text, start + Len(tag) - 1), ~inThink)
  IN  [reasoning |-> part.reasoning \o rest.reasoning,
       content   |-> part.content \o rest.content,
       inside    |-> rest.inside,
       last      |-> rest.last]

\* No token ends inside a block, and none ends in a piece of an opening tag
\* unless nothing precedes that piece since the last block.
CutCleanly(r) ==
  \A n \in DOMAIN reply[r].tokens :
    LET split == Split(FlattenSeq(Take(reply[r].tokens, n)), FALSE)
    IN  ~split.inside /\ TrailingPartial(split.last, OpenTag) \in {0, Len(split.last)}

(***************************************************************************)
(* A reply of any number of tokens that had the parser to itself is split  *)
(* where its tags are, if none of its tokens ends inside a block or cuts   *)
(* an opening tag off the text before it (in_think is a local of parse;    *)
(* what is held back and what is emitted).                                 *)
(***************************************************************************)
CleanCutsAreSplit ==
  \A r \in Done : Parsed(r) /\ reply[r].alone /\ CutCleanly(r) =>
    LET split == Split(Text(r), FALSE)
    IN  ContentOf(r) = split.content /\ ReasoningOf(r) = split.reasoning

(***************************************************************************)
(* A reply that had the parser to itself is made of its own characters.    *)
(***************************************************************************)
AloneIsOwnText ==
  \A r \in Requests : reply[r].alone =>
    Range(ContentOf(r)) \cup Range(ReasoningOf(r)) \subseteq Range(Text(r))

(***************************************************************************)
(* "Text inside the tags is reasoning; outside, content" (the docstring of *)
(* ThinkTagParser).                                                        *)
(***************************************************************************)
ThinkTextIsReasoning ==
  \A r \in Done : Parsed(r) => ReasoningOf(r) = Split(Text(r), FALSE).reasoning

(***************************************************************************)
(* "A tag that arrives split across chunk boundaries is held in _pending   *)
(* until it resolves" (the docstring of ThinkTagParser): a text without    *)
(* tags comes out as it went in.                                           *)
(***************************************************************************)
UntaggedTextKeepsOrder ==
  \A r \in Done : Find(Text(r), OpenTag) = 0 => ContentOf(r) = Text(r)

(***************************************************************************)
(* The parser "is stateful across the whole stream" (the docstring of      *)
(* stream_chat): a client receives characters of its own reply only.       *)
(***************************************************************************)
OwnTextOnly ==
  \A r \in Requests : Range(ContentOf(r)) \cup Range(ReasoningOf(r)) \subseteq Range(Text(r))

(***************************************************************************)
(* "Route it to an thinking block (first), then the visible text block"    *)
(* (a comment in _message_events).                                         *)
(***************************************************************************)
ThinkingBlockFirst ==
  \A r \in Requests : \A i, j \in DOMAIN wire[r] :
    /\ wire[r][i].type = "block_start" /\ wire[r][i].index = ThinkBlock
    /\ wire[r][j].type = "block_start" /\ wire[r][j].index = TextBlock
    => i < j

(***************************************************************************)
(* "A not-ready engine there yields a clean Anthropic-shaped 503" (the     *)
(* docstring of server/anthropic_api.py): the client is told.              *)
(***************************************************************************)
NotReadyIsReported ==
  \A r \in Requests : reply[r].phase = "failed" /\ reply[r].route = "messages" =>
    \E i \in DOMAIN wire[r] : wire[r][i].type = "error"
=============================================================================
