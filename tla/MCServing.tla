------------------------------ MODULE MCServing ------------------------------
(*****************************************************************************)
(* The path of a reply, from the route to the client, for TLC: the effort of *)
(* the request (Effort), incremental decoding (Detokenizer), the reasoning   *)
(* parser and the events of the routes (ResponseStream) and the tool-call    *)
(* grammar (ToolCalls).                                                      *)
(*                                                                           *)
(* The components meet only through their inputs, which each one             *)
(* enumerates. A behaviour exercises one of them and the others rest, so     *)
(* that the states add up.                                                   *)
(*****************************************************************************)
EXTENDS Integers, Sequences, FiniteSets, TLC

CONSTANTS
  Parts    \* the parts a behaviour may exercise

VARIABLES
  part,
  stream_pending, stream_reply, stream_wire,
  tools_text, tools_fed, tools_buffer, tools_calls, tools_ids, tools_drawing,
  detok_phase, detok_state, detok_sent,
  effort_template, effort_toggle, effort_profile, effort_thinking,
  effort_request, effort_restarts

-----------------------------------------------------------------------------
\* A tag has two characters, and the two tags begin with the same one.
OpenThink == <<"<", "t">>
CloseThink == <<"<", "/">>

\* One letter per request, so that its text can be told from the others'.
Letters(x) == {<<x>>, <<x, "<">>, <<"t">>, <<"/", x>>}
LetterTokens == [a |-> Letters("x"), b |-> Letters("y")]
\* Tags that two replies open and close within and across their tokens.
Blocks(x) == {<<x>>, <<"<">>, <<"t", x>>, <<"<", "t", x, "<", "/">>}
BlockTokens == [a |-> Blocks("x"), b |-> Blocks("y")]

\* Tokens in which tags are whole, cut, and next to letters of two kinds.
TagTokens ==
  [a |-> {<<"x">>, <<"<", "t">>, <<"<", "/">>, <<"<">>, <<"t", "y">>, <<"/">>,
          <<"x", "<", "t", "y", "<", "/", "x">>}]

AllRoutes == {"chat", "responses", "messages"}

\* An opener and a closer of three characters that share their first, and
\* replies cut in every way.
OpenCall == <<"<", "t", ">">>
CloseCall == <<"<", "/", ">">>
Block(body) == OpenCall \o body \o CloseCall
CleanReplies ==
  {<<"a">>, <<"a", "<", "<", "t", "b">>,
   <<"a">> \o Block(<<"f">>) \o <<"b">> \o Block(<<"g">>),
   CloseCall \o Block(<<"f">>) \o Block(<<"f">>),
   Block(<<"f">> \o OpenCall) \o <<">">>}

\* A vocabulary with spaces in front of, behind and between letters, and a
\* token without text; and one in which a character is one token or two.
WordBytes == [a |-> <<"a">>, b |-> <<"b">>, spA |-> <<"sp", "a">>, sp |-> <<"sp">>,
              eos |-> <<>>, ba |-> <<"b", "a">>]
SplitBytes == [a |-> <<"a">>, spA |-> <<"sp", "a">>, spE |-> <<"sp", "e1">>,
               e1 |-> <<"e1">>, e2 |-> <<"e2">>, e |-> <<"e1", "e2">>]
StopStrings == {<<"a", "b", "a">>, <<"b", "b">>, <<"a", "sp", "a", "a">>}

\* Chat templates that accept some names and refuse some conversations, or
\* interpolate any name; a vocabulary of any names, or none.
EffortNames == {"none", "minimal", "low", "medium", "high", "xhigh", "max"}
Template(accepts, distinct, reads, refuses, strength) ==
  [accepts |-> accepts, distinct |-> distinct, reads |-> reads,
   refuses |-> refuses, strength |-> strength]
Plain == [tools |-> FALSE, thinks |-> FALSE]
Tools == [tools |-> TRUE, thinks |-> FALSE]
Think == [tools |-> FALSE, thinks |-> TRUE]
Both  == [tools |-> TRUE, thinks |-> TRUE]
ValidatingTemplates ==
  {Template(a, a \ d, reads, refuses, FALSE) :
     a \in SUBSET EffortNames, d \in {{}, {"low"}, {"high"}, {"xhigh"}},
     reads \in {"always", "thinking"},
     refuses \in {{}, {Tools, Both}, {Plain}, {Plain, Tools, Think, Both}}}
InterpolatingTemplates ==
  {Template(EffortNames, d, "always", {}, strength) :
     d \in {EffortNames, EffortNames \ {"low"}, EffortNames \ {"max"}, {},
            EffortNames \ {"none", "minimal"}},
     strength \in BOOLEAN}
TripleTemplate == Template(EffortNames, {"low", "medium", "high"}, "always", {}, FALSE)
OrderTemplates ==
  InterpolatingTemplates \cup {Template(a, a, "always", {}, FALSE) : a \in SUBSET EffortNames}
    \cup {TripleTemplate}
Renderings == {"r1", "r2", "r3", "raises"}
AllToggles == [bare : Renderings, off : Renderings, on : Renderings, adaptive : Renderings]
OneToggle == [bare |-> "r1", off |-> "r1", on |-> "r2", adaptive |-> "r1"]

-----------------------------------------------------------------------------
Tagged == INSTANCE ResponseStream WITH
  OpenTag <- OpenThink, CloseTag <- CloseThink, Requests <- {"a"},
  TokenTexts <- TagTokens, Routes <- AllRoutes, Parses <- TRUE, MaxTokens <- 4,
  MaxLive <- 1, MaxBroken <- 1, pending <- stream_pending,
  reply <- stream_reply, wire <- stream_wire
Untagged == INSTANCE ResponseStream WITH
  OpenTag <- OpenThink, CloseTag <- CloseThink, Requests <- {"a", "b"},
  TokenTexts <- LetterTokens, Routes <- AllRoutes, Parses <- FALSE,
  MaxTokens <- 2, MaxLive <- 2, MaxBroken <- 1, pending <- stream_pending,
  reply <- stream_reply, wire <- stream_wire
Shared == INSTANCE ResponseStream WITH
  OpenTag <- OpenThink, CloseTag <- CloseThink, Requests <- {"a", "b"},
  TokenTexts <- BlockTokens, Routes <- AllRoutes, Parses <- TRUE,
  MaxTokens <- 2, MaxLive <- 2, MaxBroken <- 1, pending <- stream_pending,
  reply <- stream_reply, wire <- stream_wire
Grammar == INSTANCE ToolCalls WITH
  Streams <- {"s1", "s2"}, Replies <- CleanReplies, OpenMarker <- OpenCall,
  CloseMarker <- CloseCall, JsonBodies <- {<<"f">>}, text <- tools_text,
  fed <- tools_fed, buffer <- tools_buffer, calls <- tools_calls,
  ids <- tools_ids, drawing <- tools_drawing
Words == INSTANCE Detokenizer WITH
  Tokens <- DOMAIN WordBytes, Bytes <- WordBytes, StripsSpace <- TRUE,
  StopStrs <- StopStrings, MaxIds <- 5, phase <- detok_phase,
  state <- detok_state, sent <- detok_sent
Halves == INSTANCE Detokenizer WITH
  Tokens <- DOMAIN SplitBytes, Bytes <- SplitBytes, StripsSpace <- TRUE,
  StopStrs <- StopStrings, MaxIds <- 5, phase <- detok_phase, state <- detok_state,
  sent <- detok_sent
AnyEffort == INSTANCE Effort WITH
  Raws <- EffortNames \cup {"ultra"},
  Templates <- ValidatingTemplates \cup InterpolatingTemplates,
  ThinkToggles <- {OneToggle}, Shapes <- {Plain, Tools, Think, Both},
  Requests <- {1}, MaxRestarts <- 0, template <- effort_template,
  toggle <- effort_toggle, profile <- effort_profile,
  thinking <- effort_thinking, request <- effort_request,
  restarts <- effort_restarts
TwoEfforts == INSTANCE Effort WITH
  Raws <- EffortNames \cup {"ultra"}, Templates <- OrderTemplates,
  ThinkToggles <- {OneToggle}, Shapes <- {Plain}, Requests <- {1, 2},
  MaxRestarts <- 1, template <- effort_template, toggle <- effort_toggle,
  profile <- effort_profile, thinking <- effort_thinking,
  request <- effort_request, restarts <- effort_restarts
Thinking == INSTANCE Effort WITH
  Raws <- EffortNames \cup {"ultra"}, Templates <- {TripleTemplate},
  ThinkToggles <- AllToggles, Shapes <- {Plain}, Requests <- {1},
  MaxRestarts <- 1, template <- effort_template, toggle <- effort_toggle,
  profile <- effort_profile, thinking <- effort_thinking,
  request <- effort_request, restarts <- effort_restarts

responseStreamVars ==
  <<stream_pending, stream_reply, stream_wire>>
toolCallsVars ==
  <<tools_text, tools_fed, tools_buffer, tools_calls, tools_ids, tools_drawing>>
detokenizerVars ==
  <<detok_phase, detok_state, detok_sent>>
effortVars ==
  <<effort_template, effort_toggle, effort_profile, effort_thinking,
  effort_request, effort_restarts>>
vars == <<part, responseStreamVars, toolCallsVars, detokenizerVars, effortVars>>

ASSUME ServingAssumption ==
  /\ Tagged!ResponseStreamAssumption
  /\ Untagged!ResponseStreamAssumption
  /\ Shared!ResponseStreamAssumption
  /\ Grammar!ToolCallsAssumption
  /\ Words!DetokenizerAssumption
  /\ Halves!DetokenizerAssumption

\* One part is exercised; the others rest in one of their initial states.
Init ==
  /\ part \in Parts
  /\ \/ part \notin {"untagged", "shared"} /\ Tagged!Init
     \/ part = "untagged" /\ Untagged!Init
     \/ part = "shared" /\ Shared!Init
  /\ Grammar!Init
  /\ part # "tools" => tools_text = [s \in {"s1", "s2"} |-> <<"a">>]
  /\ \/ part \notin {"halves"} /\ Words!Init
     \/ part = "halves" /\ Halves!Init
  /\ \/ part \notin {"efforts", "thinking"} /\ AnyEffort!Init
        /\ (part # "effort" => effort_template = CHOOSE t \in InterpolatingTemplates : TRUE)
     \/ part = "efforts" /\ TwoEfforts!Init
     \/ part = "thinking" /\ Thinking!Init

StepResponseStream ==
  /\ \/ part = "tagged" /\ Tagged!Next
     \/ part = "untagged" /\ Untagged!Next
     \/ part = "shared" /\ Shared!Next
  /\ UNCHANGED <<part, toolCallsVars, detokenizerVars, effortVars>>
StepToolCalls ==
  /\ part = "tools"
  /\ Grammar!Next
  /\ UNCHANGED <<part, responseStreamVars, detokenizerVars, effortVars>>
StepDetokenizer ==
  /\ \/ part = "words" /\ Words!Next
     \/ part = "halves" /\ Halves!Next
  /\ UNCHANGED <<part, responseStreamVars, toolCallsVars, effortVars>>
StepEffort ==
  /\ \/ part = "effort" /\ AnyEffort!Next
     \/ part = "efforts" /\ TwoEfforts!Next
     \/ part = "thinking" /\ Thinking!Next
  /\ UNCHANGED <<part, responseStreamVars, toolCallsVars, detokenizerVars>>

\* A finite component may stop; the others may never block.
Stops ==
  /\ part \in {"tagged", "untagged", "shared", "tools", "words", "halves", "effort", "efforts", "thinking"}
  /\ UNCHANGED vars

Next ==
  \/ StepResponseStream
  \/ StepToolCalls
  \/ StepDetokenizer
  \/ StepEffort
  \/ Stops

Spec == Init /\ [][Next]_vars

-----------------------------------------------------------------------------
(***************************************************************************)
(* The events of a reply are well formed on every route; a reply that had  *)
(* the parser to itself is its own text, of which only whole tags are      *)
(* missing, split where the tags are when no token cuts them badly; of     *)
(* replies that share the parser, or were left behind in it, nothing is    *)
(* lost or repeated between them; without the parser the text is verbatim  *)
(* (ThinkTagParser, get_parser, stream_chat, the three routes).            *)
(***************************************************************************)
EventsCarryTheReply ==
  /\ part = "tagged" =>
       /\ Tagged!TypeOK
       /\ Tagged!EventsWellFormed
       /\ Tagged!NothingLost
       /\ Tagged!CleanCutsAreSplit
       /\ Tagged!UnparsedIsVerbatim
  /\ part = "shared" =>
       /\ Shared!TypeOK
       /\ Shared!EventsWellFormed
       /\ Shared!NothingLost
       /\ Shared!NothingLostByAll
       /\ Shared!CleanCutsAreSplit
       /\ Shared!AloneIsOwnText
       /\ Shared!UnparsedIsVerbatim
  /\ part = "untagged" => Untagged!UnparsedIsVerbatim

\* Without the parser one would read text that is a stray piece of a tag: a
\* partial tag stands in the order it came in (reasoning_parser.py:68-69).
UntaggedTextKeepsOrder == part = "tagged" => Tagged!UntaggedTextKeepsOrder

(***************************************************************************)
(* However its text is cut, a stream yields one call for every block, in   *)
(* order; what it holds back is unfinished; an id drawn by one thread at a *)
(* time is given once (function_call_parser.py).                           *)
(***************************************************************************)
CallsAreTheBlocks ==
  /\ Grammar!TypeOK
  /\ Grammar!OneCallPerBlock
  /\ Grammar!OnlyUnfinishedIsHeld
  /\ Grammar!IdsDrawnAloneAreUnique

(***************************************************************************)
(* What has been sent is the decoding of the ids as far as no stop string  *)
(* may come of it, with spaces and special tokens, but a character cut     *)
(* into two tokens is the U+FFFD its first half was sent as                *)
(* (detokenize.py).                                                        *)
(***************************************************************************)
SentIsTheDecoding ==
  /\ part = "words" => Words!TypeOK /\ Words!AcceptedIsDecode /\ Words!StreamIsMarkedDecode
  /\ part = "halves" => Halves!TypeOK /\ Halves!AcceptedIsDecode /\ Halves!StreamIsMarkedDecode

(***************************************************************************)
(* No effort a client sends is refused; max is served only to who named    *)
(* it; a served effort is one the template grades, the nearest of them;    *)
(* more effort never gets less, in one life of the server or two; the same *)
(* effort gets the same in one life, and in two but for a tie at the top;  *)
(* the default thinking state is the bare rendering (effort.py,            *)
(* tokenize.py).                                                           *)
(***************************************************************************)
EffortIsServed ==
  /\ part = "effort" =>
       /\ AnyEffort!TypeOK
       /\ AnyEffort!EffortNeverRejected
       /\ AnyEffort!MaxOnlyByName
       /\ AnyEffort!OnlyGradedLevels
       /\ AnyEffort!NearestGearServed
  /\ part = "efforts" => TwoEfforts!EffortsKeepOrder /\ TwoEfforts!SameGearUnlessTied
  /\ part = "thinking" => Thinking!DefaultStateIsBare
=============================================================================
