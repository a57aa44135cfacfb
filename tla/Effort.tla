---------------------------------- MODULE Effort ----------------------------------
(***************************************************************************)
(* Reasoning effort (tokenizer/effort.py) and the chat encoder that uses   *)
(* it (tokenizer/tokenize.py): the vocabulary of a checkpoint's chat       *)
(* template is probed by rendering through it and cached for the life of   *)
(* the process, and the effort of every request is quantized onto it.      *)
(*                                                                         *)
(* A chat template is what its renderings show: when it reads the effort,  *)
(* which names it accepts, which of them it renders unlike no effort, and  *)
(* which conversation shapes it refuses.  Positions on the scale are       *)
(* hundredths.                                                             *)
(***************************************************************************)
EXTENDS Integers, Sequences, FiniteSets, FiniteSetsExt

CONSTANTS
  Templates,     \* chat templates the checkpoint may ship
  ThinkToggles,  \* how a template renders the thinking kwargs
  Raws,          \* efforts the clients send
  Shapes,        \* conversation shapes of the requests: with tools, with thinking
  Requests,
  MaxRestarts    \* bound on restarts of the server

VARIABLES
  template,  \* of the checkpoint
  toggle,
  profile,   \* _effort_profile of the TokenizeManager, in a set: {} is None
  thinking,  \* _thinking_profile, the same way
  request,   \* raw effort of each request, what it became, how the render
             \* ended, and in which life of the server (for the properties)
  restarts

vars == <<template, toggle, profile, thinking, request, restarts>>

EFFORT_SCALE ==
  [none |-> 0, minimal |-> 10, low |-> 20, medium |-> 70, high |-> 90,
   xhigh |-> 99, max |-> 99]
KNOWN_REASONING_EFFORTS == DOMAIN EFFORT_SCALE
OPENAI_EFFORT_TRIPLE == {"low", "medium", "high"}
GRADED_EFFORT_LADDER == {"low", "medium", "high", "xhigh"}
MAX_QUANTIZE_DISTANCE == 15

None == "-"

Distance(a, b) == IF a < b THEN b - a ELSE a - b

-----------------------------------------------------------------------------
(* The chat template, behind tokenizer.apply_chat_template. *)

Shape(tools, thinks) == [tools |-> tools, thinks |-> thinks]
PlainShape == Shape(FALSE, FALSE)

Reads(t, shape) == t.reads = "always" \/ shape.tools \/ shape.thinks
RefusesShape(t, shape) == shape \in t.refuses
RejectsEffort(t, shape, effort) ==
  effort # None /\ Reads(t, shape) /\ effort \notin t.accepts

\* Only renderings of the same shape are ever compared.
Rendering(t, shape, effort) ==
  IF Reads(t, shape) /\ effort \in t.distinct THEN effort ELSE None

-----------------------------------------------------------------------------

\* The shapes of _PROBE_ROUNDS.
ProbeShapes == {PlainShape, Shape(TRUE, FALSE), Shape(FALSE, TRUE)}

\* A round whose baseline raises is skipped.
ProbeRounds(t) == {shape \in ProbeShapes : ~RefusesShape(t, shape)}

Rejected(t) ==
  {name \in KNOWN_REASONING_EFFORTS :
     \E shape \in ProbeRounds(t) : RejectsEffort(t, shape, name)}
Diverged(t) ==
  {name \in KNOWN_REASONING_EFFORTS :
     \E shape \in ProbeRounds(t) :
        /\ ~RejectsEffort(t, shape, name)
        /\ Rendering(t, shape, name) # Rendering(t, shape, None)}

MatchBaseline(t) == KNOWN_REASONING_EFFORTS \ (Diverged(t) \cup Rejected(t))

\* max() keeps the first of the names with the highest position, in the order
\* in which a frozenset of strings iterates, which differs between processes.
Highest(names) == {n \in names : \A m \in names : EFFORT_SCALE[m] <= EFFORT_SCALE[n]}

\* What probe_effort_profile may return.
ProbeEffort(t) ==
  IF ProbeRounds(t) = {}
  THEN {[supported |-> {}, default |-> None, consumes |-> FALSE,
         validates |-> FALSE, strength |-> FALSE]}
  ELSE LET supported == KNOWN_REASONING_EFFORTS \ Rejected(t)
           consumes  == Rejected(t) \cup Diverged(t) # {}
           defaults  == MatchBaseline(t)
       IN  {[supported |-> supported, default |-> d, consumes |-> consumes,
             validates |-> Rejected(t) # {},
             strength  |-> t.strength /\ ~RefusesShape(t, PlainShape)] :
              d \in IF consumes /\ defaults # {} THEN Highest(defaults) ELSE {None}}

\* effective_efforts: the vocabulary a checkpoint is served with.
EffectiveEfforts(p) ==
  IF ~p.consumes THEN {}
  ELSE IF p.validates \/ p.supported # KNOWN_REASONING_EFFORTS THEN p.supported
  ELSE (IF p.strength THEN GRADED_EFFORT_LADDER ELSE OPENAI_EFFORT_TRIPLE)
       \cup ({p.default} \ {None})

\* A bug: with no gear within reach the lowest one is taken.
QuantizeFloorSlip(raw, p) ==
  LET gears == EffectiveEfforts(p) \ {"max"}
      near  == {n \in gears :
                  Distance(EFFORT_SCALE[n], EFFORT_SCALE[raw]) <= MAX_QUANTIZE_DISTANCE}
  IN  IF raw \in EffectiveEfforts(p) THEN raw
      ELSE IF raw \notin KNOWN_REASONING_EFFORTS \/ gears = {} THEN None
      ELSE IF near # {} THEN CHOOSE n \in near : TRUE
      ELSE CHOOSE n \in gears : \A m \in gears : EFFORT_SCALE[n] <= EFFORT_SCALE[m]

\* quantize_effort: the nearest gear of the vocabulary, the higher of two at
\* the same distance; never "max" but by its name, and nothing far away.
Quantize(raw, p) ==
  LET vocabulary == EffectiveEfforts(p)
      gears      == vocabulary \ {"max"}
      away(n)    == Distance(EFFORT_SCALE[n], EFFORT_SCALE[raw])
      first(n)   == \A m \in gears \ {n} :
                       \/ away(n) < away(m)
                       \/ away(n) = away(m) /\ EFFORT_SCALE[n] > EFFORT_SCALE[m]
      near       == {n \in gears : first(n) /\ away(n) <= MAX_QUANTIZE_DISTANCE}
  IN  IF raw \in vocabulary THEN raw
      ELSE IF raw \notin KNOWN_REASONING_EFFORTS \/ near = {} THEN None
      ELSE CHOOSE n \in near : TRUE

-----------------------------------------------------------------------------

\* probe_thinking_profile: which states the template tells apart and which of
\* them the bare rendering is.
ProbeThinking(g) ==
  LET toggleable == "raises" \notin {g.bare, g.off, g.on} /\ g.off # g.on
      adaptive   == toggleable /\ g.adaptive \notin {"raises", g.off, g.on}
  IN  [toggleable |-> toggleable,
       adaptive   |-> adaptive,
       default    |-> IF toggleable /\ g.bare = g.off THEN "off"
                      ELSE IF adaptive /\ g.bare = g.adaptive THEN "adaptive"
                      ELSE "on"]

-----------------------------------------------------------------------------

NewRequest == [phase |-> "new", raw |-> None, shape |-> PlainShape, effort |-> None,
               life |-> 0]

Init ==
  /\ template \in Templates
  /\ toggle \in ThinkToggles
  /\ profile = {}
  /\ thinking = {}
  /\ request = [r \in Requests |-> NewRequest]
  /\ restarts = 0

\* effort_profile(): probed under the lock by whoever asks first.
EffortProfile == IF profile = {} THEN ProbeEffort(template) ELSE profile

\* _sanitize_effort of a request that carries an effort.
Sanitize(r, raw, shape) ==
  /\ request[r].phase = "new"
  /\ raw # None
  /\ \E p \in EffortProfile :
       /\ profile' = {p}
       /\ request' = [request EXCEPT ![r] =
            [phase |-> "sanitized", raw |-> raw, shape |-> shape, effort |-> Quantize(raw, p),
             life |-> restarts]]
  /\ UNCHANGED <<template, toggle, thinking, restarts>>

\* A request without one is rendered without a probe.
NoEffort(r, shape) ==
  /\ request[r].phase = "new"
  /\ request' = [request EXCEPT ![r] =
       [phase |-> "sanitized", raw |-> None, shape |-> shape, effort |-> None,
        life |-> restarts]]
  /\ UNCHANGED <<template, toggle, profile, thinking, restarts>>

\* apply_chat_template on what is left of the kwargs.
Encode(r) ==
  /\ request[r].phase = "sanitized"
  /\ LET q == request[r] IN
     request' = [request EXCEPT ![r].phase =
       IF RefusesShape(template, q.shape) THEN "refused"
       ELSE IF RejectsEffort(template, q.shape, q.effort) THEN "rejected"
       ELSE "encoded"]
  /\ UNCHANGED <<template, toggle, profile, thinking, restarts>>

\* thinking_profile(): probes the efforts first, if nobody has.
ThinkingProfile ==
  /\ thinking = {}
  /\ \E p \in EffortProfile : profile' = {p}
  /\ thinking' = {ProbeThinking(toggle)}
  /\ UNCHANGED <<template, toggle, request, restarts>>

\* The server is started again: its profiles are gone.
Restart ==
  /\ restarts < MaxRestarts
  /\ restarts' = restarts + 1
  /\ profile' = {}
  /\ thinking' = {}
  /\ UNCHANGED <<template, toggle, request>>

Next ==
  \/ \E r \in Requests, shape \in Shapes :
       NoEffort(r, shape) \/ \E raw \in Raws : Sanitize(r, raw, shape)
  \/ \E r \in Requests : Encode(r)
  \/ ThinkingProfile
  \/ Restart

Spec == Init /\ [][Next]_vars

-----------------------------------------------------------------------------

TypeOK ==
  /\ Cardinality(profile) <= 1 /\ Cardinality(thinking) <= 1
  /\ \A p \in profile :
       /\ p.supported \subseteq KNOWN_REASONING_EFFORTS
       /\ p.default \in p.supported \cup {None}
       /\ EffectiveEfforts(p) \subseteq p.supported
  /\ \A r \in Requests : request[r].effort \in KNOWN_REASONING_EFFORTS \cup {None}

(***************************************************************************)
(* The template never rejects the effort a request is left with, in        *)
(* whatever shape the request comes, although only three shapes are        *)
(* probed: a vocabulary is narrowed by every shape that was.               *)
(***************************************************************************)
EffortNeverRejected == \A r \in Requests : request[r].phase # "rejected"

(***************************************************************************)
(* "max" reaches the template only for a client that asked for it by name. *)
(***************************************************************************)
MaxOnlyByName == \A r \in Requests : request[r].effort = "max" => request[r].raw = "max"

(***************************************************************************)
(* A name that a template merely interpolates does not reach it: of a      *)
(* template that rejects nothing only the levels of its dialect are used,  *)
(* or the level that it renders like none.                                 *)
(***************************************************************************)
OnlyGradedLevels ==
  \A r \in Requests : LET e == request[r].effort IN
    e # None /\ template.accepts = KNOWN_REASONING_EFFORTS =>
      \/ e \in GRADED_EFFORT_LADDER
      \/ Rendering(template, request[r].shape, e)
           = Rendering(template, request[r].shape, None)

(***************************************************************************)
(* Quantizing never turns the order of two efforts round: of two requests  *)
(* that are both given a gear, the one that asked for more effort does not *)
(* get less.                                                               *)
(***************************************************************************)
EffortsKeepOrder ==
  \A r, s \in Requests :
    LET asked == {request[r].raw, request[s].raw}
        given == {request[r].effort, request[s].effort}
    IN  asked \cup given \subseteq KNOWN_REASONING_EFFORTS =>
          (EFFORT_SCALE[request[r].raw] < EFFORT_SCALE[request[s].raw] =>
             EFFORT_SCALE[request[r].effort] <= EFFORT_SCALE[request[s].effort])

(***************************************************************************)
(* A gear that the template has, other than "max", within reach of what    *)
(* was asked for is used: the request gets none that is farther away.      *)
(***************************************************************************)
NearestGearServed ==
  \A r \in Requests, p \in profile : LET q == request[r] IN
    q.raw \in KNOWN_REASONING_EFFORTS /\ template.accepts # KNOWN_REASONING_EFFORTS =>
      \A n \in EffectiveEfforts(p) \ {"max"} :
        LET away == Distance(EFFORT_SCALE[n], EFFORT_SCALE[q.raw])
        IN  away <= MAX_QUANTIZE_DISTANCE =>
              /\ q.effort # None
              /\ Distance(EFFORT_SCALE[q.effort], EFFORT_SCALE[q.raw]) <= away

\* Two names share the top of the scale; both may render like no effort.
TiedAtTheTop == {"xhigh", "max"} \subseteq MatchBaseline(template) /\ Rejected(template) = {}

(***************************************************************************)
(* The same effort becomes the same gear for as long as the server runs,   *)
(* and after a restart too, but for the names at the top of the scale with *)
(* a template that interpolates both: which of them is the default is      *)
(* whichever a frozenset gives first (probe_effort_profile, max).          *)
(***************************************************************************)
SameGearUnlessTied ==
  \A r, s \in Requests :
    request[r].raw = request[s].raw /\ "new" \notin {request[r].phase, request[s].phase}
      => \/ request[r].effort = request[s].effort
         \/ /\ request[r].life # request[s].life
            /\ request[r].raw \in {"xhigh", "max"}
            /\ TiedAtTheTop

(***************************************************************************)
(* "Quantization is deterministic across processes" (the docstring of      *)
(* quantize_effort): the same effort becomes the same gear, before a       *)
(* restart and after it.  It fails when the top of the scale is tied.      *)
(***************************************************************************)
SameRawSameGear ==
  \A r, s \in Requests :
    request[r].raw = request[s].raw /\ "new" \notin {request[r].phase, request[s].phase}
      => request[r].effort = request[s].effort

(***************************************************************************)
(* The default state is the one the template renders when it is given no   *)
(* thinking kwarg, whenever that is one of the states it tells apart.      *)
(***************************************************************************)
DefaultStateIsBare ==
  \A t \in thinking :
    /\ t.default = "adaptive" => /\ toggle.bare = toggle.adaptive
                                 /\ toggle.adaptive \notin {toggle.off, toggle.on}
    /\ t.toggleable /\ toggle.bare = toggle.off => t.default = "off"
    /\ t.toggleable /\ toggle.bare = toggle.on => t.default = "on"
=============================================================================
