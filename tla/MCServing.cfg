SPECIFICATION Spec
CONSTANTS
  Parts = {"tagged", "untagged", "shared", "tools", "words", "halves", "effort", "efforts", "thinking"}
INVARIANTS
  EventsCarryTheReply
  CallsAreTheBlocks
  SentIsTheDecoding
  EffortIsServed
