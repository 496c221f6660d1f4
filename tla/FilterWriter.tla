---------------------------- MODULE FilterWriter ----------------------------
(***************************************************************************)
(* A filter is set up, and a text is written through it in chunks of any   *)
(* size until the writer is closed.                                        *)
(***************************************************************************)
EXTENDS FilterOps

CONSTANTS
  Letters,      \* the bytes other than NL
  Patterns,     \* the letters used as patterns
  MaxPatterns,  \* bound: patterns added to the filter
  MaxText       \* bound: length of the text written

VARIABLES
  phase,   \* "setup", "writing" or "closed"
  added,   \* number of patterns added
  filter,  \* the filter, and as it was when the writer was made
  writer,  \* the filterWriter
  text,    \* history: everything written
  shown    \* the output buffer

fvars == <<phase, added, filter, writer, text, shown>>

FilterInit ==
  /\ phase = "setup" /\ added = 0
  /\ filter = NewFilter /\ writer = NewFilterWriter(NewFilter)
  /\ text = <<>> /\ shown = <<>>

AddPattern(p) ==
  /\ phase = "setup" /\ added < MaxPatterns
  /\ added' = added + 1
  /\ \/ filter' = AddExcludeAfterPattern(filter, p)
     \/ filter' = AddIncludeAfterPattern(filter, p)
     \/ filter' = AddExcludePattern(filter, p)
     \/ filter' = AddIncludePattern(filter, p)
  /\ UNCHANGED <<phase, writer, text, shown>>

SetType ==
  /\ phase = "setup"
  /\ \/ filter' = ClearPatterns(filter)
     \/ filter' = SetPassThru(filter)
     \/ filter' = SetBlackHole(filter)
  /\ UNCHANGED <<phase, added, writer, text, shown>>

MakeWriter ==
  /\ phase = "setup"
  /\ phase' = "writing"
  /\ writer' = NewFilterWriter(filter)
  /\ UNCHANGED <<added, filter, text, shown>>

(* a chunk the writer refuses does not count as written *)
WriteChunk(data) ==
  /\ phase = "writing" /\ Len(text) + Len(data) <= MaxText
  /\ LET r == Write(writer, data) IN
       /\ writer' = r.writer
       /\ shown' = shown \o r.out
       /\ text' = IF r.err THEN text ELSE text \o data
  /\ UNCHANGED <<phase, added, filter>>

CloseFilter ==
  /\ phase = "writing"
  /\ phase' = "closed"
  /\ LET r == CloseWriter(writer) IN writer' = r.writer /\ shown' = shown \o r.out
  /\ UNCHANGED <<added, filter, text>>

Chunks == UNION {[1 .. n -> Letters \cup {NL}] : n \in 1 .. MaxText}

FilterNext ==
  \/ \E p \in Patterns : AddPattern(p)
  \/ SetType
  \/ MakeWriter
  \/ \E data \in Chunks : WriteChunk(data)
  \/ CloseFilter

-----------------------------------------------------------------------------
(* ClearPatterns leaves the flags of the lists it empties *)
FlagsAgree ==
  /\ filter.hasExcludeAfter <=> filter.excludeAfter # {}
  /\ filter.hasIncludeAfter <=> filter.includeAfter # {}
  /\ filter.hasExclude <=> filter.exclude # {}
  /\ filter.hasInclude <=> filter.include # {}

(***************************************************************************)
(* What Write and Close have passed on is what the filter makes of the     *)
(* text as a whole: it does not depend on how the text was cut into        *)
(* chunks, nor on where a line that switches the filter falls in a chunk.  *)
(* A filter whose patterns were cleared, with more added afterwards, is    *)
(* excepted: its flags still speak of the old patterns.                    *)
(***************************************************************************)
FilterExact ==
  FlagsAgree => shown = Filtered(filter, text, phase = "closed")
=============================================================================
