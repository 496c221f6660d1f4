----------------------------- MODULE FilterOps ------------------------------
(***************************************************************************)
(* The output filter of goutils/streams/filter_writer.go as records and    *)
(* operators on them; FilterWriter makes them actions and Cli puts them    *)
(* between a process and its reader.                                       *)
(*                                                                         *)
(* A byte is a letter or NL.  A pattern is a letter and matches the lines  *)
(* that contain it, so that a list of patterns is a set of letters.        *)
(***************************************************************************)
EXTENDS Integers, Sequences, FiniteSets

NL == "nl"

(* the zero value of Filter, as `var filter streams.Filter` makes it *)
NewFilter ==
  [filterType |-> "undefined", state |-> "include",
   excludeAfter |-> {}, includeAfter |-> {}, exclude |-> {}, include |-> {},
   hasExcludeAfter |-> FALSE, hasIncludeAfter |-> FALSE,
   hasExclude |-> FALSE, hasInclude |-> FALSE]

(* the flags has... are left as they are *)
ClearPatterns(f) ==
  [f EXCEPT !.filterType = "passThru", !.state = "include",
            !.excludeAfter = {}, !.includeAfter = {}, !.exclude = {}, !.include = {}]

SetPassThru(f) == [f EXCEPT !.filterType = "passThru", !.state = "include"]

SetBlackHole(f) == [f EXCEPT !.filterType = "blackHole", !.state = "exclude"]

AddExcludeAfterPattern(f, p) ==
  [f EXCEPT !.filterType = "applyFilters",
            !.state = IF f.includeAfter = {} THEN "include" ELSE @,
            !.excludeAfter = @ \cup {p}, !.hasExcludeAfter = TRUE]

AddIncludeAfterPattern(f, p) ==
  [f EXCEPT !.filterType = "applyFilters",
            !.state = IF f.excludeAfter = {} THEN "exclude" ELSE @,
            !.includeAfter = @ \cup {p}, !.hasIncludeAfter = TRUE]

AddExcludePattern(f, p) ==
  [f EXCEPT !.filterType = "applyFilters", !.exclude = @ \cup {p}, !.hasExclude = TRUE]

AddIncludePattern(f, p) ==
  [f EXCEPT !.filterType = "applyFilters", !.include = @ \cup {p}, !.hasInclude = TRUE]

isMatch(patterns, line) == \E i \in 1 .. Len(line) : line[i] \in patterns

-----------------------------------------------------------------------------
(* A writer is its filter and the line it has begun.  What Write does is
   `out`, the bytes it passes on, and what it returns: nil or an error. *)
NewFilterWriter(f) == [filter |-> f, currentLine |-> <<>>]

(* whether a complete line, in the state that includes, is passed on *)
Passes(f, line) ==
  /\ ~f.hasInclude \/ isMatch(f.include, line)
  /\ ~f.hasExclude \/ ~isMatch(f.exclude, line)

(* mutant: a line that excludes what follows makes the filter a black hole,
   whether or not a later line may include again *)
MutAfterLine(f, line) ==
  CASE f.state = "include" /\ isMatch(f.excludeAfter, line) ->
         [f EXCEPT !.state = "exclude", !.filterType = "blackHole"]
    [] f.state = "exclude" /\ isMatch(f.includeAfter, line) ->
         [f EXCEPT !.state = "include",
                   !.filterType = IF f.hasExcludeAfter THEN @ ELSE "passThru"]
    [] OTHER -> f

(* the filter after a complete line *)
AfterLine(f, line) ==
  CASE f.state = "include" /\ isMatch(f.excludeAfter, line) ->
         [f EXCEPT !.state = "exclude",
                   !.filterType = IF f.hasIncludeAfter THEN @ ELSE "blackHole"]
    [] f.state = "exclude" /\ isMatch(f.includeAfter, line) ->
         [f EXCEPT !.state = "include",
                   !.filterType = IF f.hasExcludeAfter THEN @ ELSE "passThru"]
    [] OTHER -> f

(* One turn of the loop in Write over the bytes of a chunk.  The loop is
   left when the filter becomes a black hole or passes everything, and in
   the latter case the rest of the chunk is written. *)
WriteByte(w, b) ==
  LET line == w.currentLine IN
  CASE w.filter.filterType = "blackHole" -> w
    [] w.filter.filterType = "passThru" -> [w EXCEPT !.out = Append(@, b)]
    [] w.filter.filterType = "applyFilters" /\ b # NL -> [w EXCEPT !.currentLine = Append(@, b)]
    [] w.filter.filterType = "applyFilters" /\ b = NL ->
         [filter |-> AfterLine(w.filter, line), currentLine |-> <<>>,
          out |-> IF w.filter.state = "include" /\ Passes(w.filter, line)
                    THEN w.out \o Append(line, NL) ELSE w.out]

(* Write: the writer left behind, what went to the output buffer, and
   whether an error is returned *)
Write(w, data) ==
  IF w.filter.filterType = "undefined"
    THEN [writer |-> w, out |-> <<>>, err |-> TRUE]
    ELSE LET after[i \in 0 .. Len(data)] ==
               IF i = 0 THEN [filter |-> w.filter, currentLine |-> w.currentLine, out |-> <<>>]
                        ELSE WriteByte(after[i - 1], data[i])
             r == after[Len(data)]
         IN  [writer |-> [filter |-> r.filter, currentLine |-> r.currentLine],
              out |-> r.out, err |-> FALSE]

(* Close flushes a line without an end, whatever its text, and leaves it in
   the buffer *)
CloseWriter(w) ==
  [writer |-> [w EXCEPT !.filter.filterType = "undefined"],
   out |-> IF w.filter.state = "include" THEN w.currentLine ELSE <<>>,
   err |-> FALSE]

-----------------------------------------------------------------------------
(* The reference: what a filter makes of a whole text.  Line ends are the
   positions of NL; a line is included if the last line before it that
   switches says so, and the lines that switch are found from the patterns
   alone. *)
LineEnds(text) == SelectSeq([i \in DOMAIN text |-> i], LAMBDA i : text[i] = NL)

(* the n-th complete line of a text, without its end *)
LineOf(text, n) ==
  LET ends == LineEnds(text)
  IN  SubSeq(text, IF n = 1 THEN 1 ELSE ends[n - 1] + 1, ends[n] - 1)

(* included[n] tells whether line n is, the line after the last one as well *)
Included(f, text) ==
  LET included[n \in 1 .. Len(LineEnds(text)) + 1] ==
        IF n = 1 THEN f.state = "include"
        ELSE IF included[n - 1] THEN ~isMatch(f.excludeAfter, LineOf(text, n - 1))
                                ELSE isMatch(f.includeAfter, LineOf(text, n - 1))
  IN included

(* once nothing can exclude again after an include-after line, the single
   line patterns do not apply any more *)
Unfiltered(f, text, n) == f.excludeAfter = {} /\ f.state = "exclude" /\ Included(f, text)[n]

LineShown(f, text, n) ==
  /\ Included(f, text)[n]
  /\ \/ Unfiltered(f, text, n)
     \/ /\ f.include = {} \/ isMatch(f.include, LineOf(text, n))
        /\ ~isMatch(f.exclude, LineOf(text, n))

(* the text after the last line end *)
Unended(text) ==
  LET ends == LineEnds(text)
  IN  IF ends = <<>> THEN text ELSE SubSeq(text, ends[Len(ends)] + 1, Len(text))

(* what a filter shows of a text, closed or not *)
Filtered(f, text, closed) ==
  LET count == Len(LineEnds(text))
      shown[n \in 0 .. count] ==
        IF n = 0 THEN <<>>
        ELSE IF LineShown(f, text, n) THEN shown[n - 1] \o Append(LineOf(text, n), NL)
                                      ELSE shown[n - 1]
      rest  == IF /\ Included(f, text)[count + 1]
                  /\ closed \/ Unfiltered(f, text, count + 1)
                 THEN Unended(text) ELSE <<>>
  IN  CASE f.filterType = "passThru" -> text
        [] f.filterType = "blackHole" -> <<>>
        [] f.filterType = "undefined" -> <<>>
        [] OTHER -> shown[count] \o rest
=============================================================================
