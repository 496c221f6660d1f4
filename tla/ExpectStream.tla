---------------------------- MODULE ExpectStream ----------------------------
(***************************************************************************)
(* The interceptor of goutils/streams/expect.go: it stands between a       *)
(* client and a service, echoes what each sends to the other, and sends    *)
(* commands to the service when a pattern occurs in a line.                *)
(*                                                                         *)
(* Two goroutines run startStreamHandler: "out" for what the service       *)
(* writes, "in" for what the client types.  A byte is a letter or NL, a    *)
(* pattern is a letter that must occur in the line.  io.Pipe hands a chunk *)
(* over in one step that reader and writer take together; the service      *)
(* reads and writes independently and may stop to read.                    *)
(***************************************************************************)
EXTENDS Integers, Sequences

CONSTANTS
  Expects,     \* expects: [startPattern, endPattern, OnNewLine, Command, Exit]
  HasEndSession, \* whether endSession is set; it closes the client's input
  LineEnd,     \* the byte that ends a line
  Chunks,      \* what is written at once: sequences of bytes
  MaxExpects,  \* bound: expects added
  MaxServed,   \* bound: chunks the service writes
  MaxTyped     \* bound: chunks the client types

Handlers == {"out", "in"}

Alphabet == UNION {{data[i] : i \in DOMAIN data} : data \in Chunks}

ASSUME ChunksAssumption == Chunks \subseteq Seq(Alphabet)

VARIABLES
  owner,       \* "setup", "started", "closeInput", "closeReader", "closeWait", "closed"
  expect,      \* the expects added, in order, with the list each is in
  active,      \* the expects that have matched their start pattern
  popped,      \* number of serial expects done
  running,
  hpc,         \* where a handler is
  chunk,       \* what it has read and not yet searched
  line,        \* its line buffer
  todo,        \* the expects it has still to evaluate for the line
  pipeToUs,    \* the pipe from the service: "open", "eof" or "closed"
  pipeToIt,    \* whether the pipe to the service is open
  inputOpen,   \* whether the client's input is open
  reads,       \* whether the service still reads
  served,      \* history: what the service's writes have handed over
  echoed,      \* what the client was shown
  count        \* number of chunks served and typed

evars == <<owner, expect, active, popped, running, hpc, chunk, line, todo, pipeToUs, pipeToIt,
           inputOpen, reads, served, echoed, count>>

ExpectInit ==
  /\ owner = "setup" /\ expect = <<>> /\ active = {} /\ popped = 0 /\ running = FALSE
  /\ hpc = [h \in Handlers |-> "new"] /\ chunk = [h \in Handlers |-> <<>>]
  /\ line = [h \in Handlers |-> <<>>] /\ todo = [h \in Handlers |-> <<>>]
  /\ pipeToUs = "open" /\ pipeToIt = TRUE /\ inputOpen = TRUE /\ reads = TRUE
  /\ served = <<>> /\ echoed = <<>> /\ count = [h \in Handlers |-> 0]

-----------------------------------------------------------------------------
(* The owner *)
streams == <<hpc, chunk, line, todo, pipeToUs, pipeToIt, inputOpen, reads, served, echoed,
             count>>

(* the lists are kept apart, so that they may be filled one after another *)
Rank(list) == CASE list = "serial" -> 1 [] list = "out" -> 2 [] list = "in" -> 3

AddExpects(more) ==
  /\ owner = "setup" /\ Len(expect) + Len(more) <= MaxExpects
  /\ \A i \in DOMAIN expect : Rank(expect[i].list) <= Rank(more[1].list)
  /\ expect' = expect \o more
  /\ UNCHANGED <<owner, active, popped, running, streams>>

AddExpectOutTrigger(e, serial) ==
  AddExpects(<<[e |-> e, list |-> IF serial THEN "serial" ELSE "out"]>>)

AddExpectInTrigger(e) == AddExpects(<<[e |-> e, list |-> "in"]>>)

StartHandlers ==
  /\ owner = "setup"
  /\ owner' = "started" /\ running' = TRUE
  /\ hpc' = [h \in Handlers |-> "loop"]
  /\ UNCHANGED <<expect, active, popped, chunk, line, todo, pipeToUs, pipeToIt, inputOpen, reads,
                 served, echoed, count>>

(* Close: the four ends of the pipes, of which streamWriter and
   pipedReadStream are one pipe, and the wait for the handlers *)
CloseBegin ==
  /\ owner = "started"
  /\ owner' = "closeInput" /\ running' = FALSE
  /\ pipeToUs' = IF pipeToUs = "open" THEN "eof" ELSE pipeToUs
  /\ UNCHANGED <<expect, active, popped, hpc, chunk, line, todo, pipeToIt, inputOpen, reads,
                 served, echoed, count>>

CloseInput ==
  /\ owner = "closeInput"
  /\ owner' = "closeReader" /\ pipeToIt' = FALSE
  /\ UNCHANGED <<expect, active, popped, running, hpc, chunk, line, todo, pipeToUs, inputOpen,
                 reads, served, echoed, count>>

(* mutant: the read end of the pipe from the service is left open *)
MutCloseReader ==
  /\ owner = "closeReader"
  /\ owner' = "closeWait"
  /\ UNCHANGED <<expect, active, popped, running, hpc, chunk, line, todo, pipeToUs, pipeToIt,
                 inputOpen, reads, served, echoed, count>>

CloseReader ==
  /\ owner = "closeReader"
  /\ owner' = "closeWait" /\ pipeToUs' = "closed"
  /\ UNCHANGED <<expect, active, popped, running, hpc, chunk, line, todo, pipeToIt, inputOpen,
                 reads, served, echoed, count>>

(* mutant: Close does not wait for the handlers *)
MutCloseWait ==
  /\ owner = "closeWait"
  /\ owner' = "closed"
  /\ UNCHANGED <<expect, active, popped, running, streams>>

CloseWait ==
  /\ owner = "closeWait" /\ \A h \in Handlers : hpc[h] = "done"
  /\ owner' = "closed"
  /\ UNCHANGED <<expect, active, popped, running, streams>>

-----------------------------------------------------------------------------
(* startStreamHandler *)
Go(h, at) == hpc' = [hpc EXCEPT ![h] = at]

LoopTop(h) ==
  /\ hpc[h] = "loop"
  /\ Go(h, IF running THEN "read" ELSE "end")
  /\ UNCHANGED <<owner, expect, active, popped, running, chunk, line, todo, pipeToUs, pipeToIt,
                 inputOpen, reads, served, echoed, count>>

(* the service writes a chunk, and the handler reads it *)
ServiceWrites(data) ==
  /\ hpc["out"] = "read" /\ pipeToUs = "open" /\ count["out"] < MaxServed
  /\ Go("out", "echo")
  /\ chunk' = [chunk EXCEPT !["out"] = data]
  /\ served' = served \o data
  /\ count' = [count EXCEPT !["out"] = @ + 1]
  /\ UNCHANGED <<owner, expect, active, popped, running, line, todo, pipeToUs, pipeToIt,
                 inputOpen, reads, echoed>>

ClientTypes(data) ==
  /\ hpc["in"] = "read" /\ inputOpen /\ count["in"] < MaxTyped
  /\ Go("in", "echo")
  /\ chunk' = [chunk EXCEPT !["in"] = data]
  /\ count' = [count EXCEPT !["in"] = @ + 1]
  /\ UNCHANGED <<owner, expect, active, popped, running, line, todo, pipeToUs, pipeToIt,
                 inputOpen, reads, served, echoed>>

(* Read returns io.EOF, and the write that follows is of no bytes; any other
   error ends the loop *)
ReadFails(h) ==
  /\ hpc[h] = "read"
  /\ \/ h = "out" /\ pipeToUs = "eof" /\ Go(h, "echo")
     \/ h = "out" /\ pipeToUs = "closed" /\ Go(h, "end")
     \/ h = "in" /\ ~inputOpen /\ Go(h, "echo")
  /\ chunk' = [chunk EXCEPT ![h] = <<>>]
  /\ UNCHANGED <<owner, expect, active, popped, running, line, todo, pipeToUs, pipeToIt,
                 inputOpen, reads, served, echoed, count>>

(* The part of a chunk up to the first line end, and what is left after it *)
HasEnd(data) == \E i \in DOMAIN data : data[i] = LineEnd
Cut(data) ==
  CHOOSE i \in DOMAIN data : data[i] = LineEnd /\ \A j \in 1 .. i - 1 : data[j] # LineEnd
Segment(data) == IF HasEnd(data) THEN SubSeq(data, 1, Cut(data) - 1) ELSE data
Rest(data) == IF HasEnd(data) THEN SubSeq(data, Cut(data) + 1, Len(data)) ELSE <<>>

(* the expects of a handler, in the order they are evaluated *)
InList(list) == SelectSeq([i \in DOMAIN expect |-> i], LAMBDA i : expect[i].list = list)
Serial == InList("serial")
Evaluated(h) ==
  IF h = "in" THEN InList("in")
  ELSE (IF popped < Len(Serial) THEN <<Serial[popped + 1]>> ELSE <<>>) \o InList("out")

(* the handler goes to the next segment of what it has read, or back *)
Search(h, data) ==
  IF data = <<>>
    THEN /\ Go(h, "loop")
         /\ UNCHANGED <<line, todo>>
    ELSE /\ Go(h, "match")
         /\ line' = [line EXCEPT ![h] = @ \o Segment(data)]
         /\ todo' = [todo EXCEPT ![h] = Evaluated(h)]

(* the write to the client cannot fail; the one to the service needs the
   service to read, and fails when the pipe is closed *)
Echo(h) ==
  /\ hpc[h] = "echo"
  /\ \/ h = "out" /\ echoed' = echoed \o chunk[h] /\ Search(h, chunk[h])
     \/ h = "in" /\ pipeToIt /\ reads /\ Search(h, chunk[h]) /\ UNCHANGED echoed
     \/ h = "in" /\ ~pipeToIt /\ Go(h, "end") /\ UNCHANGED <<line, todo, echoed>>
  /\ UNCHANGED <<owner, expect, active, popped, running, chunk, pipeToUs, pipeToIt, inputOpen,
                 reads, served, count>>

Matches(pattern, text) == \E i \in DOMAIN text : text[i] = pattern

(* processExpect: the expect becomes active, and does what it says when its
   end pattern occurs *)
Evaluate(h) ==
  /\ hpc[h] = "match" /\ todo[h] # <<>>
  /\ LET i == Head(todo[h])
         e == expect[i].e
         due == ~e.OnNewLine \/ HasEnd(chunk[h])
         on == due /\ (i \in active \/ Matches(e.startPattern, line[h]))
         met == on /\ (e.endPattern = "none" \/ Matches(e.endPattern, line[h]))
     IN  /\ active' = IF on THEN active \cup {i} ELSE active
         /\ running' = IF met THEN ~e.Exit ELSE running
         /\ IF met /\ e.Command
              THEN Go(h, "send") /\ UNCHANGED todo
              ELSE todo' = [todo EXCEPT ![h] = Tail(@)] /\ UNCHANGED hpc
  /\ UNCHANGED <<owner, expect, popped, chunk, line, pipeToUs, pipeToIt, inputOpen, reads,
                 served, echoed, count>>

(* the command is written to the service, and a serial expect is done then *)
SendCommand(h) ==
  /\ hpc[h] = "send"
  /\ LET i == Head(todo[h])
     IN  \/ /\ pipeToIt /\ reads
            /\ popped' = IF expect[i].list = "serial" THEN popped + 1 ELSE popped
            /\ todo' = [todo EXCEPT ![h] = Tail(@)]
            /\ Go(h, "match")
         \/ /\ ~pipeToIt
            /\ Go(h, "end")
            /\ UNCHANGED <<popped, todo>>
  /\ UNCHANGED <<owner, expect, active, running, chunk, line, pipeToUs, pipeToIt, inputOpen,
                 reads, served, echoed, count>>

(* the line buffer is emptied at the end of a line *)
NextSegment(h) ==
  /\ hpc[h] = "match" /\ todo[h] = <<>>
  /\ LET rest == Rest(chunk[h])
         kept == IF HasEnd(chunk[h]) THEN <<>> ELSE line[h]
     IN  /\ chunk' = [chunk EXCEPT ![h] = rest]
         /\ IF rest = <<>>
              THEN Go(h, "loop") /\ line' = [line EXCEPT ![h] = kept] /\ UNCHANGED todo
              ELSE /\ line' = [line EXCEPT ![h] = kept \o Segment(rest)]
                   /\ todo' = [todo EXCEPT ![h] = Evaluated(h)]
                   /\ UNCHANGED hpc
  /\ UNCHANGED <<owner, expect, active, popped, running, pipeToUs, pipeToIt, inputOpen, reads,
                 served, echoed, count>>

(* the end of the handler; the one for the service's output ends the session *)
End(h) ==
  /\ hpc[h] = "end"
  /\ Go(h, "done")
  /\ inputOpen' = (inputOpen /\ ~(h = "out" /\ HasEndSession))
  /\ UNCHANGED <<owner, expect, active, popped, running, chunk, line, todo, pipeToUs, pipeToIt,
                 reads, served, echoed, count>>

Handle(h) ==
  LoopTop(h) \/ ReadFails(h) \/ Echo(h) \/ Evaluate(h) \/ SendCommand(h) \/ NextSegment(h) \/ End(h)

(* the client ends its input, or the service its output or its reading;
   bound: one of the three before Close *)
PeerEnds ==
  /\ owner = "started" /\ inputOpen /\ pipeToUs = "open" /\ reads
  /\ \/ inputOpen' = FALSE /\ UNCHANGED <<pipeToUs, reads>>
     \/ pipeToUs' = "eof" /\ UNCHANGED <<inputOpen, reads>>
     \/ reads' = FALSE /\ UNCHANGED <<inputOpen, pipeToUs>>
  /\ UNCHANGED <<owner, expect, active, popped, running, hpc, chunk, line, todo, pipeToIt,
                 served, echoed, count>>

Closing == CloseInput \/ CloseReader \/ CloseWait

ExpectNext ==
  \/ \E e \in Expects : AddExpectInTrigger(e) \/ \E serial \in BOOLEAN : AddExpectOutTrigger(e, serial)
  \/ StartHandlers \/ CloseBegin \/ Closing \/ PeerEnds
  \/ \E data \in Chunks : ServiceWrites(data) \/ ClientTypes(data)
  \/ \E h \in Handlers : Handle(h)

ExpectSpec == ExpectInit /\ [][ExpectNext]_evars

(* the handlers, and Close once it is called, run on *)
ExpectFairness ==
  /\ WF_evars(Closing)
  /\ WF_evars(Handle("out")) /\ WF_evars(Handle("in"))

-----------------------------------------------------------------------------
(***************************************************************************)
(* The client is shown the service's output as it was written, nothing     *)
(* twice and nothing out of order, and once Close has returned all of it:  *)
(* the chunk a handler had read when Close, or an exit, stopped it is not  *)
(* lost.                                                                   *)
(***************************************************************************)
FlushedOnClose ==
  /\ Len(echoed) <= Len(served) /\ echoed = SubSeq(served, 1, Len(echoed))
  /\ owner = "closed" => echoed = served

(***************************************************************************)
(* Close returns, whatever the handlers are in, when endSession closes the *)
(* client's input: a write to a service that does not read is released,    *)
(* the client's input is, and a handler that sets running again in         *)
(* processExpect, after Close has reset it, ends all the same.             *)
(***************************************************************************)
CloseReturns == (owner = "closeInput" /\ HasEndSession) ~> (owner = "closed")
=============================================================================
