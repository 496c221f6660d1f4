-------------------------------- MODULE Cli ---------------------------------
(***************************************************************************)
(* The command runner of goutils/run/cli.go: a caller that filters and     *)
(* pipes the output of commands, the processes, the goroutines of os/exec  *)
(* that copy their output, and the readers of the pipes.                   *)
(*                                                                         *)
(* An output writer is the stages between a process and the buffer the CLI *)
(* was made with: a filter, a pipe, and whether the filter lies over the   *)
(* pipe.  A pipe is read until its end, so a write to it is one step; a    *)
(* copier moves one byte at a time (FilterWriter shows that the size of    *)
(* the chunks does not matter).  A goroutine begins to run before the      *)
(* timer of the call that started it fires.  Of the error stream only the  *)
(* buffers are modelled: it has no filter, and is copied like the output.  *)
(* Each filter is applied once, since Close leaves it undefined.           *)
(***************************************************************************)
EXTENDS FilterOps

CONSTANTS
  OutputFilters,  \* the filters ApplyFilter is called with
  OutputBytes,    \* the bytes a process writes
  MaxCommands,    \* bound: calls of StartWithEnv
  MaxStages,      \* bound: filters and pipes made
  MaxOutput       \* bound: bytes written by all processes

VARIABLES
  c,         \* the fields of the cli
  filters,   \* the filter writers made: the filter, and the writer
  pipes,     \* the pipes made: closed, what was read, whether the reader is done
  commands,  \* the exec.Cmds made
  caller,    \* what the caller is in: "idle", "wait", "signal", "stopWait", "killWait"
  timed,     \* which of Wait's and Stop's timeouts are set
  leaked,    \* history: a Stop ended with its signal, and nothing was cleaned up since
  dead       \* a panic

clivars == <<c, filters, pipes, commands, caller, timed, leaked, dead>>

Buffer == [filter |-> 0, pipe |-> 0, over |-> FALSE]   \* what the CLI was made with
Nil == [Buffer EXCEPT !.pipe = -1]

NoTimeout == [run |-> FALSE, stop |-> FALSE]

Cmd == commands[c.command]

NewCLI ==
  [outputBuffer |-> Buffer, errorBuffer |-> Buffer, outBuffer |-> Nil, errBuffer |-> Nil,
   outPipeWriter |-> 0, errPipeWriter |-> 0, outFilteredWriter |-> 0,
   outUnfilteredBuffer |-> Nil, filteredAll |-> FALSE, command |-> 0]

CliInit ==
  /\ c = NewCLI /\ filters = <<>> /\ pipes = <<>> /\ commands = <<>>
  /\ caller = "idle" /\ timed = NoTimeout
  /\ leaked = FALSE /\ dead = FALSE

-----------------------------------------------------------------------------
(* The caller sets up the output *)
Panic ==
  /\ dead' = TRUE
  /\ UNCHANGED <<c, filters, pipes, commands, caller, timed, leaked>>

Idle == caller = "idle" /\ ~dead

(* The caller sets up the output, and starts a command, at first, and when
   the last one could not be started or was not cleaned up.  Bound: a cli
   that was cleaned up is as new (StagesLive), and is not used again. *)
Free ==
  /\ Idle /\ Len(commands) < MaxCommands
  /\ commands # <<>> => c.command # 0 /\ (leaked \/ Cmd.state = "unstarted")

ApplyFilter(f) ==
  /\ Free /\ c.outUnfilteredBuffer = Nil /\ Len(filters) + Len(pipes) < MaxStages
  /\ filters' = Append(filters, [filter |-> f, writer |-> NewFilterWriter(f)])
  /\ c' = [c EXCEPT !.filteredAll = c.outPipeWriter # 0,
                    !.outUnfilteredBuffer = c.outputBuffer,
                    !.outFilteredWriter = Len(filters) + 1,
                    !.outputBuffer = [@ EXCEPT !.filter = Len(filters) + 1,
                                               !.over = c.outputBuffer.pipe # 0]]
  /\ UNCHANGED <<pipes, commands, caller, timed, leaked, dead>>

NewPipe == [closed |-> FALSE, got |-> <<>>, ended |-> FALSE]

GetPipedOutputBuffer ==
  /\ Free /\ c.outPipeWriter = 0 /\ Len(filters) + Len(pipes) < MaxStages
  /\ pipes' = Append(pipes, NewPipe)
  /\ c' = [c EXCEPT !.outBuffer = c.outputBuffer, !.outPipeWriter = Len(pipes) + 1,
                    !.outputBuffer.pipe = Len(pipes) + 1]
  /\ UNCHANGED <<filters, commands, caller, timed, leaked, dead>>

GetPipedErrorBuffer ==
  /\ Free /\ c.errPipeWriter = 0 /\ Len(filters) + Len(pipes) < MaxStages
  /\ pipes' = Append(pipes, NewPipe)
  /\ c' = [c EXCEPT !.errBuffer = c.errorBuffer, !.errPipeWriter = Len(pipes) + 1,
                    !.errorBuffer.pipe = Len(pipes) + 1]
  /\ UNCHANGED <<filters, commands, caller, timed, leaked, dead>>

(* a second filter or pipe panics *)
SetUpTwice ==
  /\ Free
  /\ \/ c.outUnfilteredBuffer # Nil
     \/ c.outPipeWriter # 0
     \/ c.errPipeWriter # 0
  /\ Panic

-----------------------------------------------------------------------------
(* Start, Wait and Stop *)
NewCommand(started) ==
  [state |-> IF started THEN "running" ELSE "unstarted",
   awaited |-> FALSE, waited |-> FALSE, complete |-> FALSE, shown |-> <<>>,
   writer |-> c.outputBuffer, sent |-> <<>>, copied |-> 0, copying |-> started]

StartWithEnv(started) ==
  /\ Free
  /\ commands' = Append(commands, NewCommand(started))
  /\ c' = [c EXCEPT !.command = Len(commands) + 1]
  /\ UNCHANGED <<filters, pipes, caller, timed, leaked, dead>>

Update(new) == commands' = [commands EXCEPT ![c.command] = new]

Call(next, new) ==
  /\ caller' = next /\ Update(new)
  /\ UNCHANGED <<c, filters, pipes, leaked, dead>>

(* the pipes and the filter are closed and the buffers put back *)
CloseStages(new) ==
  LET f == c.outFilteredWriter
      held == {c.outPipeWriter, c.errPipeWriter}
      r == CloseWriter(filters[f].writer)
      \* the flush fails on the pipe, which is closed, and Close returns there
      fails == c.filteredAll /\ filters[f].writer.filter.state = "include"
  IN  /\ pipes' = [i \in DOMAIN pipes |->
                     IF i \in held THEN [pipes[i] EXCEPT !.closed = TRUE] ELSE pipes[i]]
      /\ IF c.outUnfilteredBuffer = Nil
           THEN Update(new) /\ UNCHANGED filters
           ELSE /\ Update([new EXCEPT !.shown = @ \o r.out])
                /\ filters' = IF fails THEN filters ELSE [filters EXCEPT ![f].writer = r.writer]

(* mutant: the buffer saved when the pipe was made is put back as it is *)
MutRestored ==
  CASE c.outBuffer # Nil -> c.outBuffer
    [] c.outBuffer = Nil /\ c.outUnfilteredBuffer # Nil -> c.outUnfilteredBuffer
    [] OTHER -> c.outputBuffer

(* the output buffer that is put back *)
Restored ==
  CASE c.outBuffer # Nil ->
         IF c.outUnfilteredBuffer # Nil /\ ~c.filteredAll
           THEN c.outUnfilteredBuffer ELSE c.outBuffer
    [] c.outBuffer = Nil /\ c.outUnfilteredBuffer # Nil -> c.outUnfilteredBuffer
    [] OTHER -> c.outputBuffer

cleanUp(new) ==
  /\ CloseStages(new)
  /\ c' = [NewCLI EXCEPT !.outputBuffer = Restored,
                         !.errorBuffer = IF c.errBuffer # Nil THEN c.errBuffer ELSE c.errorBuffer]
  /\ caller' = "idle" /\ leaked' = FALSE /\ timed' = NoTimeout
  /\ UNCHANGED dead

(* Wait with or without a timeout, and with one or none for its Stop *)
Wait(run, stop) ==
  /\ Idle /\ c.command # 0
  /\ caller' = "wait" /\ timed' = [run |-> run, stop |-> stop]
  /\ Update([Cmd EXCEPT !.awaited = TRUE])
  /\ UNCHANGED <<c, filters, pipes, leaked, dead>>

(* mutant: the copiers are not waited for *)
MutCopied == TRUE

Copied == ~Cmd.copying

(* command.Wait returns when the process has ended and its output is copied,
   and at once when nothing was started or Wait was called before *)
WaitDone ==
  /\ caller = "wait" /\ ~dead
  /\ \/ Cmd.state = "unstarted" /\ cleanUp(Cmd)
     \/ Cmd.state = "reaped" /\ Cmd.waited /\ cleanUp(Cmd)
     \/ Cmd.state = "reaped" /\ Copied /\ cleanUp([Cmd EXCEPT !.complete = TRUE])

(* mutant: a Wait that times out returns without stopping the command *)
MutWaitTimeout ==
  /\ caller = "wait" /\ timed.run /\ ~dead
  /\ Cmd.state # "unstarted"
  /\ Call("idle", Cmd) /\ UNCHANGED timed

WaitTimeout ==
  /\ caller = "wait" /\ timed.run /\ ~dead
  /\ Cmd.state # "unstarted"
  /\ Call("signal", Cmd) /\ UNCHANGED timed

Stop(stop) ==
  /\ Idle /\ c.command # 0
  /\ timed' = [run |-> FALSE, stop |-> stop]
  /\ Call("signal", Cmd)

(* Process is nil when Start failed.  The signal fails when the command.Wait
   of a Wait that timed out has got the process' state after all; nothing is
   cleaned up then. *)
Signal ==
  /\ caller = "signal" /\ ~dead
  /\ \/ Cmd.state = "unstarted" /\ Panic
     \/ /\ Cmd.state = "reaped"
        /\ caller' = "idle" /\ leaked' = TRUE /\ timed' = NoTimeout
        /\ Update([Cmd EXCEPT !.waited = TRUE])
        /\ UNCHANGED <<c, filters, pipes, dead>>
     \/ /\ Cmd.state \in {"running", "exited"}
        /\ Call("stopWait", [Cmd EXCEPT !.awaited = TRUE])
        /\ UNCHANGED timed

StopTimeout ==
  /\ caller = "stopWait" /\ timed.stop /\ ~dead
  /\ Call("killWait", Cmd)
  /\ UNCHANGED timed

(* Process.Wait has returned, or the process could not be killed in time *)
StopDone ==
  /\ \/ caller = "stopWait" /\ Cmd.state = "reaped"
     \/ caller = "killWait"
  /\ ~dead
  /\ cleanUp(Cmd)

-----------------------------------------------------------------------------
(* The processes, the goroutines of os/exec and the readers *)
Change(k, new) ==
  /\ commands' = [commands EXCEPT ![k] = new]
  /\ UNCHANGED <<c, filters, pipes, caller, timed, leaked, dead>>

(* how much the processes have written, which MaxOutput bounds *)
Written ==
  LET upTo[n \in 0 .. Len(commands)] ==
        IF n = 0 THEN 0 ELSE upTo[n - 1] + Len(commands[n].sent)
  IN  upTo[Len(commands)]

(* what a process writes is copied when it lies in its pipe, so that it may
   write it all at once *)
WriteOutput(k, text) ==
  /\ commands[k].state = "running" /\ commands[k].sent = <<>> /\ ~dead
  /\ Written + Len(text) <= MaxOutput
  /\ Change(k, [commands[k] EXCEPT !.sent = text])

Exit(k) ==
  /\ commands[k].state = "running" /\ ~dead
  /\ Change(k, [commands[k] EXCEPT !.state = "exited"])

(* a call that waits for the process, or waited until it timed out, gets
   its state *)
Reap(k) ==
  /\ commands[k].state = "exited" /\ commands[k].awaited /\ ~dead
  /\ Change(k, [commands[k] EXCEPT !.state = "reaped"])

(* a byte goes through the stages; a stage that fails ends the copier *)
Copy(k) ==
  /\ commands[k].copying /\ commands[k].copied < Len(commands[k].sent) /\ ~dead
  /\ LET b == commands[k].sent[commands[k].copied + 1]
         w == commands[k].writer
         r == IF w.filter = 0 THEN [out |-> <<b>>, err |-> FALSE]
                              ELSE Write(filters[w.filter].writer, <<b>>)
         piped == IF w.over THEN r.out ELSE <<b>>
         toPipe == w.pipe # 0 /\ piped # <<>> /\ ~r.err
         fails == r.err \/ (toPipe /\ pipes[w.pipe].closed)
     IN  /\ commands' =
              [commands EXCEPT ![k].copied = @ + 1, ![k].copying = ~fails,
                               ![k].shown = @ \o r.out]
         /\ filters' = IF w.filter = 0 THEN filters
                       ELSE [filters EXCEPT ![w.filter].writer = r.writer]
         /\ pipes' = IF toPipe /\ ~fails THEN [pipes EXCEPT ![w.pipe].got = @ \o piped] ELSE pipes
  /\ UNCHANGED <<c, caller, timed, leaked, dead>>

CopyEnd(k) ==
  /\ commands[k].copying /\ commands[k].copied = Len(commands[k].sent)
  /\ commands[k].state \in {"exited", "reaped"} /\ ~dead
  /\ Change(k, [commands[k] EXCEPT !.copying = FALSE])

(* the reader of a pipe gets to its end *)
ReadEnd(i) ==
  /\ pipes[i].closed /\ ~pipes[i].ended /\ ~dead
  /\ pipes' = [pipes EXCEPT ![i].ended = TRUE]
  /\ UNCHANGED <<c, filters, commands, caller, timed, leaked, dead>>

Texts == UNION {[1 .. n -> OutputBytes] : n \in 1 .. MaxOutput}

Returns == WaitDone \/ WaitTimeout \/ Signal \/ StopTimeout \/ StopDone

CliNext ==
  \/ \E f \in OutputFilters : ApplyFilter(f)
  \/ GetPipedOutputBuffer \/ GetPipedErrorBuffer \/ SetUpTwice
  \/ \E started \in BOOLEAN : StartWithEnv(started)
  \/ \E run, stop \in BOOLEAN : (stop => run) /\ Wait(run, stop)
  \/ \E stop \in BOOLEAN : Stop(stop)
  \/ Returns
  \/ \E k \in DOMAIN commands :
       \/ Exit(k) \/ Reap(k) \/ Copy(k) \/ CopyEnd(k)
       \/ \E text \in Texts : WriteOutput(k, text)
  \/ \E i \in DOMAIN pipes : ReadEnd(i)

CliSpec == CliInit /\ [][CliNext]_clivars

(* a call that can go on does, timers fire, and a pipe is read; a process
   need not end, and nothing is asked of the copiers *)
CliFairness == WF_clivars(Returns \/ \E i \in DOMAIN pipes : ReadEnd(i))

-----------------------------------------------------------------------------
(* no other command, started after a cleanup that was left out, wrote to
   the filter or the pipe of this one *)
Sole(k) ==
  \A j \in DOMAIN commands \ {k} :
    commands[j].state # "unstarted" =>
      LET v == commands[j].writer
          w == commands[k].writer
      IN  (v.filter = w.filter => w.filter = 0) /\ (v.pipe = w.pipe => w.pipe = 0)

(***************************************************************************)
(* A Wait that the command's end, and no timeout, returns from leaves the  *)
(* command's whole output in the buffer: what the filter makes of it, the  *)
(* last line included when it has no end.  The reader of the pipe has got  *)
(* the same, or all of it when the pipe lies over the filter; a last line  *)
(* without an end does not get through a filter that lies over the pipe,   *)
(* since cleanUp closes the pipe before the filter.                        *)
(***************************************************************************)
OutputComplete ==
  \A k \in DOMAIN commands :
    commands[k].complete /\ Sole(k) =>
      LET w == commands[k].writer
          text == commands[k].sent
          Through(closed) == IF w.filter = 0 THEN text
                             ELSE Filtered(filters[w.filter].filter, text, closed)
      IN  /\ commands[k].shown = Through(TRUE)
          /\ w.pipe # 0 => pipes[w.pipe].got = IF w.over THEN Through(FALSE) ELSE text

(***************************************************************************)
(* What the next command would write to is in use: after any sequence of   *)
(* ApplyFilter, GetPipedOutputBuffer, Start, Wait and Stop, in any order,  *)
(* the output goes through no pipe that is closed and no filter that is    *)
(* ended, only through those the cli still knows of, and through none      *)
(* after a cleanup.                                                        *)
(***************************************************************************)
StagesLive ==
  /\ c.command = 0 /\ commands # <<>> => c = NewCLI
  /\ c.outputBuffer.filter = c.outFilteredWriter
  /\ c.outputBuffer.pipe = c.outPipeWriter
  /\ c.errorBuffer.pipe = c.errPipeWriter
  /\ \A i \in {c.outPipeWriter, c.errPipeWriter} \ {0} : ~pipes[i].closed

(* a call that is bound to return *)
Bounded == \/ caller \in {"signal", "stopWait"} /\ timed.stop
           \/ caller = "wait" /\ timed.run /\ timed.stop
           \/ caller = "killWait"

(***************************************************************************)
(* The readers of the pipes get to the end of their input after a Wait or  *)
(* a Stop with timeouts, whether or not the process ends.  The exception   *)
(* is the Stop of a Wait that timed out while the process ended, which     *)
(* returns the error of the signal and cleans up nothing.                  *)
(***************************************************************************)
PipeEnds == Bounded ~> (leaked \/ dead \/ \A i \in DOMAIN pipes : pipes[i].ended)
=============================================================================
