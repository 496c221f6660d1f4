----------------------------- MODULE MCSessions -----------------------------
(***************************************************************************)
(* An instance for TLC of the sessions with a peer the program does not    *)
(* control: a command, a service behind an expect stream, and a browser.   *)
(* A behaviour is one of the three; the others stay as they were made.     *)
(***************************************************************************)
EXTENDS Cli, ExpectStream, Authenticator

VARIABLE session   \* the session

allvars == <<session, clivars, evars, avars>>

MCOutputFilters == {AddExcludePattern(NewFilter, "a")}
MCOutputBytes == {"a", NL}

(* an expect that sends a command, and one that exits after two lines *)
MCExpects ==
  {[startPattern |-> "a", endPattern |-> "none", OnNewLine |-> FALSE, Command |-> TRUE,
    Exit |-> FALSE],
   [startPattern |-> "a", endPattern |-> "b", OnNewLine |-> TRUE, Command |-> FALSE,
    Exit |-> TRUE]}

MCChunks == {<<"a", "b", NL, "b">>}

AllInit ==
  /\ session \in {"command", "expect", "oauth"}
  /\ CliInit /\ ExpectInit /\ AuthInit

AllNext ==
  /\ UNCHANGED session
  /\ \/ session = "command" /\ CliNext /\ UNCHANGED <<evars, avars>>
     \/ session = "expect" /\ ExpectNext /\ UNCHANGED <<clivars, avars>>
     \/ session = "oauth" /\ AuthNext /\ UNCHANGED <<clivars, evars>>

AllSpec ==
  AllInit /\ [][AllNext]_allvars /\ CliFairness /\ ExpectFairness /\ AuthFairness
=============================================================================
