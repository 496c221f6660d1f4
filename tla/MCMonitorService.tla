-------------------------- MODULE MCMonitorService --------------------------
(***************************************************************************)
(* An instance of MonitorService for TLC, and what the payloads add up to. *)
(***************************************************************************)
EXTENDS MonitorService, FiniteSetsExt

CONSTANTS c1, m1, p1, p2

MCCounters == {c1}
MCMonitors == {m1}
MCPosts == {p1, p2}
MCValues == {1}

Recorded(i, c) == MapThenSumSet(LAMBDA s : IF s[1] = c THEN s[2] ELSE 0, content[i])

(* the payloads that are delivered, queued or in a goroutine's hands *)
Held ==
  delivered \cup Elements(eventPayloads)
    \cup UNION {Elements(batch[p]) : p \in {q \in Posts : InHand(q)}}

(***************************************************************************)
(* The measurements add up: what a cumulative counter counts is what the   *)
(* payloads that still exist have recorded of it plus what is yet to be    *)
(* collected.                                                              *)
(***************************************************************************)
Measured ==
  \A c \in Cumalative :
    Get(counter[c]) = counter[c].value + MapThenSumSet(LAMBDA i : Recorded(i, c), Held)
=============================================================================
