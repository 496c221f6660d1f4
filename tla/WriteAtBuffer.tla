---------------------------- MODULE WriteAtBuffer ----------------------------
(***************************************************************************)
(* The buffer of goutils/streams/writeat_buffer.go, which turns writes at  *)
(* offsets in any order into one stream.                                   *)
(*                                                                         *)
(* The content has Size bytes, and the byte at offset p is p itself, so    *)
(* that a run of bytes is the interval it covers.  It is cut into chunks   *)
(* at `cuts`, and each chunk is written once.  The output writer takes     *)
(* all it is given, or fewer bytes with or without an error; a step is the *)
(* code between two of its calls.                                          *)
(***************************************************************************)
EXTENDS Integers, Sequences, FiniteSets

CONSTANT Size   \* length of the content

ASSUME SizeAssumption == Size \in Nat

VARIABLES
  cuts,        \* the offsets at which chunks begin
  done,        \* the chunks WriteAt was called with
  outAt,       \* position up to which the output was written
  bufferSlot,  \* sequence of [pos, size], in the order of pos
  data,        \* the output: a sequence of bytes
  flushing,    \* whether WriteAt is in its loop over the slots
  failed       \* history: the output writer took less than it was given

wvars == <<cuts, done, outAt, bufferSlot, data, flushing, failed>>

Offsets == 0 .. Size - 1

(* the bytes from offset pos on *)
Bytes(pos, size) == [i \in 1 .. size |-> pos + i - 1]

(* the bytes from p up to e are one chunk of the content *)
Chunk(p, e) ==
  /\ p \in cuts /\ e \in cuts \cup {Size} /\ p < e
  /\ \A c \in cuts : c <= p \/ c >= e

WriteAtInit ==
  /\ cuts \in {C \in SUBSET Offsets : 0 \in C \/ Size = 0}
  /\ done = {} /\ outAt = 0 /\ bufferSlot = <<>> /\ data = <<>>
  /\ flushing = FALSE /\ failed = FALSE

(* mutant: slots are searched for the last one of a lower position only *)
MutPlace(slots, index, pos) ==
  /\ index \in 0 .. Len(slots)
  /\ index > 0 => slots[index].pos < pos

(* sort.Search: the first index at which the position is higher *)
Place(slots, index, pos) ==
  /\ index \in 0 .. Len(slots)
  /\ \A i \in 1 .. index : slots[i].pos <= pos
  /\ index < Len(slots) => slots[index + 1].pos > pos

Insert(slots, index, slot) ==
  [i \in 1 .. Len(slots) + 1 |->
     IF i <= index THEN slots[i] ELSE IF i = index + 1 THEN slot ELSE slots[i - 1]]

(* WriteAt out of turn: the chunk is kept in a slot *)
KeepChunk(p, e) ==
  /\ ~flushing /\ Chunk(p, e) /\ p \notin done /\ p # outAt
  /\ done' = done \cup {p}
  /\ \E index \in 0 .. Len(bufferSlot) :
       /\ Place(bufferSlot, index, p)
       /\ bufferSlot' = Insert(bufferSlot, index, [pos |-> p, size |-> e - p])
  /\ flushing' = TRUE
  /\ UNCHANGED <<cuts, outAt, data, failed>>

(* WriteAt in turn: the chunk goes to the output *)
WriteThrough(p, e) ==
  /\ ~flushing /\ Chunk(p, e) /\ p \notin done /\ p = outAt
  /\ done' = done \cup {p}
  /\ data' = data \o Bytes(p, e - p)
  /\ outAt' = e
  /\ flushing' = TRUE
  /\ UNCHANGED <<cuts, bufferSlot, failed>>

(* the output writer takes n bytes only: the rest goes into a slot *)
WriteShort(p, e, n) ==
  /\ ~flushing /\ Chunk(p, e) /\ p \notin done /\ p = outAt /\ n < e - p
  /\ done' = done \cup {p}
  /\ data' = data \o Bytes(p, n)
  /\ outAt' = outAt + n
  /\ \E index \in 0 .. Len(bufferSlot) :
       /\ Place(bufferSlot, index, p + n)
       /\ bufferSlot' = Insert(bufferSlot, index, [pos |-> p + n, size |-> e - p - n])
  /\ flushing' = TRUE
  /\ UNCHANGED <<cuts, failed>>

(* the output writer returns an error after n bytes, and so does WriteAt;
   that happens once *)
WriteError(p, e, n) ==
  /\ ~flushing /\ Chunk(p, e) /\ p \notin done /\ p = outAt /\ n <= e - p /\ ~failed
  /\ data' = data \o Bytes(p, n)
  /\ failed' = TRUE
  /\ UNCHANGED <<cuts, done, outAt, bufferSlot, flushing>>

Due == flushing /\ bufferSlot # <<>> /\ bufferSlot[1].pos = outAt

(* the first slot is due: it is written and dropped *)
FlushSlot ==
  /\ Due
  /\ data' = data \o Bytes(outAt, bufferSlot[1].size)
  /\ outAt' = outAt + bufferSlot[1].size
  /\ bufferSlot' = Tail(bufferSlot)
  /\ UNCHANGED <<cuts, done, flushing, failed>>

(* it is dropped as well when only n bytes of it were taken *)
FlushShort(n) ==
  /\ Due /\ n < bufferSlot[1].size
  /\ data' = data \o Bytes(outAt, n)
  /\ outAt' = outAt + n
  /\ bufferSlot' = Tail(bufferSlot)
  /\ failed' = TRUE
  /\ UNCHANGED <<cuts, done, flushing>>

FlushError(n) ==
  /\ Due /\ n <= bufferSlot[1].size
  /\ data' = data \o Bytes(outAt, n)
  /\ failed' = TRUE
  /\ flushing' = FALSE
  /\ UNCHANGED <<cuts, done, outAt, bufferSlot>>

(* the first slot is not due, or lies before what was written, which is an
   error: WriteAt returns *)
FlushEnd ==
  /\ flushing /\ ~Due
  /\ flushing' = FALSE
  /\ UNCHANGED <<cuts, done, outAt, bufferSlot, data, failed>>

WriteAtNext ==
  \/ \E p \in Offsets, e \in 1 .. Size :
       \/ KeepChunk(p, e)
       \/ WriteThrough(p, e)
       \/ \E n \in Offsets : WriteShort(p, e, n) \/ WriteError(p, e, n)
  \/ FlushSlot
  \/ \E n \in Offsets : FlushShort(n) \/ FlushError(n)
  \/ FlushEnd

WriteAtSpec == WriteAtInit /\ [][WriteAtNext]_wvars

(* Close returns nil *)
CloseSucceeds == bufferSlot = <<>>

-----------------------------------------------------------------------------
(* The buffer stays typed: what was written are offsets of the content. *)
WriteAtTypeOK ==
  /\ cuts \subseteq Offsets /\ done \subseteq cuts
  /\ outAt \in Nat
  /\ bufferSlot \in Seq([pos : Nat, size : Nat])
  /\ data \in Seq(Nat)
  /\ flushing \in BOOLEAN /\ failed \in BOOLEAN

(***************************************************************************)
(* While the output writer takes what it is given, the output is the       *)
(* beginning of the content, in order and without a gap, whatever the      *)
(* order of the writes.  Between two calls it is as long as it can be: it  *)
(* ends before the first chunk that was not written yet.  And Close        *)
(* reports an error exactly when something written is still held back.     *)
(***************************************************************************)
WriteAtExact ==
  ~failed =>
    /\ data = Bytes(0, outAt)
    /\ ~flushing =>
         /\ \A p \in cuts : p < outAt => p \in done
         /\ outAt \in (cuts \ done) \cup {Size}
         /\ CloseSucceeds <=> \A p \in done : p < outAt
=============================================================================
