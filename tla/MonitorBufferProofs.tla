------------------------- MODULE MonitorBufferProofs ------------------------
(***************************************************************************)
(* Proofs about what is kept until it can be passed on: the slots of the   *)
(* buffer for writes at offsets and the payloads of the monitor service.   *)
(***************************************************************************)
EXTENDS MonitorService, WriteAtBuffer, Facts

(* A leaf that names no prover is tried with these, in turn *)
USE SMT, Zenon, Z3, SMTT(10)

-----------------------------------------------------------------------------
(* The output of WriteAtBuffer is the content in order, for every content, *)
(* every way to cut it and every order of the writes.                      *)

Slot == [pos : Nat, size : Nat]

(* a slot is (the rest of) a chunk that was written, and lies ahead *)
SlotOK(s, front, begins, written, busy) ==
  /\ s.pos >= front /\ s.size > 0
  /\ s.pos + s.size \in begins \cup {Size}
  /\ \A c \in begins : c <= s.pos \/ c >= s.pos + s.size
  /\ s.pos \in written \/ (busy /\ s.pos = front /\ front \notin begins)

Sorted(slots) ==
  \A i, j \in 1 .. Len(slots) : i < j => slots[i].pos < slots[j].pos

(* what holds of the buffer as long as the output writer did not fail *)
Buffered ==
  /\ data = Bytes(0, outAt)
  /\ Sorted(bufferSlot)
  /\ \A i \in 1 .. Len(bufferSlot) : SlotOK(bufferSlot[i], outAt, cuts, done, flushing)
  /\ \A p \in cuts : p < outAt => p \in done
  /\ \A p \in done : p < outAt \/ \E i \in 1 .. Len(bufferSlot) : bufferSlot[i].pos = p
  /\ outAt \in cuts \cup {Size} \/ Due
  /\ ~flushing => bufferSlot = <<>> \/ bufferSlot[1].pos # outAt

WriteAtInv == WriteAtTypeOK /\ (~failed => Buffered)

-----------------------------------------------------------------------------
(* The bytes of two adjacent runs are the bytes of the whole *)
LEMMA BytesJoin ==
  ASSUME NEW a \in Nat, NEW n \in Nat
  PROVE  /\ Bytes(a, n) \in Seq(Nat)
         /\ Bytes(0, a) \o Bytes(a, n) = Bytes(0, a + n)
<1>1. /\ Bytes(a, n) \in Seq(Nat) /\ Len(Bytes(a, n)) = n
      /\ Bytes(0, a) \in Seq(Nat) /\ Len(Bytes(0, a)) = a
      /\ Bytes(0, a + n) \in Seq(Nat) /\ Len(Bytes(0, a + n)) = a + n
  <2>1. /\ Bytes(a, n) \in [1 .. n -> Nat]
        /\ Bytes(0, a) \in [1 .. a -> Nat]
        /\ Bytes(0, a + n) \in [1 .. a + n -> Nat]
    BY DEF Bytes
  <2> QED BY <2>1, SeqFunction
<1>2. /\ Len(Bytes(0, a) \o Bytes(a, n)) = a + n
      /\ Bytes(0, a) \o Bytes(a, n) \in Seq(Nat)
  BY <1>1, SeqConcat, Zenon
<1>3. ASSUME NEW i \in 1 .. a + n
      PROVE  (Bytes(0, a) \o Bytes(a, n))[i] = Bytes(0, a + n)[i]
  <2>1. CASE i \in 1 .. a
    <3>1. (Bytes(0, a) \o Bytes(a, n))[i] = Bytes(0, a)[i]
      BY <1>1, <2>1, SeqConcat
    <3> QED BY <2>1, <3>1 DEF Bytes
  <2>2. CASE i \in a + 1 .. a + n
    <3> DEFINE x == Bytes(0, a)
               y == Bytes(a, n)
    <3>0. x \in Seq(Nat) /\ y \in Seq(Nat) /\ Len(x) = a /\ Len(y) = n
      BY <1>1
    <3> HIDE DEF x, y
    <3>1. (x \o y)[i] = y[i - a]
      BY <3>0, <2>2, SeqConcat, Zenon
    <3> USE DEF x, y
    <3> QED BY <2>2, <3>1 DEF Bytes
  <2>3. i \in 1 .. a \/ i \in a + 1 .. a + n
    OBVIOUS
  <2> QED BY <2>1, <2>2, <2>3, Zenon
<1> DEFINE s == Bytes(0, a) \o Bytes(a, n)
           t == Bytes(0, a + n)
<1>4. s \in [1 .. a + n -> Nat] /\ t \in [1 .. a + n -> Nat]
  BY <1>1, <1>2, SeqLen, Zenon
<1>5. s = t
  <2> HIDE DEF s, t
  <2>1. \A i \in 1 .. a + n : s[i] = t[i]
    BY <1>3, Zenon DEF s, t
  <2> QED BY <1>4, <2>1
<1> QED BY <1>1, <1>5

(* ins is the list of slots with a slot inserted after the first index ones *)
Inserted(ins, slots, index, slot) ==
  /\ ins \in Seq(Slot) /\ Len(ins) = Len(slots) + 1
  /\ \A i \in 1 .. index : ins[i] = slots[i]
  /\ ins[index + 1] = slot
  /\ \A i \in index + 2 .. Len(slots) + 1 : ins[i] = slots[i - 1]
  /\ \A i \in 1 .. Len(slots) + 1 :
       ins[i] = slot \/ \E j \in 1 .. Len(slots) : ins[i] = slots[j]
  /\ \A j \in 1 .. Len(slots) : \E i \in 1 .. Len(slots) + 1 : ins[i] = slots[j]

(* What the slots are after one was put in *)
LEMMA InsertFacts ==
  ASSUME NEW slots \in Seq(Slot), NEW index \in 0 .. Len(slots), NEW slot \in Slot
  PROVE  Inserted(Insert(slots, index, slot), slots, index, slot)
<1> DEFINE ins == Insert(slots, index, slot)
           n == Len(slots)
<1>1. n \in Nat /\ \A i \in 1 .. n : slots[i] \in Slot
  BY SeqLen, SeqElement
<1>2. ins \in [1 .. n + 1 -> Slot]
  BY <1>1 DEF Insert
<1>3. ins \in Seq(Slot) /\ Len(ins) = n + 1
  BY <1>1, <1>2, SeqFunction
<1>4. /\ \A i \in 1 .. index : ins[i] = slots[i]
      /\ ins[index + 1] = slot
      /\ \A i \in index + 2 .. n + 1 : ins[i] = slots[i - 1]
  BY <1>1 DEF Insert
<1> HIDE DEF ins, n
<1>5. ASSUME NEW i \in 1 .. n + 1
      PROVE  ins[i] = slot \/ \E j \in 1 .. n : ins[i] = slots[j]
  <2>1. CASE i \in 1 .. index
    <3>1. i \in 1 .. n
      BY <1>1, <2>1 DEF n
    <3> QED BY <1>4, <2>1, <3>1
  <2>2. CASE i = index + 1
    BY <1>4, <2>2
  <2>3. CASE i \in index + 2 .. n + 1
    <3>1. i - 1 \in 1 .. n
      BY <1>1, <2>3 DEF n
    <3> QED BY <1>4, <2>3, <3>1
  <2> QED BY <1>1, <2>1, <2>2, <2>3
<1>6. ASSUME NEW j \in 1 .. n
      PROVE  \E i \in 1 .. n + 1 : ins[i] = slots[j]
  <2>1. CASE j \in 1 .. index
    <3>1. j \in 1 .. n + 1
      BY <1>1
    <3> QED BY <1>4, <2>1, <3>1
  <2>2. CASE j \in index + 1 .. n
    <3>1. j + 1 \in 1 .. n + 1 /\ j + 1 \in index + 2 .. n + 1 /\ (j + 1) - 1 = j
      BY <1>1, <2>2
    <3> QED BY <1>4, <3>1
  <2> QED BY <1>1, <2>1, <2>2
<1>7. Inserted(ins, slots, index, slot)
  BY <1>3, <1>4, <1>5, <1>6 DEF n, Inserted
<1> QED BY <1>7 DEF ins

(* The slots stay in order *)
LEMMA InsertSorted ==
  ASSUME NEW slots \in Seq(Slot), NEW index \in 0 .. Len(slots), NEW slot \in Slot,
         Sorted(slots), Place(slots, index, slot.pos),
         \A i \in 1 .. Len(slots) : slots[i].pos # slot.pos
  PROVE  Sorted(Insert(slots, index, slot))
<1> DEFINE ins == Insert(slots, index, slot)
           n == Len(slots)
<1>1. /\ n \in Nat /\ Len(ins) = n + 1
      /\ \A i \in 1 .. index : ins[i] = slots[i]
      /\ ins[index + 1] = slot
      /\ \A i \in index + 2 .. n + 1 : ins[i] = slots[i - 1]
  <2>1. Inserted(ins, slots, index, slot)
    BY InsertFacts
  <2>2. n \in Nat
    BY SeqLen
  <2> HIDE DEF ins
  <2> QED BY <2>1, <2>2 DEF Inserted
<1>2. \A i \in 1 .. n : slots[i].pos \in Nat
  <2>1. \A i \in 1 .. n : slots[i] \in Slot
    BY SeqElement
  <2> QED BY <2>1 DEF Slot
<1>3. slot.pos \in Nat
  BY DEF Slot
<1>4. ASSUME NEW i \in 1 .. index PROVE slots[i].pos < slot.pos
  BY <1>1, <1>2, <1>3 DEF Place
<1>5. ASSUME NEW i \in index + 1 .. n PROVE slots[i].pos > slot.pos
  <2>1. index + 1 \in 1 .. n /\ slots[index + 1].pos > slot.pos
    BY <1>1 DEF Place
  <2>2. i \in 1 .. n /\ (i = index + 1 \/ index + 1 < i)
    BY <1>1
  <2>3. slots[i].pos >= slots[index + 1].pos
    BY <1>2, <2>1, <2>2 DEF Sorted
  <2> QED BY <1>2, <1>3, <2>1, <2>2, <2>3
<1> SUFFICES ASSUME NEW i \in 1 .. n + 1, NEW j \in 1 .. n + 1, i < j
             PROVE  ins[i].pos < ins[j].pos
  BY <1>1 DEF Sorted
<1> HIDE DEF ins, n
<1>6. CASE j \in 1 .. index
  <2>1. i \in 1 .. index /\ i \in 1 .. n /\ j \in 1 .. n
    BY <1>1, <1>6 DEF n
  <2> QED BY <1>1, <1>6, <2>1 DEF Sorted, n
<1>7. CASE j = index + 1
  <2>1. i \in 1 .. index
    BY <1>7
  <2> QED BY <1>1, <1>4, <1>7, <2>1
<1>8. CASE j \in index + 2 .. n + 1
  <2>1. j - 1 \in 1 .. n /\ j - 1 \in index + 1 .. n /\ ins[j] = slots[j - 1]
    BY <1>1, <1>8
  <2>2. CASE i \in 1 .. index
    <3>1. i \in 1 .. n /\ i < j - 1 /\ ins[i] = slots[i]
      BY <1>1, <1>8, <2>2 DEF n
    <3> QED BY <2>1, <3>1 DEF Sorted, n
  <2>3. CASE i = index + 1
    BY <1>1, <1>2, <1>3, <1>5, <2>1, <2>3
  <2>4. CASE i \in index + 2 .. n + 1
    <3>1. i - 1 \in 1 .. n /\ i - 1 < j - 1 /\ ins[i] = slots[i - 1]
      BY <1>1, <1>8, <2>4
    <3> QED BY <2>1, <3>1 DEF Sorted, n
  <2> QED BY <1>1, <2>2, <2>3, <2>4
<1> QED BY <1>1, <1>6, <1>7, <1>8

-----------------------------------------------------------------------------
(* WriteAt keeps the types of its fields *)
LEMMA BufferTypeStep ==
  ASSUME WriteAtTypeOK, [WriteAtNext]_wvars
  PROVE  WriteAtTypeOK'
<1> USE SizeAssumption
<1>0. /\ cuts \subseteq Offsets /\ done \subseteq cuts /\ outAt \in Nat
      /\ bufferSlot \in Seq(Slot) /\ data \in Seq(Nat)
      /\ flushing \in BOOLEAN /\ failed \in BOOLEAN
  BY DEF WriteAtTypeOK, Slot
<1>a. ASSUME NEW a \in Nat, NEW n \in Nat PROVE data \o Bytes(a, n) \in Seq(Nat)
  BY <1>0, <1>a, BytesJoin, SeqConcat, Zenon
<1>b. ASSUME NEW index \in 0 .. Len(bufferSlot), NEW a \in Nat, NEW n \in Nat
      PROVE  Insert(bufferSlot, index, [pos |-> a, size |-> n]) \in Seq(Slot)
  <2>1. [pos |-> a, size |-> n] \in Slot
    BY <1>b DEF Slot
  <2> DEFINE slot == [pos |-> a, size |-> n]
             ins == Insert(bufferSlot, index, slot)
  <2>2. Inserted(ins, bufferSlot, index, slot)
    BY <1>0, <1>b, <2>1, InsertFacts
  <2> HIDE DEF slot
  <2>3. ins \in Seq(Slot)
    BY <2>2 DEF Inserted
  <2> QED BY <2>3 DEF slot
<1>c. \A q, e : Chunk(q, e) => q \in Nat /\ e \in Nat /\ e - q \in Nat
  BY <1>0 DEF Chunk, Offsets
<1>d. Due => /\ bufferSlot[1].pos \in Nat /\ bufferSlot[1].size \in Nat
             /\ Tail(bufferSlot) \in Seq(Slot)
  <2> SUFFICES ASSUME Due PROVE /\ bufferSlot[1].pos \in Nat /\ bufferSlot[1].size \in Nat
                               /\ Tail(bufferSlot) \in Seq(Slot)
    OBVIOUS
  <2>1. bufferSlot # <<>> /\ Len(bufferSlot) \in Nat /\ Len(bufferSlot) # 0
    BY <1>0, SeqEmpty, SeqLen DEF Due
  <2>2. bufferSlot[1] \in Slot
    BY <1>0, <2>1, SeqElement
  <2> QED BY <1>0, <2>1, <2>2 DEF Slot
<1>1. ASSUME NEW q, NEW e, KeepChunk(q, e) PROVE WriteAtTypeOK'
  <2>1. bufferSlot' \in Seq(Slot)
    BY <1>b, <1>c, <1>1 DEF KeepChunk
  <2> QED BY <1>0, <1>1, <2>1 DEF KeepChunk, Chunk, WriteAtTypeOK, Slot
<1>2. ASSUME NEW q, NEW e, WriteThrough(q, e) PROVE WriteAtTypeOK'
  <2>1. data' \in Seq(Nat) /\ outAt' \in Nat
    BY <1>a, <1>c, <1>2 DEF WriteThrough
  <2> QED BY <1>0, <1>2, <2>1 DEF WriteThrough, Chunk, WriteAtTypeOK, Slot
<1>3. ASSUME NEW q, NEW e, NEW n \in Offsets, WriteShort(q, e, n) PROVE WriteAtTypeOK'
  <2>0. n \in Nat /\ q \in Nat /\ e \in Nat /\ q + n \in Nat /\ e - q - n \in Nat
    BY <1>c, <1>3 DEF WriteShort, Offsets
  <2>1. data' \in Seq(Nat) /\ outAt' \in Nat
    BY <1>0, <1>a, <2>0, <1>3 DEF WriteShort
  <2>2. bufferSlot' \in Seq(Slot)
    BY <1>b, <2>0, <1>3 DEF WriteShort
  <2> QED BY <1>0, <1>3, <2>1, <2>2 DEF WriteShort, Chunk, WriteAtTypeOK, Slot
<1>4. ASSUME NEW q, NEW e, NEW n \in Offsets, WriteError(q, e, n) PROVE WriteAtTypeOK'
  <2>0. n \in Nat /\ q \in Nat
    BY <1>c, <1>4 DEF WriteError, Offsets
  <2>1. data' \in Seq(Nat)
    <3>1. data' = data \o Bytes(q, n)
      BY <1>4 DEF WriteError
    <3> QED BY <1>a, <2>0, <3>1
  <2> QED BY <1>0, <1>4, <2>1 DEF WriteError, WriteAtTypeOK, Slot
<1>5. CASE FlushSlot
  <2>0. PICK k \in Nat : k = bufferSlot[1].size
    BY <1>d, <1>5 DEF FlushSlot
  <2>1. data' \in Seq(Nat) /\ outAt' \in Nat /\ bufferSlot' \in Seq(Slot)
    <3>1. data' = data \o Bytes(outAt, k) /\ outAt' = outAt + k /\ bufferSlot' = Tail(bufferSlot) /\ Due
      BY <1>5, <2>0 DEF FlushSlot
    <3>2. outAt \in Nat /\ outAt' \in Nat
      BY <1>0, <3>1
    <3>3. data' \in Seq(Nat)
      BY <1>a, <3>1, <3>2
    <3>4. bufferSlot' \in Seq(Slot)
      BY <1>0, <1>d, <3>1
    <3> QED BY <3>2, <3>3, <3>4
  <2> QED BY <1>0, <1>5, <2>1 DEF FlushSlot, WriteAtTypeOK, Slot
<1>6. ASSUME NEW n \in Offsets, FlushShort(n) PROVE WriteAtTypeOK'
  <2>1. data' \in Seq(Nat) /\ outAt' \in Nat /\ bufferSlot' \in Seq(Slot)
    BY <1>0, <1>a, <1>d, <1>6 DEF FlushShort, Offsets
  <2> QED BY <1>0, <1>6, <2>1 DEF FlushShort, WriteAtTypeOK, Slot
<1>7. ASSUME NEW n \in Offsets, FlushError(n) PROVE WriteAtTypeOK'
  <2>1. data' \in Seq(Nat)
    BY <1>0, <1>a, <1>7 DEF FlushError, Offsets
  <2> QED BY <1>0, <1>7, <2>1, Zenon DEF FlushError, WriteAtTypeOK, Slot
<1>8. CASE FlushEnd
  BY <1>0, <1>8, Zenon DEF FlushEnd, WriteAtTypeOK, Slot
<1>9. CASE UNCHANGED wvars
  BY <1>0, <1>9 DEF wvars, WriteAtTypeOK, Slot
<1> QED BY <1>1, <1>2, <1>3, <1>4, <1>5, <1>6, <1>7, <1>8, <1>9 DEF WriteAtNext

-----------------------------------------------------------------------------
(* A chunk kept out of turn goes where the order of the slots wants it *)
LEMMA KeepStep ==
  ASSUME WriteAtTypeOK, Buffered, NEW q, NEW e, KeepChunk(q, e)
  PROVE  Buffered'
<1> USE SizeAssumption
<1> DEFINE n == Len(bufferSlot)
           s == [pos |-> q, size |-> e - q]
<1>0. /\ cuts \subseteq Offsets /\ done \subseteq cuts /\ outAt \in Nat
      /\ bufferSlot \in Seq(Slot) /\ n \in Nat
      /\ \A i \in 1 .. n : /\ bufferSlot[i] \in Slot
                           /\ bufferSlot[i].pos \in Nat /\ bufferSlot[i].size \in Nat
  <2>1. bufferSlot \in Seq(Slot)
    BY DEF WriteAtTypeOK, Slot
  <2>2. \A i \in 1 .. n : bufferSlot[i] \in Slot
    BY <2>1, SeqElement
  <2> QED BY <2>1, <2>2, SeqLen DEF WriteAtTypeOK, Slot
<1>1. /\ q \in Nat /\ e \in Nat /\ q < e /\ q \in cuts /\ q \notin done
      /\ e - q \in Nat /\ q + (e - q) = e
      /\ e \in cuts \cup {Size} /\ \A c \in cuts : c <= q \/ c >= e
  BY <1>0 DEF KeepChunk, Chunk, Offsets
<1>2. q > outAt
  BY <1>0, <1>1 DEF KeepChunk, Buffered
<1>3. PICK index \in 0 .. n : Place(bufferSlot, index, q) /\ bufferSlot' = Insert(bufferSlot, index, s)
  BY DEF KeepChunk
<1>4. s \in Slot /\ s.pos = q /\ s.size = e - q
  BY <1>1 DEF Slot
<1>5. \A i \in 1 .. n : bufferSlot[i].pos # q
  BY <1>1, <1>2 DEF Buffered, SlotOK
<1> HIDE DEF s
<1>6. Sorted(bufferSlot')
  BY <1>0, <1>3, <1>4, <1>5, InsertSorted DEF Buffered
<1>7. /\ Len(bufferSlot') = n + 1
      /\ \A i \in 1 .. n + 1 :
           bufferSlot'[i] = s \/ \E j \in 1 .. n : bufferSlot'[i] = bufferSlot[j]
      /\ \A j \in 1 .. n : \E i \in 1 .. n + 1 : bufferSlot'[i] = bufferSlot[j]
      /\ bufferSlot'[index + 1] = s /\ index + 1 \in 1 .. n + 1
  <2> DEFINE ins == Insert(bufferSlot, index, s)
  <2>1. /\ Len(ins) = n + 1
        /\ \A i \in 1 .. n + 1 : ins[i] = s \/ \E j \in 1 .. n : ins[i] = bufferSlot[j]
        /\ \A j \in 1 .. n : \E i \in 1 .. n + 1 : ins[i] = bufferSlot[j]
        /\ ins[index + 1] = s
    <3>1. Inserted(ins, bufferSlot, index, s)
      BY <1>0, <1>4, InsertFacts
    <3> HIDE DEF ins
    <3> QED BY <3>1 DEF Inserted
  <2>2. index + 1 \in 1 .. n + 1
    BY <1>0
  <2> HIDE DEF ins, n
  <2>3. bufferSlot' = ins
    BY <1>3 DEF ins
  <2> QED BY <2>1, <2>2, <2>3
<1>8. ~flushing /\ flushing' /\ outAt' = outAt /\ data' = data /\ cuts' = cuts
      /\ done' = done \cup {q}
  BY DEF KeepChunk
<1>9. \A i \in 1 .. Len(bufferSlot') : SlotOK(bufferSlot'[i], outAt', cuts', done', flushing')
  <2> SUFFICES ASSUME NEW i \in 1 .. n + 1 PROVE SlotOK(bufferSlot'[i], outAt', cuts', done', flushing')
    BY <1>7
  <2>1. CASE bufferSlot'[i] = s
    <3>1. SlotOK(s, outAt, cuts, done', flushing')
      <4>1. s.pos + s.size = e /\ s.pos >= outAt /\ s.size > 0 /\ s.pos \in done'
        BY <1>0, <1>1, <1>2, <1>4, <1>8
      <4> QED BY <1>1, <1>4, <4>1 DEF SlotOK
    <3> QED BY <1>8, <2>1, <3>1, Zenon
  <2>2. CASE \E j \in 1 .. n : bufferSlot'[i] = bufferSlot[j]
    BY <1>8, <2>2 DEF Buffered, SlotOK
  <2> QED BY <1>7, <2>1, <2>2
<1>10. \A p \in done' : p < outAt' \/ \E i \in 1 .. Len(bufferSlot') : bufferSlot'[i].pos = p
  <2> SUFFICES ASSUME NEW p \in done' , ~(p < outAt)
               PROVE  \E i \in 1 .. n + 1 : bufferSlot'[i].pos = p
    BY <1>7, <1>8
  <2>1. CASE p = q
    BY <1>4, <1>7, <2>1
  <2>2. CASE p \in done
    <3>1. PICK j \in 1 .. n : bufferSlot[j].pos = p
      BY <2>2 DEF Buffered
    <3> QED BY <1>7, <3>1
  <2> QED BY <1>8, <2>1, <2>2
<1>11. outAt' \in cuts' \cup {Size}
  BY <1>8 DEF Buffered, Due
<1>12. \A p \in cuts' : p < outAt' => p \in done'
  BY <1>8 DEF Buffered
<1>13. data' = Bytes(0, outAt')
  BY <1>8 DEF Buffered
<1> QED BY <1>6, <1>8, <1>9, <1>10, <1>11, <1>12, <1>13, Zenon DEF Buffered

(* A chunk written in turn reaches up to the next one *)
LEMMA ThroughStep ==
  ASSUME WriteAtTypeOK, Buffered, NEW q, NEW e, WriteThrough(q, e)
  PROVE  Buffered'
<1> USE SizeAssumption
<1> DEFINE n == Len(bufferSlot)
<1>0. /\ cuts \subseteq Offsets /\ done \subseteq cuts /\ outAt \in Nat
      /\ \A i \in 1 .. n : bufferSlot[i].pos \in Nat /\ bufferSlot[i].size \in Nat
  <2>1. bufferSlot \in Seq(Slot)
    BY DEF WriteAtTypeOK, Slot
  <2>2. \A i \in 1 .. n : bufferSlot[i] \in Slot
    BY <2>1, SeqElement
  <2> QED BY <2>2 DEF WriteAtTypeOK, Slot
<1>1. /\ q = outAt /\ e \in Nat /\ q < e /\ q \in cuts /\ q \notin done
      /\ e - q \in Nat /\ q + (e - q) = e
      /\ e \in cuts \cup {Size} /\ \A c \in cuts : c <= q \/ c >= e
  BY <1>0 DEF WriteThrough, Chunk, Offsets
<1>2. /\ ~flushing /\ flushing' /\ outAt' = e /\ data' = data \o Bytes(q, e - q)
      /\ cuts' = cuts /\ bufferSlot' = bufferSlot /\ done' = done \cup {q}
  BY DEF WriteThrough
<1>3. data' = Bytes(0, outAt')
  BY <1>0, <1>1, <1>2, BytesJoin, Zenon DEF Buffered
<1>4. \A i \in 1 .. n : bufferSlot[i].pos \in done /\ bufferSlot[i].pos >= e
  BY <1>0, <1>1, <1>2 DEF Buffered, SlotOK
<1>5. \A i \in 1 .. Len(bufferSlot') : SlotOK(bufferSlot'[i], outAt', cuts', done', flushing')
  <2> SUFFICES ASSUME NEW i \in 1 .. n
               PROVE  SlotOK(bufferSlot[i], e, cuts, done', TRUE)
    BY <1>2, Zenon
  <2>1. /\ bufferSlot[i].size > 0
        /\ bufferSlot[i].pos + bufferSlot[i].size \in cuts \cup {Size}
        /\ \A c \in cuts : c <= bufferSlot[i].pos \/ c >= bufferSlot[i].pos + bufferSlot[i].size
    BY <1>0 DEF Buffered, SlotOK
  <2>2. bufferSlot[i].pos >= e /\ bufferSlot[i].pos \in done'
    BY <1>2, <1>4
  <2> QED BY <2>1, <2>2 DEF SlotOK
<1>6. \A p \in cuts' : p < outAt' => p \in done'
  <2> SUFFICES ASSUME NEW p \in cuts, p < e PROVE p \in done \cup {q}
    BY <1>2
  <2>1. p \in Nat /\ p <= q
    BY <1>0, <1>1 DEF Offsets
  <2>2. p < outAt => p \in done
    BY DEF Buffered
  <2> QED BY <1>0, <1>1, <2>1, <2>2
<1>7. \A p \in done' : p < outAt' \/ \E i \in 1 .. Len(bufferSlot') : bufferSlot'[i].pos = p
  <2> SUFFICES ASSUME NEW p \in done', ~(p < e)
               PROVE  \E i \in 1 .. Len(bufferSlot) : bufferSlot[i].pos = p
    BY <1>2
  <2>1. p # q
    BY <1>1
  <2>2. p \in done
    BY <1>2, <2>1
  <2>3. ~(p < outAt)
    BY <1>0, <1>1, <2>2 DEF Offsets
  <2> QED BY <2>2, <2>3 DEF Buffered
<1>8. Sorted(bufferSlot')
  BY <1>2, Zenon DEF Buffered
<1> QED BY <1>1, <1>2, <1>3, <1>5, <1>6, <1>7, <1>8, Zenon DEF Buffered

(* What a short write left of its chunk becomes the first slot, and is due *)
LEMMA ShortStep ==
  ASSUME WriteAtTypeOK, Buffered, NEW q, NEW e, NEW k \in Offsets, WriteShort(q, e, k)
  PROVE  Buffered'
<1> USE SizeAssumption
<1> DEFINE n == Len(bufferSlot)
           s == [pos |-> q + k, size |-> e - q - k]
<1>0. /\ cuts \subseteq Offsets /\ done \subseteq cuts /\ outAt \in Nat
      /\ bufferSlot \in Seq(Slot) /\ n \in Nat
      /\ \A i \in 1 .. n : /\ bufferSlot[i] \in Slot
                           /\ bufferSlot[i].pos \in Nat /\ bufferSlot[i].size \in Nat
  <2>1. bufferSlot \in Seq(Slot)
    BY DEF WriteAtTypeOK, Slot
  <2>2. \A i \in 1 .. n : bufferSlot[i] \in Slot
    BY <2>1, SeqElement
  <2> QED BY <2>1, <2>2, SeqLen DEF WriteAtTypeOK, Slot
<1>1. /\ q = outAt /\ q \in Nat /\ e \in Nat /\ k \in Nat /\ q + k < e /\ q \in cuts /\ q \notin done
      /\ e - q - k \in Nat /\ (q + k) + (e - q - k) = e
      /\ e \in cuts \cup {Size} /\ \A c \in cuts : c <= q \/ c >= e
  BY <1>0 DEF WriteShort, Chunk, Offsets
<1>2. PICK index \in 0 .. n :
        Place(bufferSlot, index, q + k) /\ bufferSlot' = Insert(bufferSlot, index, s)
  BY DEF WriteShort
<1>3. /\ ~flushing /\ flushing' /\ outAt' = q + k /\ data' = data \o Bytes(q, k)
      /\ cuts' = cuts /\ done' = done \cup {q}
  BY <1>1 DEF WriteShort
<1>4. s \in Slot /\ s.pos = q + k /\ s.size = e - q - k
  BY <1>1 DEF Slot
<1>5. \A i \in 1 .. n : bufferSlot[i].pos \in done /\ bufferSlot[i].pos >= e
  <2>1. \A i \in 1 .. n : bufferSlot[i].pos \in done /\ bufferSlot[i].pos >= outAt
    BY <1>3, Zenon DEF Buffered, SlotOK
  <2> QED BY <1>0, <1>1, <2>1
<1>6. index = 0
  <2> SUFFICES ASSUME index # 0 PROVE FALSE
    OBVIOUS
  <2>1. 1 \in 1 .. index /\ 1 \in 1 .. n
    BY <1>0
  <2>2. bufferSlot[1].pos <= q + k /\ bufferSlot[1].pos >= e /\ bufferSlot[1].pos \in Nat
    BY <1>0, <1>2, <1>5, <2>1 DEF Place
  <2> QED BY <1>1, <2>2
<1> HIDE DEF s
<1>7. Sorted(bufferSlot')
  <2>1. \A i \in 1 .. n : bufferSlot[i].pos # q + k
    BY <1>0, <1>1, <1>5
  <2> QED BY <1>0, <1>2, <1>4, <2>1, InsertSorted, Zenon DEF Buffered
<1>8. /\ Len(bufferSlot') = n + 1
      /\ \A i \in 1 .. n + 1 :
           bufferSlot'[i] = s \/ \E j \in 1 .. n : bufferSlot'[i] = bufferSlot[j]
      /\ \A j \in 1 .. n : \E i \in 1 .. n + 1 : bufferSlot'[i] = bufferSlot[j]
      /\ bufferSlot'[1] = s /\ bufferSlot' # <<>>
  <2> DEFINE ins == Insert(bufferSlot, index, s)
  <2>1. /\ ins \in Seq(Slot) /\ Len(ins) = n + 1
        /\ \A i \in 1 .. n + 1 : ins[i] = s \/ \E j \in 1 .. n : ins[i] = bufferSlot[j]
        /\ \A j \in 1 .. n : \E i \in 1 .. n + 1 : ins[i] = bufferSlot[j]
        /\ ins[index + 1] = s
    <3>1. bufferSlot \in Seq(Slot) /\ s \in Slot /\ index \in 0 .. Len(bufferSlot)
      BY <1>0, <1>4
    <3>2. Inserted(ins, bufferSlot, index, s)
      BY <3>1, InsertFacts
    <3> HIDE DEF ins
    <3> QED BY <3>2, Zenon DEF Inserted
  <2> HIDE DEF ins, n
  <2>2. ins # <<>> /\ ins[1] = s
    <3>1. Len(ins) # 0 /\ index + 1 = 1
      BY <1>0, <1>6, <2>1
    <3> QED BY <2>1, <3>1, SeqEmpty
  <2>3. bufferSlot' = ins
    BY <1>2 DEF ins
  <2> QED BY <2>1, <2>2, <2>3
<1>9. \A i \in 1 .. Len(bufferSlot') : SlotOK(bufferSlot'[i], outAt', cuts', done', flushing')
  <2> SUFFICES ASSUME NEW i \in 1 .. n + 1
               PROVE  SlotOK(bufferSlot'[i], outAt', cuts', done', flushing')
    BY <1>8
  <2>1. CASE bufferSlot'[i] = s
    <3>1. s.pos + s.size = e /\ s.pos >= outAt' /\ s.size > 0 /\ s.pos = outAt'
      BY <1>0, <1>1, <1>3, <1>4
    <3>2. s.pos \in done' \/ s.pos \notin cuts
      BY <1>0, <1>1, <1>3, <1>4 DEF Offsets
    <3>3. \A c \in cuts : c <= s.pos \/ c >= e
      BY <1>0, <1>1, <1>4 DEF Offsets
    <3> QED BY <1>1, <1>3, <2>1, <3>1, <3>2, <3>3 DEF SlotOK
  <2>2. CASE \E j \in 1 .. n : bufferSlot'[i] = bufferSlot[j]
    <3>1. PICK j \in 1 .. n : bufferSlot'[i] = bufferSlot[j]
      BY <2>2
    <3>2. bufferSlot[j].pos \in done /\ bufferSlot[j].pos >= e /\ bufferSlot[j].pos \in Nat
      BY <1>0, <1>5
    <3>3. bufferSlot[j].pos >= q + k
      BY <1>1, <3>2
    <3>4. bufferSlot[j].pos >= outAt' /\ bufferSlot[j].pos \in done'
      BY <1>3, <3>2, <3>3
    <3> QED BY <1>3, <3>1, <3>4 DEF Buffered, SlotOK
  <2> QED BY <1>8, <2>1, <2>2
<1>10. \A p \in done' : p < outAt' \/ \E i \in 1 .. Len(bufferSlot') : bufferSlot'[i].pos = p
  <2> SUFFICES ASSUME NEW p \in done', ~(p < outAt')
               PROVE  \E i \in 1 .. n + 1 : bufferSlot'[i].pos = p
    BY <1>8
  <2>1. CASE p = q
    <3>1. s.pos = p /\ 1 \in 1 .. n + 1
      BY <1>0, <1>1, <1>3, <1>4, <2>1
    <3> QED BY <1>8, <3>1
  <2>2. CASE p \in done
    <3>1. ~(p < outAt)
      BY <1>0, <1>1, <1>3, <2>2 DEF Offsets
    <3>2. PICK j \in 1 .. n : bufferSlot[j].pos = p
      BY <2>2, <3>1 DEF Buffered
    <3> QED BY <1>8, <3>2
  <2> QED BY <1>3, <2>1, <2>2
<1>11. Due'
  BY <1>3, <1>4, <1>8 DEF Due
<1>12. \A p \in cuts' : p < outAt' => p \in done'
  <2> SUFFICES ASSUME NEW p \in cuts, p < q + k PROVE p \in done'
    BY <1>3
  <2>1. p \in Nat /\ p <= q
    BY <1>0, <1>1 DEF Offsets
  <2>2. p = q \/ p < outAt
    BY <1>1, <2>1
  <2> QED BY <1>3, <2>2 DEF Buffered
<1>13. data' = Bytes(0, outAt')
  <2>1. data' = Bytes(0, q) \o Bytes(q, k)
    BY <1>1, <1>3 DEF Buffered
  <2>2. Bytes(0, q) \o Bytes(q, k) = Bytes(0, q + k)
    BY <1>1, BytesJoin, Zenon
  <2> QED BY <1>3, <2>1, <2>2
<1> QED BY <1>3, <1>7, <1>9, <1>10, <1>11, <1>12, <1>13, Zenon DEF Buffered

(* A slot that is due is written, and the output ends where a chunk ends *)
LEMMA BufferFlushStep ==
  ASSUME WriteAtTypeOK, Buffered, FlushSlot
  PROVE  Buffered'
<1> USE SizeAssumption
<1> DEFINE n == Len(bufferSlot)
           e == outAt + bufferSlot[1].size
<1>0. /\ cuts \subseteq Offsets /\ done \subseteq cuts /\ outAt \in Nat
      /\ bufferSlot \in Seq(Slot) /\ n \in Nat
      /\ \A i \in 1 .. n : bufferSlot[i].pos \in Nat /\ bufferSlot[i].size \in Nat
  <2>1. bufferSlot \in Seq(Slot)
    BY DEF WriteAtTypeOK, Slot
  <2>2. \A i \in 1 .. n : bufferSlot[i] \in Slot
    BY <2>1, SeqElement
  <2> QED BY <2>1, <2>2, SeqLen DEF WriteAtTypeOK, Slot
<1>1. /\ flushing /\ flushing' = flushing /\ cuts' = cuts /\ done' = done
      /\ bufferSlot # <<>> /\ bufferSlot[1].pos = outAt /\ outAt' = e
      /\ bufferSlot' = Tail(bufferSlot) /\ data' = data \o Bytes(outAt, bufferSlot[1].size)
  BY DEF FlushSlot, Due
<1>2. 1 \in 1 .. n /\ bufferSlot[1].size \in Nat /\ e \in Nat /\ e >= outAt
  <2>1. n # 0
    BY <1>0, <1>1, SeqEmpty
  <2>2. 1 \in 1 .. n
    BY <1>0, <2>1
  <2>3. bufferSlot[1].size \in Nat
    BY <1>0, <2>2
  <2> QED BY <1>0, <2>2, <2>3
<1>3. /\ e \in cuts \cup {Size} /\ \A c \in cuts : c <= outAt \/ c >= e
      /\ outAt \in done \/ outAt \notin cuts
  BY <1>1, <1>2, Zenon DEF Buffered, SlotOK
<1>4. ASSUME NEW i \in 2 .. n
      PROVE  bufferSlot[i].pos \in done /\ bufferSlot[i].pos >= e /\ i \in 1 .. n
  <2>1. i \in 1 .. n /\ 1 < i
    BY <1>0
  <2>2. bufferSlot[1].pos < bufferSlot[i].pos
    BY <1>2, <2>1 DEF Buffered, Sorted
  <2>3. bufferSlot[i].pos \in done
    <3>1. SlotOK(bufferSlot[i], outAt, cuts, done, flushing)
      BY <2>1 DEF Buffered
    <3>2. bufferSlot[i].pos # outAt
      BY <1>0, <1>1, <2>1, <2>2
    <3> QED BY <3>1, <3>2 DEF SlotOK
  <2> DEFINE pos == bufferSlot[i].pos
  <2>4. pos \in Nat /\ pos \in cuts /\ outAt < pos
    BY <1>0, <1>1, <2>1, <2>2, <2>3
  <2> HIDE DEF pos, e
  <2>5. pos >= e
    BY <1>0, <1>3, <2>4
  <2> QED BY <2>1, <2>3, <2>5 DEF pos
<1>5. /\ Len(bufferSlot') = n - 1
      /\ \A i \in 1 .. n - 1 : bufferSlot'[i] = bufferSlot[i + 1] /\ i + 1 \in 2 .. n
  BY <1>0, <1>1, <1>2
<1> HIDE DEF n, e
<1>6. Sorted(bufferSlot')
  <2> SUFFICES ASSUME NEW i \in 1 .. n - 1, NEW j \in 1 .. n - 1, i < j
               PROVE  bufferSlot'[i].pos < bufferSlot'[j].pos
    BY <1>5 DEF Sorted
  <2>1. i + 1 \in 1 .. n /\ j + 1 \in 1 .. n /\ i + 1 < j + 1
    BY <1>0
  <2> QED BY <1>5, <2>1, Zenon DEF Buffered, Sorted, n
<1>7. \A i \in 1 .. Len(bufferSlot') : SlotOK(bufferSlot'[i], outAt', cuts', done', flushing')
  <2> SUFFICES ASSUME NEW i \in 1 .. n - 1
               PROVE  SlotOK(bufferSlot'[i], outAt', cuts', done', flushing')
    BY <1>5
  <2>1. /\ bufferSlot'[i] = bufferSlot[i + 1] /\ i + 1 \in 1 .. n
        /\ bufferSlot[i + 1].pos >= e /\ bufferSlot[i + 1].pos \in done
    BY <1>4, <1>5
  <2> QED BY <1>1, <2>1 DEF Buffered, SlotOK, n
<1>8. \A p \in done' : p < outAt' \/ \E i \in 1 .. Len(bufferSlot') : bufferSlot'[i].pos = p
  <2> SUFFICES ASSUME NEW p \in done, ~(p < e)
               PROVE  \E i \in 1 .. n - 1 : bufferSlot'[i].pos = p
    BY <1>1, <1>5
  <2>0. p \in Nat /\ p \in cuts
    BY <1>0 DEF Offsets
  <2>1. ~(p < outAt)
    BY <1>0, <1>2, <2>0
  <2>2. PICK i \in 1 .. n : bufferSlot[i].pos = p
    BY <2>1 DEF Buffered, n
  <2>3. CASE i = 1
    <3>1. p = outAt /\ bufferSlot[1].size > 0
      BY <1>1, <1>2, <2>2, <2>3 DEF Buffered, SlotOK, n
    <3> QED BY <1>0, <1>2, <2>0, <3>1 DEF e
  <2>4. CASE i \in 2 .. n
    <3>1. i - 1 \in 1 .. n - 1 /\ (i - 1) + 1 = i
      BY <1>0, <2>4
    <3> QED BY <1>5, <2>2, <3>1
  <2> QED BY <1>0, <2>3, <2>4
<1>9. \A p \in cuts' : p < outAt' => p \in done'
  <2> SUFFICES ASSUME NEW p \in cuts, p < e PROVE p \in done
    BY <1>1
  <2>1. p \in Nat /\ p <= outAt
    BY <1>0, <1>2, <1>3 DEF Offsets
  <2>2. p = outAt \/ p < outAt
    BY <1>0, <2>1
  <2> QED BY <1>3, <2>2, Zenon DEF Buffered
<1>10. data' = Bytes(0, outAt')
  <2>1. PICK k \in Nat : k = bufferSlot[1].size
    BY <1>2
  <2>2. data' = Bytes(0, outAt) \o Bytes(outAt, k) /\ outAt' = outAt + k
    BY <1>1, <2>1 DEF Buffered, e
  <2> QED BY <1>0, <2>1, <2>2, BytesJoin, Zenon
<1> QED BY <1>1, <1>3, <1>6, <1>7, <1>8, <1>9, <1>10, Zenon DEF Buffered

-----------------------------------------------------------------------------
(* The invariant of WriteAt: types, and Buffered until the output writer fails *)
LEMMA WriteAtInvariant == WriteAtSpec => []WriteAtInv
<1> USE SizeAssumption
<1>1. WriteAtInit => WriteAtInv
  <2> SUFFICES ASSUME WriteAtInit PROVE WriteAtInv
    OBVIOUS
  <2>1. WriteAtTypeOK
    BY SeqEmpty, Zenon DEF WriteAtInit, WriteAtTypeOK
  <2>2. Len(bufferSlot) = 0 /\ bufferSlot = <<>>
    BY DEF WriteAtInit
  <2>3. data = Bytes(0, outAt)
    <3>1. Bytes(0, 0) \in Seq(Nat) /\ Len(Bytes(0, 0)) = 0
      <4>1. Bytes(0, 0) \in [1 .. 0 -> Nat]
        BY DEF Bytes
      <4> QED BY <4>1, SeqFunction
    <3> QED BY <3>1, SeqEmpty DEF WriteAtInit
  <2>4. outAt \in cuts \cup {Size} /\ \A p \in cuts : ~(p < outAt)
    BY DEF WriteAtInit, Offsets
  <2> QED BY <2>1, <2>2, <2>3, <2>4 DEF WriteAtInv, Buffered, WriteAtInit, Sorted
<1>2. WriteAtInv /\ [WriteAtNext]_wvars => WriteAtInv'
  <2> SUFFICES ASSUME WriteAtInv, [WriteAtNext]_wvars, ~failed' PROVE Buffered'
    BY BufferTypeStep DEF WriteAtInv
  <2>0. WriteAtTypeOK
    BY DEF WriteAtInv
  <2>1. ASSUME NEW q \in Offsets, NEW e \in 1 .. Size, KeepChunk(q, e) PROVE Buffered'
    BY <2>0, <2>1, KeepStep DEF WriteAtInv, KeepChunk
  <2>2. ASSUME NEW q \in Offsets, NEW e \in 1 .. Size, WriteThrough(q, e) PROVE Buffered'
    BY <2>0, <2>2, ThroughStep DEF WriteAtInv, WriteThrough
  <2>3. ASSUME NEW q \in Offsets, NEW e \in 1 .. Size, NEW n \in Offsets, WriteShort(q, e, n)
        PROVE  Buffered'
    BY <2>0, <2>3, ShortStep DEF WriteAtInv, WriteShort
  <2>4. ASSUME NEW q \in Offsets, NEW e \in 1 .. Size, NEW n \in Offsets, WriteError(q, e, n)
        PROVE  Buffered'
    BY <2>4 DEF WriteError
  <2>5. CASE FlushSlot
    BY <2>0, <2>5, BufferFlushStep DEF WriteAtInv, FlushSlot
  <2>6. ASSUME NEW n \in Offsets, FlushShort(n) \/ FlushError(n) PROVE Buffered'
    BY <2>6 DEF FlushShort, FlushError
  <2>7. CASE FlushEnd
    <3>1. Buffered
      BY <2>7 DEF FlushEnd, WriteAtInv
    <3>2. /\ flushing /\ ~flushing' /\ ~Due /\ cuts' = cuts /\ done' = done /\ outAt' = outAt
          /\ bufferSlot' = bufferSlot /\ data' = data
      BY <2>7 DEF FlushEnd
    <3>3. bufferSlot = <<>> \/ bufferSlot[1].pos # outAt
      BY <3>2 DEF Due
    <3>4. ASSUME NEW i \in 1 .. Len(bufferSlot)
          PROVE  SlotOK(bufferSlot[i], outAt, cuts, done, FALSE)
      <4>1. SlotOK(bufferSlot[i], outAt, cuts, done, TRUE)
        BY <3>1, <3>2 DEF Buffered, SlotOK
      <4>2. outAt \in cuts \cup {Size}
        BY <3>1, <3>2 DEF Buffered
      <4>3. CASE bufferSlot[i].pos \in done
        BY <4>1, <4>3 DEF SlotOK
      <4>4. CASE bufferSlot[i].pos = outAt /\ outAt \notin cuts
        <5>1. /\ outAt = Size /\ bufferSlot[i].size > 0 /\ bufferSlot[i].pos = Size
              /\ bufferSlot[i].pos + bufferSlot[i].size \in cuts \cup {Size}
          BY <4>1, <4>2, <4>4 DEF SlotOK
        <5>2. bufferSlot[i].size \in Nat /\ cuts \subseteq 0 .. Size - 1
          <6>1. bufferSlot \in Seq(Slot)
            BY <2>0 DEF WriteAtTypeOK, Slot
          <6>2. bufferSlot[i] \in Slot
            BY <6>1, SeqElement
          <6> QED BY <2>0, <6>2 DEF WriteAtTypeOK, Slot, Offsets
        <5> QED BY <5>1, <5>2
      <4> QED BY <4>1, <4>3, <4>4 DEF SlotOK
    <3> QED BY <3>1, <3>2, <3>3, <3>4, Zenon DEF Buffered, SlotOK, Due
  <2>8. CASE UNCHANGED wvars
    BY <2>8 DEF wvars, WriteAtInv, Buffered, Due
  <2> QED BY <2>1, <2>2, <2>3, <2>4, <2>5, <2>6, <2>7, <2>8 DEF WriteAtNext
<1> QED BY <1>1, <1>2, PTL DEF WriteAtSpec

(* WriteAt writes the content in order and as far as it can, and Close tells
   whether something is held back, for every way to cut the content and every
   order of the writes *)
THEOREM WriteAtOrdered == WriteAtSpec => []WriteAtExact
<1> USE SizeAssumption
<1>1. WriteAtInv => WriteAtExact
  <2> SUFFICES ASSUME WriteAtInv, ~failed PROVE WriteAtExact
    BY DEF WriteAtExact
  <2>0. /\ Buffered /\ cuts \subseteq Offsets /\ done \subseteq cuts /\ outAt \in Nat
        /\ bufferSlot \in Seq(Slot)
    BY DEF WriteAtInv, WriteAtTypeOK, Slot
  <2>1. data = Bytes(0, outAt)
    BY <2>0 DEF Buffered
  <2> SUFFICES ASSUME ~flushing
               PROVE  /\ \A p \in cuts : p < outAt => p \in done
                      /\ outAt \in (cuts \ done) \cup {Size}
                      /\ CloseSucceeds <=> \A p \in done : p < outAt
    BY <2>1 DEF WriteAtExact
  <2>2. /\ \A p \in cuts : p < outAt => p \in done
        /\ outAt \in cuts \cup {Size}
        /\ bufferSlot = <<>> \/ bufferSlot[1].pos # outAt
    BY <2>0 DEF Buffered, Due
  <2>3. \A i \in 1 .. Len(bufferSlot) : /\ bufferSlot[i].pos \in done
                                       /\ bufferSlot[i].pos >= outAt /\ bufferSlot[i].pos \in Nat
    <3>1. \A i \in 1 .. Len(bufferSlot) : bufferSlot[i].pos \in done /\ bufferSlot[i].pos >= outAt
      BY <2>0 DEF Buffered, SlotOK
    <3>2. done \subseteq Nat
      BY <2>0 DEF Offsets
    <3> QED BY <3>1, <3>2
  <2>4. bufferSlot # <<>> => 1 \in 1 .. Len(bufferSlot)
    <3>1. Len(bufferSlot) \in Nat /\ (bufferSlot # <<>> => Len(bufferSlot) # 0)
      BY <2>0, SeqLen, SeqEmpty
    <3> QED BY <3>1
  <2>5. outAt \notin done
    <3> SUFFICES ASSUME outAt \in done PROVE FALSE
      OBVIOUS
    <3>1. PICK i \in 1 .. Len(bufferSlot) : bufferSlot[i].pos = outAt
      BY <2>0 DEF Buffered
    <3>2. bufferSlot # <<>> /\ Len(bufferSlot) \in Nat
      BY <2>0, <3>1, SeqEmpty, SeqLen
    <3>3. i = 1 \/ bufferSlot[1].pos < bufferSlot[i].pos
      BY <2>0, <2>4, <3>1, <3>2 DEF Buffered, Sorted
    <3> QED BY <2>0, <2>2, <2>3, <2>4, <3>1, <3>2, <3>3
  <2>6. CloseSucceeds <=> \A p \in done : p < outAt
    <3>1. CASE bufferSlot = <<>>
      <4>1. Len(bufferSlot) = 0
        BY <3>1, <2>0, SeqEmpty
      <4> QED BY <2>0, <3>1, <4>1 DEF Buffered, CloseSucceeds
    <3>2. CASE bufferSlot # <<>>
      <4>1. bufferSlot[1].pos \in done /\ ~(bufferSlot[1].pos < outAt)
        BY <2>0, <2>3, <2>4, <3>2
      <4> QED BY <3>2, <4>1 DEF CloseSucceeds
    <3> QED BY <3>1, <3>2
  <2> QED BY <2>2, <2>5, <2>6
<1> QED BY <1>1, WriteAtInvariant, PTL

-----------------------------------------------------------------------------
(* The payload bookkeeping of the monitor service, for any counters,       *)
(* number of overlapping posts and pattern of failures.                    *)

(* What Stop relies on: the timer is off, and no post is left at the flush *)
StopInv ==
  /\ stopper # "up" => timer = "off"
  /\ stopper = "flush" => NoPosts

-----------------------------------------------------------------------------
(* Every operation of counter.go on a counter of the service returns a counter of the same kind, with
   the total its name promises *)
LEMMA OperationFacts ==
  ASSUME NEW c \in CounterType, NEW v \in Int
  PROVE  /\ Set(c, v) \in CounterType /\ Inc(c) \in CounterType
         /\ Add(c, v) \in CounterType /\ SetInc(c, v) \in CounterType
         /\ Collected(c) \in CounterType
         /\ \A d \in {Set(c, v), Inc(c), Add(c, v), SetInc(c, v)} :
              d.cumalative = c.cumalative /\ d.cumalativeValue = c.cumalativeValue
         /\ Collected(c).cumalative = c.cumalative
         /\ Collected(c).incBy = c.incBy
         /\ Get(Collected(c)) = Get(c)
<1>1. Set(c, v) \in CounterType /\ Inc(c) \in CounterType
  BY DEF CounterType, Set, Inc
<1>2. Add(c, v) \in CounterType /\ SetInc(c, v) \in CounterType
  BY DEF CounterType, Add, SetInc
<1>3. /\ Set(c, v).cumalative = c.cumalative /\ Set(c, v).cumalativeValue = c.cumalativeValue
      /\ Inc(c).cumalative = c.cumalative /\ Inc(c).cumalativeValue = c.cumalativeValue
  BY DEF CounterType, Set, Inc
<1>4. /\ Add(c, v).cumalative = c.cumalative /\ Add(c, v).cumalativeValue = c.cumalativeValue
      /\ SetInc(c, v).cumalative = c.cumalative /\ SetInc(c, v).cumalativeValue = c.cumalativeValue
  BY DEF CounterType, Add, SetInc
<1>5. /\ Collected(c) \in CounterType /\ Collected(c).cumalative = c.cumalative
      /\ Collected(c).incBy = c.incBy /\ Get(Collected(c)) = Get(c)
  <2>1. CASE HasSnapshot(c) /\ c.cumalative
    <3> DEFINE d == [c EXCEPT !.cumalativeValue = @ + c.value, !.value = 0]
    <3>1. Collected(c) = d
      BY <2>1 DEF Collected
    <3>2. d.cumalative = c.cumalative /\ d.incBy = c.incBy
      BY DEF CounterType
    <3>4. c.cumalativeValue + c.value \in Int
      BY DEF CounterType
    <3>5. d \in CounterType
      <4> DEFINE e == [c EXCEPT !.cumalativeValue = @ + c.value]
      <4>1. e \in CounterType
        BY <3>4 DEF CounterType
      <4>2. d = [e EXCEPT !.value = 0]
        OBVIOUS
      <4> HIDE DEF e
      <4> QED BY <4>1, <4>2 DEF CounterType
    <3>3. d.value = 0 /\ d.cumalativeValue = c.cumalativeValue + c.value
      BY DEF CounterType
    <3> QED BY <3>1, <3>2, <3>3, <3>5 DEF Get, CounterType
  <2>2. CASE ~(HasSnapshot(c) /\ c.cumalative)
    BY <2>2 DEF Collected
  <2> QED BY <2>1, <2>2
<1> QED BY <1>1, <1>2, <1>3, <1>4, <1>5

(* What appending, and putting back, does to the payloads of a list *)
LEMMA AppendElements ==
  ASSUME NEW S, NEW s \in Seq(S), NEW x \in S
  PROVE  Elements(Append(s, x)) = Elements(s) \cup {x}
<1>1. Len(s) \in Nat /\ Len(Append(s, x)) = Len(s) + 1
  BY SeqAppend, SeqLen
<1>2. \A i \in 1 .. Len(s) : Append(s, x)[i] = s[i]
  BY SeqAppend
<1>3. Append(s, x)[Len(s) + 1] = x
  BY SeqAppend
<1> QED BY <1>1, <1>2, <1>3 DEF Elements

LEMMA ConcatElements ==
  ASSUME NEW S, NEW s \in Seq(S), NEW t \in Seq(S)
  PROVE  Elements(s \o t) = Elements(s) \cup Elements(t)
<1>1. Len(s) \in Nat /\ Len(t) \in Nat /\ Len(s \o t) = Len(s) + Len(t)
  BY SeqConcat, SeqLen
<1>2. \A i \in 1 .. Len(s) : i \in 1 .. Len(s) + Len(t) /\ (s \o t)[i] = s[i]
  BY <1>1, SeqConcat
<1>3. \A i \in 1 .. Len(t) : i + Len(s) \in 1 .. Len(s) + Len(t) /\ (s \o t)[i + Len(s)] = t[i]
  BY <1>1, SeqConcat
<1>4. \A i \in 1 .. Len(s) + Len(t) :
        \/ i \in 1 .. Len(s)
        \/ i - Len(s) \in 1 .. Len(t) /\ (i - Len(s)) + Len(s) = i
  BY <1>1
<1>5. Elements(s \o t) \subseteq Elements(s) \cup Elements(t)
  BY <1>1, <1>2, <1>3, <1>4 DEF Elements
<1>6. Elements(s) \cup Elements(t) \subseteq Elements(s \o t)
  BY <1>1, <1>2, <1>3, Zenon DEF Elements
<1> QED BY <1>5, <1>6

LEMMA ElementsType ==
  ASSUME NEW S, NEW s \in Seq(S)
  PROVE  Elements(s) \subseteq S /\ Elements(<<>>) = {}
BY SeqElement DEF Elements

(* A payload that has just been collected goes to the end of the queue *)
LEMMA AppendNew ==
  ASSUME NEW n \in Nat, NEW s \in Seq(1 .. n)
  PROVE  /\ Append(s, n + 1) \in Seq(1 .. n + 1)
         /\ Elements(Append(s, n + 1)) = Elements(s) \cup {n + 1}
         /\ Distinct(s) => Distinct(Append(s, n + 1))
         /\ Ascending(s) => Ascending(Append(s, n + 1))
<1>0. 1 .. n \subseteq 1 .. n + 1 /\ n + 1 \in 1 .. n + 1
  OBVIOUS
<1>1. s \in Seq(1 .. n + 1) /\ n + 1 \in 1 .. n + 1
  BY <1>0, SeqLarger
<1>2. /\ Len(s) \in Nat /\ Len(Append(s, n + 1)) = Len(s) + 1
      /\ \A i \in 1 .. Len(s) : Append(s, n + 1)[i] = s[i]
      /\ Append(s, n + 1)[Len(s) + 1] = n + 1
  BY <1>1, SeqAppend, SeqLen
<1>3. \A i \in 1 .. Len(s) : s[i] \in 1 .. n
  BY SeqElement
<1>4. ASSUME Distinct(s) PROVE Distinct(Append(s, n + 1))
  <2> SUFFICES ASSUME NEW i \in 1 .. Len(s) + 1, NEW j \in 1 .. Len(s) + 1,
                      Append(s, n + 1)[i] = Append(s, n + 1)[j]
               PROVE  i = j
    BY <1>2 DEF Distinct
  <2>1. CASE i \in 1 .. Len(s) /\ j \in 1 .. Len(s)
    BY <1>2, <1>4, <2>1 DEF Distinct
  <2>2. CASE i \in 1 .. Len(s) /\ j = Len(s) + 1
    BY <1>2, <1>3, <2>2
  <2>3. CASE i = Len(s) + 1 /\ j \in 1 .. Len(s)
    BY <1>2, <1>3, <2>3
  <2> QED BY <1>2, <2>1, <2>2, <2>3
<1>5. ASSUME Ascending(s) PROVE Ascending(Append(s, n + 1))
  <2> SUFFICES ASSUME NEW i \in 1 .. Len(s) + 1, NEW j \in 1 .. Len(s) + 1, i < j
               PROVE  Append(s, n + 1)[i] < Append(s, n + 1)[j]
    BY <1>2, Zenon DEF Ascending
  <2>1. i \in 1 .. Len(s) /\ Append(s, n + 1)[i] = s[i] /\ s[i] \in 1 .. n
    BY <1>2, <1>3
  <2>2. CASE j = Len(s) + 1
    BY <1>2, <2>1, <2>2
  <2>3. CASE j # Len(s) + 1
    <3>1. j \in 1 .. Len(s) /\ Append(s, n + 1)[j] = s[j]
      BY <1>2, <2>3
    <3> QED BY <1>5, <2>1, <3>1 DEF Ascending
  <2> QED BY <2>2, <2>3
<1> QED BY <1>1, <1>4, <1>5, SeqAppend, AppendElements

(* collectEvents queues what it collects, at the end *)
LEMMA QueueFacts ==
  ASSUME TypeOK, collectEvents
  PROVE  /\ content' \in Seq(Payload)
         /\ Len(content) \in Nat /\ Len(content') \in Nat /\ Len(content) <= Len(content')
         /\ Queue \in Seq(1 .. Len(content'))
         /\ Elements(Queue) = Elements(eventPayloads) \cup (Len(content) + 1 .. Len(content'))
         /\ Elements(eventPayloads) \subseteq 1 .. Len(content)
         /\ Distinct(eventPayloads) => Distinct(Queue)
         /\ Ascending(eventPayloads) => Ascending(Queue)
<1>1. content \in Seq(Payload) /\ Len(content) \in Nat /\ eventPayloads \in Seq(1 .. Len(content))
  BY SeqLen DEF TypeOK
<1>2. Elements(eventPayloads) \subseteq 1 .. Len(content)
  BY <1>1, ElementsType
<1>3. CASE Collectable # {}
  <2>1. Snapshot \in Payload
    <3>1. \A m \in monitors : Elements(counters[m]) \subseteq Counters
      BY ElementsType DEF TypeOK
    <3>2. Collectable \subseteq Counters
      BY <3>1 DEF Collectable, Registered
    <3>3. \A c \in Counters : counter[c].value \in Int
      BY DEF TypeOK, CounterType
    <3> QED BY <3>2, <3>3 DEF Snapshot, Payload
  <2>2. content' = Append(content, Snapshot) /\ Queue = Append(eventPayloads, Len(content) + 1)
    BY <1>3 DEF collectEvents, Queue
  <2>3. content' \in Seq(Payload) /\ Len(content') = Len(content) + 1
    BY <1>1, <2>1, <2>2, SeqAppend
  <2>4. Len(content) + 1 .. Len(content') = {Len(content) + 1}
    BY <1>1, <2>3
  <2> QED BY <1>1, <1>2, <2>2, <2>3, <2>4, AppendNew
<1>4. CASE Collectable = {}
  <2>1. content' = content /\ Queue = eventPayloads
    BY <1>4 DEF collectEvents, Queue
  <2>2. Len(content) + 1 .. Len(content') = {}
    BY <1>1, <2>1
  <2> QED BY <1>1, <1>2, <2>1, <2>2
<1> QED BY <1>3, <1>4

-----------------------------------------------------------------------------
(* The history variable overlapped means what it says *)
Alone == ~overlapped => \A o, p \in Posts : InHand(o) /\ InHand(p) => o = p

(* The payload bookkeeping: the parts of the invariant about where payloads are *)
Booked == NoneLost /\ OnceEach /\ InOrder /\ Alone

(* Steps that leave the payloads where they are *)
LEMMA QuietBooked ==
  ASSUME Booked,
         UNCHANGED <<content, eventPayloads, post, batch, delivered, overlapped, misreported>>
  PROVE  Booked'
<1>1. \A p \in Posts : InHand(p)' = InHand(p)
  BY DEF InHand
<1>2. NoneLost'
  BY <1>1 DEF Booked, NoneLost, Payloads
<1>3. OnceEach'
  BY <1>1 DEF Booked, OnceEach
<1>4. InOrder'
  BY <1>1 DEF Booked, InOrder
<1>5. Alone'
  BY <1>1 DEF Booked, Alone
<1> QED BY <1>2, <1>3, <1>4, <1>5 DEF Booked

(* A collection adds the new payload to the queue *)
LEMMA CollectBooked ==
  ASSUME TypeOK, Booked, CollectOnly
  PROVE  Booked'
<1>0. collectEvents /\ eventPayloads' = Queue
      /\ UNCHANGED <<post, batch, delivered, overlapped, misreported>>
  BY DEF CollectOnly
<1> DEFINE n == Len(content)
           m == Len(content')
<1>1. /\ n \in Nat /\ m \in Nat /\ n <= m
      /\ Elements(eventPayloads') = Elements(eventPayloads) \cup (n + 1 .. m)
      /\ Distinct(eventPayloads) => Distinct(eventPayloads')
      /\ Ascending(eventPayloads) => Ascending(eventPayloads')
  BY <1>0, QueueFacts
<1>2. \A p \in Posts : InHand(p)' = InHand(p) /\ batch'[p] = batch[p]
  BY <1>0 DEF InHand
<1>3. delivered \subseteq 1 .. n /\ \A p \in Posts : Elements(batch[p]) \subseteq 1 .. n
  BY ElementsType DEF TypeOK
<1>4. \A i \in 1 .. m : i \in 1 .. n \/ i \in n + 1 .. m
  BY <1>1
<1>5. \A i \in 1 .. n : i \notin n + 1 .. m
  BY <1>1
<1>6. \A i \in 1 .. n, j \in n + 1 .. m : i < j
  BY <1>1
<1> HIDE DEF n, m
<1>7. NoneLost'
  <2>1. Payloads = 1 .. n /\ Payloads' = 1 .. m
    BY DEF Payloads, n, m
  <2> QED BY <1>0, <1>1, <1>2, <1>4, <2>1 DEF Booked, NoneLost
<1>8. OnceEach'
  BY <1>0, <1>1, <1>2, <1>3, <1>5 DEF Booked, OnceEach
<1>9. InOrder'
  BY <1>0, <1>1, <1>2, <1>3, <1>6 DEF Booked, InOrder
<1>10. Alone'
  BY <1>0, <1>2 DEF Booked, Alone
<1> QED BY <1>7, <1>8, <1>9, <1>10 DEF Booked

(* The goroutine takes over the whole queue, the new payload included *)
LEMMA PostBooked ==
  ASSUME TypeOK, Booked, NEW p \in Posts, collectEvents, postEvents(p),
         UNCHANGED <<delivered, misreported>>
  PROVE  Booked'
<1> DEFINE n == Len(content)
           m == Len(content')
<1>1. /\ n \in Nat /\ m \in Nat /\ n <= m
      /\ Elements(Queue) = Elements(eventPayloads) \cup (n + 1 .. m)
      /\ Distinct(eventPayloads) => Distinct(Queue)
      /\ Ascending(eventPayloads) => Ascending(Queue)
  BY QueueFacts
<1>2. eventPayloads' = <<>> /\ Elements(eventPayloads') = {}
      /\ Distinct(eventPayloads') /\ Ascending(eventPayloads')
  BY DEF postEvents, Elements, Distinct, Ascending
<1>3. \A o \in Posts : batch'[o] = IF o = p THEN Queue ELSE batch[o]
  BY DEF TypeOK, postEvents
<1>4. \A o \in Posts : InHand(o)' <=> InHand(o) \/ o = p
  BY DEF TypeOK, postEvents, InHand
<1>5. ~InHand(p)
  BY DEF postEvents, InHand
<1>6. delivered \subseteq 1 .. n /\ \A o \in Posts : Elements(batch[o]) \subseteq 1 .. n
  BY ElementsType DEF TypeOK
<1>7. \A i \in 1 .. m : i \in 1 .. n \/ i \in n + 1 .. m
  BY <1>1
<1>8. \A i \in 1 .. n : i \notin n + 1 .. m
  BY <1>1
<1>9. ~overlapped' => ~overlapped /\ \A o \in Posts : ~InHand(o)
  BY Zenon DEF postEvents, InHand
<1> HIDE DEF n, m
<1>10. NoneLost'
  <2>1. Payloads = 1 .. n /\ Payloads' = 1 .. m
    BY DEF Payloads, n, m
  <2> QED BY <1>1, <1>3, <1>4, <1>5, <1>7, <2>1 DEF Booked, NoneLost
<1>11. OnceEach'
  <2> SUFFICES ASSUME ~misreported PROVE OnceEach'
    BY DEF OnceEach
  <2>1. Elements(Queue) \cap delivered = {} /\ Distinct(Queue)
    BY <1>1, <1>6, <1>8 DEF Booked, OnceEach
  <2>2. \A o \in Posts : InHand(o) => Elements(batch[o]) \cap Elements(Queue) = {}
    BY <1>1, <1>6, <1>8 DEF Booked, OnceEach
  <2> QED BY <1>2, <1>3, <1>4, <1>5, <2>1, <2>2, Zenon DEF Booked, OnceEach
<1>12. InOrder'
  BY <1>1, <1>2, <1>3, <1>4, <1>9 DEF Booked, InOrder
<1>13. Alone'
  BY <1>4, <1>9 DEF Alone
<1> QED BY <1>10, <1>11, <1>12, <1>13 DEF Booked

(* A goroutine that is done, or whose batch shrinks to what failed: what
   leaves its hands has been delivered *)
LEMMA ShrinkBooked ==
  ASSUME TypeOK, Booked, NEW p \in Posts, InHand(p),
         UNCHANGED <<content, eventPayloads, overlapped>>,
         NEW b, NEW pc \in {"idle", "failed"},
         post' = [post EXCEPT ![p] = pc], batch' = [batch EXCEPT ![p] = b],
         Elements(b) \subseteq Elements(batch[p]),
         Distinct(batch[p]) => Distinct(b),
         Ascending(batch[p]) => Ascending(b),
         delivered \subseteq delivered',
         delivered' \subseteq delivered \cup Elements(batch[p]),
         Elements(batch[p]) \ Elements(b) \subseteq delivered',
         ~misreported' => ~misreported /\ delivered' \cap Elements(b) \subseteq delivered,
         pc = "idle" => Elements(b) = {}
  PROVE  Booked'
<1>1. \A o \in Posts : InHand(o)' <=> InHand(o) /\ (o = p => pc = "failed")
  BY DEF TypeOK, InHand
<1>2. \A o \in Posts : batch'[o] = IF o = p THEN b ELSE batch[o]
  BY DEF TypeOK
<1>3. NoneLost'
  BY <1>1, <1>2 DEF Booked, NoneLost, Payloads
<1>4. OnceEach'
  <2> SUFFICES ASSUME ~misreported' PROVE OnceEach'
    BY DEF OnceEach
  <2>1. Distinct(eventPayloads') /\ Elements(eventPayloads') \cap delivered' = {}
    BY DEF Booked, OnceEach
  <2>2. Elements(b) \cap delivered' = {} /\ Distinct(b) /\ Elements(b) \cap Elements(eventPayloads) = {}
    BY DEF Booked, OnceEach
  <2>3. \A o \in Posts : InHand(o) /\ o # p =>
          /\ Distinct(batch[o])
          /\ Elements(batch[o]) \cap Elements(batch[p]) = {}
          /\ Elements(batch[o]) \cap (delivered \cup Elements(eventPayloads)) = {}
    BY DEF Booked, OnceEach
  <2>4. \A o \in Posts : InHand(o) /\ o # p =>
          Elements(batch[o]) \cap delivered' = {} /\ Elements(batch[o]) \cap Elements(b) = {}
    BY <2>3
  <2>5. \A o, q \in Posts : InHand(o) /\ InHand(q) /\ o # q =>
          Elements(batch[o]) \cap Elements(batch[q]) = {}
    BY DEF Booked, OnceEach
  <2> QED BY <1>1, <1>2, <2>1, <2>2, <2>3, <2>4, <2>5 DEF OnceEach
<1>5. InOrder'
  BY <1>1, <1>2, Zenon DEF Booked, InOrder
<1>6. Alone'
  BY <1>1 DEF Booked, Alone
<1> QED BY <1>3, <1>4, <1>5, <1>6 DEF Booked

(* The put-back moves the batch in front of the queue *)
LEMMA PutBackBooked ==
  ASSUME TypeOK, Booked, NEW p \in Posts, PutBack(p)
  PROVE  Booked'
<1> DEFINE b == batch[p]
           q == eventPayloads
           n == Len(content)
<1>1. q \in Seq(1 .. n) /\ b \in Seq(1 .. n) /\ Len(q) \in Nat /\ Len(b) \in Nat
  BY SeqLen DEF TypeOK
<1>2. eventPayloads' = b \o q /\ UNCHANGED <<content, delivered, overlapped, misreported>> /\ InHand(p)
  BY DEF PutBack, Others, InHand
<1>3. Elements(eventPayloads') = Elements(b) \cup Elements(q)
  BY <1>1, <1>2, ConcatElements
<1>4. \A o \in Posts : InHand(o)' <=> InHand(o) /\ o # p
  BY DEF TypeOK, PutBack, InHand
<1>5. \A o \in Posts : o # p => batch'[o] = batch[o]
  BY DEF TypeOK, PutBack
<1>6. /\ Len(b \o q) = Len(b) + Len(q)
      /\ \A i \in 1 .. Len(b) + Len(q) : (b \o q)[i] = IF i <= Len(b) THEN b[i] ELSE q[i - Len(b)]
  BY <1>1, SeqConcat
<1>7. \A i \in 1 .. Len(b) : b[i] \in Elements(b)
  BY DEF Elements
<1>8. \A i \in 1 .. Len(q) : q[i] \in Elements(q)
  BY DEF Elements
<1> HIDE DEF b, q, n
<1>9. ASSUME Distinct(b), Distinct(q), Elements(b) \cap Elements(q) = {} PROVE Distinct(b \o q)
  <2> SUFFICES ASSUME NEW i \in 1 .. Len(b) + Len(q), NEW j \in 1 .. Len(b) + Len(q),
                      (b \o q)[i] = (b \o q)[j]
               PROVE  i = j
    BY <1>6 DEF Distinct
  <2>1. CASE i <= Len(b) /\ j <= Len(b)
    BY <1>1, <1>6, <1>9, <2>1 DEF Distinct
  <2>2. CASE ~(i <= Len(b)) /\ ~(j <= Len(b))
    <3>1. i - Len(b) \in 1 .. Len(q) /\ j - Len(b) \in 1 .. Len(q) /\ q[i - Len(b)] = q[j - Len(b)]
      BY <1>1, <1>6, <2>2
    <3>2. i - Len(b) = j - Len(b)
      BY <1>9, <3>1 DEF Distinct
    <3> QED BY <1>1, <3>2
  <2>3. CASE i <= Len(b) /\ ~(j <= Len(b))
    BY <1>1, <1>6, <1>7, <1>8, <1>9, <2>3
  <2>4. CASE ~(i <= Len(b)) /\ j <= Len(b)
    BY <1>1, <1>6, <1>7, <1>8, <1>9, <2>4
  <2> QED BY <2>1, <2>2, <2>3, <2>4
<1>10. ASSUME Ascending(b), Ascending(q), \A i \in Elements(b), j \in Elements(q) : i < j
       PROVE  Ascending(b \o q)
  <2> SUFFICES ASSUME NEW i \in 1 .. Len(b) + Len(q), NEW j \in 1 .. Len(b) + Len(q), i < j
               PROVE  (b \o q)[i] < (b \o q)[j]
    BY <1>6 DEF Ascending
  <2>1. CASE j <= Len(b)
    BY <1>1, <1>6, <1>10, <2>1 DEF Ascending
  <2>2. CASE ~(i <= Len(b))
    <3>1. i - Len(b) \in 1 .. Len(q) /\ j - Len(b) \in 1 .. Len(q) /\ i - Len(b) < j - Len(b)
      BY <1>1, <2>2
    <3>2. (b \o q)[i] = q[i - Len(b)] /\ (b \o q)[j] = q[j - Len(b)]
      BY <1>1, <1>6, <2>2
    <3> QED BY <1>10, <3>1, <3>2 DEF Ascending
  <2>3. CASE i <= Len(b) /\ ~(j <= Len(b))
    <3>1. i \in 1 .. Len(b) /\ j - Len(b) \in 1 .. Len(q)
      BY <1>1, <2>3
    <3>2. (b \o q)[i] = b[i] /\ (b \o q)[j] = q[j - Len(b)]
      BY <1>6, <2>3
    <3> QED BY <1>7, <1>8, <1>10, <3>1, <3>2
  <2> QED BY <1>1, <2>1, <2>2, <2>3
<1>11. NoneLost'
  BY <1>2, <1>3, <1>4, <1>5 DEF Booked, NoneLost, Payloads, b, q
<1>12. OnceEach'
  <2> SUFFICES ASSUME ~misreported PROVE OnceEach'
    BY <1>2, Zenon DEF OnceEach
  <2>1. /\ Distinct(b) /\ Distinct(q) /\ Elements(b) \cap Elements(q) = {}
        /\ (Elements(b) \cup Elements(q)) \cap delivered = {}
    BY <1>2 DEF Booked, OnceEach, b, q
  <2>2. \A o \in Posts : InHand(o) /\ o # p =>
          Elements(batch[o]) \cap (delivered \cup Elements(b) \cup Elements(q)) = {}
    BY <1>2, Zenon DEF Booked, OnceEach, b, q
  <2>3. Distinct(eventPayloads')
    BY <1>2, <1>9, <2>1
  <2> QED BY <1>2, <1>3, <1>4, <1>5, <2>1, <2>2, <2>3, Zenon DEF Booked, OnceEach
<1>13. InOrder'
  <2> SUFFICES ASSUME ~overlapped PROVE InOrder'
    BY <1>2 DEF InOrder
  <2>1. \A o \in Posts : ~InHand(o)'
    BY <1>2, <1>4 DEF Booked, Alone
  <2>2. Ascending(eventPayloads')
    BY <1>2, <1>10 DEF Booked, InOrder, b, q
  <2> QED BY <2>1, <2>2 DEF InOrder
<1>14. Alone'
  BY <1>2, <1>4 DEF Booked, Alone
<1> QED BY <1>11, <1>12, <1>13, <1>14 DEF Booked

(* Every step of a posting goroutine keeps the books *)
LEMMA PostStepBooked ==
  ASSUME TypeOK, Booked, NEW p \in Posts, PostStep(p)
  PROVE  Booked'
<1>0. batch[p] \in Seq(1 .. Len(content)) /\ Len(batch[p]) \in Nat
  BY SeqLen DEF TypeOK
<1>e. Elements(<<>>) = {} /\ Distinct(<<>>) /\ Ascending(<<>>)
  BY DEF Elements, Distinct, Ascending
<1>1. CASE PostNothing(p)
  <2>1. batch' = [batch EXCEPT ![p] = <<>>]
    BY <1>1 DEF PostNothing, TypeOK
  <2>2. UNCHANGED <<content, eventPayloads, overlapped, delivered, misreported>>
        /\ post' = [post EXCEPT ![p] = "idle"] /\ InHand(p) /\ batch[p] = <<>>
    BY <1>1 DEF PostNothing, Others, InHand
  <2> QED BY <1>e, <2>1, <2>2, ShrinkBooked, Zenon
<1>2. CASE PostSucceeds(p)
  <2>1. UNCHANGED <<content, eventPayloads, overlapped, misreported>> /\ InHand(p)
        /\ post' = [post EXCEPT ![p] = "idle"] /\ batch' = [batch EXCEPT ![p] = <<>>]
        /\ delivered' = delivered \cup Elements(batch[p])
    BY <1>2 DEF PostSucceeds, Others, InHand
  <2> QED BY <1>e, <2>1, ShrinkBooked, Zenon
<1>3. CASE PostFails(p)
  <2>1. UNCHANGED <<content, eventPayloads, overlapped>> /\ InHand(p)
        /\ post' = [post EXCEPT ![p] = "failed"] /\ batch' = [batch EXCEPT ![p] = batch[p]]
    BY <1>3 DEF PostFails, Others, InHand, TypeOK
  <2>2. PICK arrived \in SUBSET Elements(batch[p]) :
          delivered' = delivered \cup arrived /\ misreported' = (misreported \/ arrived # {})
    BY <1>3, Zenon DEF PostFails
  <2> DEFINE b == batch[p]
  <2>3. /\ delivered \subseteq delivered' /\ delivered' \subseteq delivered \cup Elements(b)
        /\ ~misreported' => ~misreported /\ delivered' \cap Elements(b) \subseteq delivered
    BY <2>2, Zenon
  <2> QED BY <2>1, <2>3, ShrinkBooked, Zenon
<1>4. CASE PostFailsPartly(p)
  <2>1. UNCHANGED <<content, eventPayloads, overlapped>> /\ InHand(p)
        /\ post' = [post EXCEPT ![p] = "failed"]
    BY <1>4 DEF PostFailsPartly, Others, InHand
  <2>k. PICK k \in 1 .. Len(batch[p]) : \E f \in Increasing(k, Len(batch[p])) :
          LET b == [i \in 1 .. k |-> batch[p][f[i]]]
          IN  /\ batch' = [batch EXCEPT ![p] = b]
              /\ \E arrived \in SUBSET Elements(b) :
                   /\ misreported' = (misreported \/ arrived # {})
                   /\ delivered' = delivered \cup arrived \cup (Elements(batch[p]) \ Elements(b))
    BY <1>4, Zenon DEF PostFailsPartly
  <2>2. PICK f \in Increasing(k, Len(batch[p])) :
          LET b == [i \in 1 .. k |-> batch[p][f[i]]]
          IN  /\ batch' = [batch EXCEPT ![p] = b]
              /\ \E arrived \in SUBSET Elements(b) :
                   /\ misreported' = (misreported \/ arrived # {})
                   /\ delivered' = delivered \cup arrived \cup (Elements(batch[p]) \ Elements(b))
    BY <2>k, Zenon
  <2> DEFINE b == [i \in 1 .. k |-> batch[p][f[i]]]
  <2>3. /\ f \in [1 .. k -> 1 .. Len(batch[p])] /\ k \in Nat
        /\ \A i, j \in 1 .. k : i < j => f[i] < f[j]
    BY <1>0 DEF Increasing
  <2>4. Len(b) = k /\ \A i \in 1 .. k : b[i] = batch[p][f[i]] /\ f[i] \in 1 .. Len(batch[p])
    BY <2>3
  <2>5. PICK arrived \in SUBSET Elements(b) :
          /\ misreported' = (misreported \/ arrived # {})
          /\ delivered' = delivered \cup arrived \cup (Elements(batch[p]) \ Elements(b))
    BY <2>2, Zenon
  <2>6. batch' = [batch EXCEPT ![p] = b]
    BY <2>2
  <2> HIDE DEF b
  <2>7. Elements(b) \subseteq Elements(batch[p])
    BY <2>4 DEF Elements
  <2>8. Distinct(batch[p]) => Distinct(b)
    <3> SUFFICES ASSUME Distinct(batch[p]), NEW i \in 1 .. k, NEW j \in 1 .. k, b[i] = b[j]
                 PROVE  i = j
      BY <2>4 DEF Distinct
    <3>1. f[i] = f[j]
      BY <2>4 DEF Distinct
    <3>2. ~(i < j) /\ ~(j < i)
      BY <1>0, <2>3, <2>4, <3>1
    <3> QED BY <2>3, <3>2
  <2>9. Ascending(batch[p]) => Ascending(b)
    BY <2>3, <2>4, Zenon DEF Ascending
  <2>10. /\ delivered \subseteq delivered' /\ delivered' \subseteq delivered \cup Elements(batch[p])
         /\ Elements(batch[p]) \ Elements(b) \subseteq delivered'
         /\ ~misreported' => ~misreported /\ delivered' \cap Elements(b) \subseteq delivered
    BY <2>5, <2>7, Zenon
  <2> QED BY <2>1, <2>6, <2>7, <2>8, <2>9, <2>10, ShrinkBooked, Zenon
<1>5. CASE PutBack(p)
  BY <1>5, PutBackBooked
<1> QED BY <1>1, <1>2, <1>3, <1>4, <1>5 DEF PostStep

-----------------------------------------------------------------------------
(* The types of the payload lists, which grow with the history of payloads *)
ListTypes ==
  /\ content \in Seq(Payload)
  /\ eventPayloads \in Seq(1 .. Len(content))
  /\ post \in [Posts -> {"idle", "posting", "failed"}]
  /\ batch \in [Posts -> Seq(1 .. Len(content))]
  /\ delivered \subseteq 1 .. Len(content)
  /\ flushed \subseteq 1 .. Len(content)
  /\ overlapped \in BOOLEAN
  /\ misreported \in BOOLEAN

LEMMA CollectTypes ==
  ASSUME TypeOK, collectEvents
  PROVE  /\ counter' \in [Counters -> CounterType]
         /\ content' \in Seq(Payload)
         /\ Queue \in Seq(1 .. Len(content'))
         /\ 1 .. Len(content) \subseteq 1 .. Len(content')
         /\ \A p \in Posts : batch[p] \in Seq(1 .. Len(content'))
         /\ Elements(Queue) \subseteq 1 .. Len(content')
<1>1. \A c \in Counters : Collected(counter[c]) \in CounterType /\ counter[c] \in CounterType
  <2>1. \A c \in Counters : counter[c] \in CounterType
    BY DEF TypeOK
  <2>2. 0 \in Int
    OBVIOUS
  <2> QED BY <2>1, <2>2, OperationFacts
<1>2. counter' \in [Counters -> CounterType]
  BY <1>1 DEF collectEvents
<1>3. 1 .. Len(content) \subseteq 1 .. Len(content')
  BY QueueFacts
<1>4. \A p \in Posts : batch[p] \in Seq(1 .. Len(content'))
  <2>1. \A p \in Posts : batch[p] \in Seq(1 .. Len(content))
    BY DEF TypeOK
  <2>2. Seq(1 .. Len(content)) \subseteq Seq(1 .. Len(content'))
    BY <1>3, SeqLarger, Zenon
  <2> QED BY <2>1, <2>2
<1> QED BY <1>2, <1>3, <1>4, QueueFacts, ElementsType

LEMMA CollectOnlyTypes ==
  ASSUME TypeOK, CollectOnly
  PROVE  ListTypes' /\ counter' \in [Counters -> CounterType]
<1>1. collectEvents /\ eventPayloads' = Queue
      /\ UNCHANGED <<post, batch, delivered, flushed, overlapped, misreported>>
  BY DEF CollectOnly
<1>2. post' \in [Posts -> {"idle", "posting", "failed"}] /\ overlapped' \in BOOLEAN /\ misreported' \in BOOLEAN
  BY <1>1 DEF TypeOK
<1>3. batch' \in [Posts -> Seq(1 .. Len(content'))]
  BY <1>1, CollectTypes DEF TypeOK
<1>4. delivered' \subseteq 1 .. Len(content') /\ flushed' \subseteq 1 .. Len(content')
  BY <1>1, CollectTypes, Zenon DEF TypeOK
<1> QED BY <1>1, <1>2, <1>3, <1>4, CollectTypes DEF ListTypes

LEMMA PostTypes ==
  ASSUME TypeOK, NEW p \in Posts, collectEvents, postEvents(p),
         UNCHANGED <<delivered, misreported>>,
         flushed' = flushed \/ flushed' = Elements(Queue)
  PROVE  ListTypes' /\ counter' \in [Counters -> CounterType]
<1>1. post' \in [Posts -> {"idle", "posting", "failed"}]
  BY DEF TypeOK, postEvents
<1>2. overlapped' \in BOOLEAN /\ misreported' \in BOOLEAN
  BY DEF TypeOK, postEvents
<1>3. batch' \in [Posts -> Seq(1 .. Len(content'))]
  BY CollectTypes DEF TypeOK, postEvents
<1>4. eventPayloads' \in Seq(1 .. Len(content'))
  BY DEF postEvents
<1>5. delivered' \subseteq 1 .. Len(content') /\ flushed' \subseteq 1 .. Len(content')
  BY CollectTypes, Zenon DEF TypeOK
<1> QED BY <1>1, <1>2, <1>3, <1>4, <1>5, CollectTypes DEF ListTypes

LEMMA PostStepTypes ==
  ASSUME TypeOK, NEW p \in Posts, PostStep(p)
  PROVE  ListTypes'
<1> DEFINE n == Len(content)
<1>0. /\ n \in Nat /\ batch[p] \in Seq(1 .. n) /\ Len(batch[p]) \in Nat /\ eventPayloads \in Seq(1 .. n)
      /\ Elements(batch[p]) \subseteq 1 .. n /\ <<>> \in Seq(1 .. n)
  BY SeqLen, ElementsType, SeqEmpty DEF TypeOK
<1>1. UNCHANGED <<content, flushed, overlapped>>
  BY DEF PostStep, PostNothing, PostSucceeds, PostFails, PostFailsPartly, PutBack, Others
<1>2. post' \in [Posts -> {"idle", "posting", "failed"}]
  BY Zenon DEF PostStep, PostNothing, PostSucceeds, PostFails, PostFailsPartly, PutBack, TypeOK
<1>m. misreported' \in BOOLEAN
  <2>1. ASSUME PostFails(p) PROVE misreported' \in BOOLEAN
    BY <2>1, Zenon DEF PostFails
  <2>2. ASSUME PostFailsPartly(p) PROVE misreported' \in BOOLEAN
    BY <2>2 DEF PostFailsPartly
  <2>3. ASSUME misreported' = misreported PROVE misreported' \in BOOLEAN
    BY <2>3 DEF TypeOK
  <2> QED BY <2>1, <2>2, <2>3 DEF PostStep, PostNothing, PostSucceeds, PutBack
<1>3. eventPayloads' \in Seq(1 .. n)
  <2>1. CASE PutBack(p)
    BY <1>0, <2>1, SeqConcat DEF PutBack
  <2>2. CASE ~PutBack(p)
    BY <1>0, <2>2 DEF PostStep, PostNothing, PostSucceeds, PostFails, PostFailsPartly
  <2> QED BY <2>1, <2>2
<1>4. CASE PostFailsPartly(p)
  <2>k. PICK k \in 1 .. Len(batch[p]) : \E f \in Increasing(k, Len(batch[p])) :
          LET b == [i \in 1 .. k |-> batch[p][f[i]]]
          IN  /\ batch' = [batch EXCEPT ![p] = b]
              /\ \E arrived \in SUBSET Elements(b) :
                   delivered' = delivered \cup arrived \cup (Elements(batch[p]) \ Elements(b))
    BY <1>4, Zenon DEF PostFailsPartly
  <2>f. PICK f \in Increasing(k, Len(batch[p])) :
          LET b == [i \in 1 .. k |-> batch[p][f[i]]]
          IN  /\ batch' = [batch EXCEPT ![p] = b]
              /\ \E arrived \in SUBSET Elements(b) :
                   delivered' = delivered \cup arrived \cup (Elements(batch[p]) \ Elements(b))
    BY <2>k, Zenon
  <2> DEFINE b == [i \in 1 .. k |-> batch[p][f[i]]]
  <2>1. k \in Nat /\ f \in [1 .. k -> 1 .. Len(batch[p])]
    BY <1>0 DEF Increasing
  <2>2. \A i \in 1 .. k : batch[p][f[i]] \in 1 .. n
    BY <1>0, <2>1, SeqElement, Zenon
  <2>3. b \in Seq(1 .. n)
    BY <2>1, <2>2, SeqFunction
  <2>4. batch' = [batch EXCEPT ![p] = b]
    BY <2>f
  <2>5. PICK arrived \in SUBSET Elements(b) :
          delivered' = delivered \cup arrived \cup (Elements(batch[p]) \ Elements(b))
    BY <2>f
  <2> HIDE DEF b
  <2>6. Elements(b) \subseteq 1 .. n
    BY <2>3, ElementsType
  <2>7. delivered' \subseteq 1 .. n
    BY <1>0, <2>5, <2>6, Zenon DEF TypeOK
  <2>8. batch' \in [Posts -> Seq(1 .. n)]
    BY <2>3, <2>4 DEF TypeOK
  <2> QED BY <1>1, <1>2, <1>3, <1>m, <2>7, <2>8 DEF TypeOK, ListTypes
<1>5. CASE ~PostFailsPartly(p)
  <2>1. batch' \in [Posts -> Seq(1 .. n)]
    BY <1>0, <1>5, Zenon DEF PostStep, PostNothing, PostSucceeds, PostFails, PutBack, TypeOK
  <2>2. delivered' \subseteq 1 .. n
    <3>1. CASE PostFails(p)
      BY <1>0, <3>1, Zenon DEF PostFails, TypeOK
    <3>2. CASE ~PostFails(p)
      BY <1>0, <1>5, <3>2, Zenon DEF PostStep, PostNothing, PostSucceeds, PutBack, TypeOK
    <3> QED BY <3>1, <3>2
  <2> QED BY <1>1, <1>2, <1>3, <1>m, <2>1, <2>2 DEF TypeOK, ListTypes
<1> QED BY <1>4, <1>5
-----------------------------------------------------------------------------
(* What DeleteCounter leaves of a list is a list of counters *)
LEMMA DeletedType ==
  ASSUME NEW s \in Seq(Counters), NEW c, s # <<>>
  PROVE  Deleted(s, c) \in Seq(Counters)
<1>1. Len(s) \in Nat /\ Len(s) # 0
  BY SeqLen, SeqEmpty
<1>2. \A j \in 1 .. Len(s) - 1 : s[j] \in Counters /\ s[j + 1] \in Counters
  BY <1>1, SeqElement
<1>3. Len(s) - 1 \in Nat
  BY <1>1
<1> QED BY <1>2, <1>3, SeqFunction DEF Deleted

(* The rest of the type invariant *)
RestTypes ==
  /\ counter \in [Counters -> CounterType]
  /\ monitors \subseteq Monitors
  /\ counters \in [Monitors -> Seq(Counters)]
  /\ sendCountdown \in 0 .. CollectCount - 1
  /\ timer \in {"new", "on", "off"}
  /\ stopper \in {"up", "wait", "flush", "waitFlush", "stopped"}
  /\ sinceLast \in Nat

(* The inductive invariant *)
MInv == TypeOK /\ Booked /\ StopInv /\ PostPeriod /\ LastAttempt

LEMMA TypeParts == TypeOK <=> ListTypes /\ RestTypes
BY DEF TypeOK, ListTypes, RestTypes

LEMMA InitMInv == Init => MInv
<1> SUFFICES ASSUME Init PROVE MInv
  OBVIOUS
<1>1. TypeOK
  <2>1. Len(content) = 0 /\ content \in Seq(Payload)
    BY DEF Init
  <2>2. counter \in [Counters -> CounterType]
    BY DEF Init, NewCounter, CounterType
  <2>3. sendCountdown \in 0 .. CollectCount - 1 /\ sinceLast \in Nat
    BY CollectCountAssumption DEF Init
  <2>4. RestTypes
    BY <2>2, <2>3 DEF Init, RestTypes
  <2>5. ListTypes
    <3>1. eventPayloads \in Seq(1 .. Len(content)) /\ batch \in [Posts -> Seq(1 .. Len(content))]
      BY SeqEmpty DEF Init
    <3>2. post \in [Posts -> {"idle", "posting", "failed"}] /\ overlapped \in BOOLEAN /\ misreported \in BOOLEAN
      BY Zenon DEF Init
    <3>3. delivered \subseteq 1 .. Len(content) /\ flushed \subseteq 1 .. Len(content)
      BY DEF Init
    <3> QED BY <2>1, <3>1, <3>2, <3>3 DEF ListTypes
  <2> QED BY <2>4, <2>5, TypeParts
<1>2. Booked
  BY DEF Init, Booked, NoneLost, OnceEach, InOrder, Alone, InHand, Payloads, Elements, Distinct, Ascending
<1>3. StopInv /\ LastAttempt
  BY DEF Init, StopInv, LastAttempt
<1>4. PostPeriod
  BY CollectCountAssumption DEF Init, PostPeriod
<1> QED BY <1>1, <1>2, <1>3, <1>4 DEF MInv

Lists == <<content, eventPayloads, post, batch, delivered, flushed, overlapped, misreported>>

(* Steps that leave the payloads alone *)
LEMMA QuietLists ==
  ASSUME MInv, UNCHANGED Lists
  PROVE  ListTypes' /\ Booked' /\ (stopper' = stopper => LastAttempt')
<1>1. ListTypes'
  BY DEF MInv, TypeOK, ListTypes, Lists
<1>2. Booked'
  BY QuietBooked DEF MInv, Lists
<1>3. stopper' = stopper => LastAttempt'
  BY DEF MInv, LastAttempt, Payloads, Lists
<1> QED BY <1>1, <1>2, <1>3

LEMMA MonitorsStep ==
  ASSUME MInv,
         \/ \E c \in Counters : Touch(c)
         \/ \E m \in Monitors : NewMonitor(m)
         \/ \E m \in Monitors, c \in Counters : AddCounter(m, c) \/ DeleteCounter(m, c)
  PROVE  MInv'
<1>1. UNCHANGED Lists /\ UNCHANGED <<sendCountdown, timer, stopper, sinceLast>>
  BY DEF Touch, NewMonitor, AddCounter, DeleteCounter, Lists
<1>2. counter' \in [Counters -> CounterType]
  <2>1. CASE \E c \in Counters : Touch(c)
    <3> PICK c \in Counters : Touch(c)
      BY <2>1
    <3>1. PICK v \in Values :
            \E u \in {Inc(counter[c]), Add(counter[c], v), Set(counter[c], v), SetInc(counter[c], v)} :
              counter' = [counter EXCEPT ![c] = u]
      BY ZenonT(60) DEF Touch
    <3>2. counter[c] \in CounterType /\ v \in Int
      BY MonitorValuesAssumption DEF MInv, TypeOK
    <3>3. /\ Inc(counter[c]) \in CounterType /\ Add(counter[c], v) \in CounterType
          /\ Set(counter[c], v) \in CounterType /\ SetInc(counter[c], v) \in CounterType
      BY <3>2, OperationFacts
    <3> QED BY <3>1, <3>3 DEF MInv, TypeOK
  <2>2. CASE ~\E c \in Counters : Touch(c)
    BY <2>2 DEF NewMonitor, AddCounter, DeleteCounter, MInv, TypeOK
  <2> QED BY <2>1, <2>2
<1>3. monitors' \subseteq Monitors
  BY DEF Touch, NewMonitor, AddCounter, DeleteCounter, MInv, TypeOK
<1>4. counters' \in [Monitors -> Seq(Counters)]
  <2>1. ASSUME NEW m \in Monitors, NEW c \in Counters, AddCounter(m, c)
        PROVE  counters' \in [Monitors -> Seq(Counters)]
    BY <2>1, SeqAppend, Zenon DEF AddCounter, MInv, TypeOK
  <2>2. ASSUME NEW m \in Monitors, NEW c \in Counters, DeleteCounter(m, c)
        PROVE  counters' \in [Monitors -> Seq(Counters)]
    BY <2>2, DeletedType DEF DeleteCounter, MInv, TypeOK
  <2>3. ASSUME counters' = counters PROVE counters' \in [Monitors -> Seq(Counters)]
    BY <2>3 DEF MInv, TypeOK
  <2> QED BY <2>1, <2>2, <2>3 DEF Touch, NewMonitor
<1>5. RestTypes'
  BY <1>1, <1>2, <1>3, <1>4 DEF MInv, TypeOK, RestTypes
<1>6. TypeOK'
  BY <1>1, <1>5, QuietLists, TypeParts DEF TypeOK, ListTypes, RestTypes
<1>7. StopInv' /\ PostPeriod'
  BY <1>1 DEF MInv, StopInv, PostPeriod, NoPosts, Lists
<1> QED BY <1>1, <1>6, <1>7, QuietLists DEF MInv
(* Start, Stop's waits, and stuttering *)
LEMMA ControlStep ==
  ASSUME MInv, Start \/ Stop \/ StopWait \/ StopReturn \/ UNCHANGED vars
  PROVE  MInv'
<1>1. UNCHANGED Lists /\ UNCHANGED <<counter, monitors, counters, sendCountdown, sinceLast>>
  BY DEF Start, Stop, StopWait, StopReturn, vars, Lists
<1>2. timer' \in {"new", "on", "off"} /\ stopper' \in {"up", "wait", "flush", "waitFlush", "stopped"}
  BY DEF Start, Stop, StopWait, StopReturn, vars, MInv, TypeOK
<1>3. TypeOK'
  <2>1. RestTypes'
    BY <1>1, <1>2 DEF MInv, TypeOK, RestTypes
  <2> QED BY <1>1, <2>1, QuietLists DEF TypeOK, ListTypes, RestTypes
<1>4. StopInv'
  BY <1>1 DEF Start, Stop, StopWait, StopReturn, vars, MInv, StopInv, NoPosts, Lists
<1>5. LastAttempt'
  BY <1>1 DEF Start, Stop, StopWait, StopReturn, vars, MInv, LastAttempt, Payloads, Lists
<1>6. PostPeriod'
  BY <1>1 DEF MInv, PostPeriod
<1> QED BY <1>1, <1>3, <1>4, <1>5, <1>6, QuietLists DEF MInv

(* The timer's callback: a period goes on, or ends with a post *)
LEMMA TimerStep ==
  ASSUME MInv, CollectOnly \/ \E p \in Posts : CollectAndPost(p)
  PROVE  MInv'
<1>1. timer = "on" /\ UNCHANGED <<timer, stopper, monitors, counters>>
  BY DEF CollectOnly, CollectAndPost
<1>2. stopper = "up"
  BY <1>1 DEF MInv, StopInv
<1>3. Booked' /\ ListTypes' /\ counter' \in [Counters -> CounterType]
  <2>1. CASE CollectOnly
    BY <2>1, CollectBooked, CollectOnlyTypes DEF MInv
  <2>2. CASE \E p \in Posts : CollectAndPost(p)
    <3> PICK p \in Posts : CollectAndPost(p)
      BY <2>2
    <3>1. collectEvents /\ postEvents(p) /\ UNCHANGED <<delivered, flushed, misreported>>
      BY DEF CollectAndPost
    <3> QED BY <3>1, PostBooked, PostTypes DEF MInv
  <2> QED BY <2>1, <2>2
<1>4. /\ sendCountdown' \in 0 .. CollectCount - 1
      /\ sinceLast' \in Nat
      /\ sinceLast' + sendCountdown' = CollectCount - 1
  <2>1. /\ CollectCount \in Nat \ {0} /\ sendCountdown \in 0 .. CollectCount - 1
        /\ sinceLast \in Nat /\ sinceLast + sendCountdown = CollectCount - 1
    BY CollectCountAssumption DEF MInv, TypeOK, PostPeriod
  <2>2. \/ sendCountdown # 0 /\ sendCountdown' = sendCountdown - 1 /\ sinceLast' = sinceLast + 1
        \/ sendCountdown' = CollectCount - 1 /\ sinceLast' = 0
    BY DEF CollectOnly, CollectAndPost
  <2> QED BY <2>1, <2>2
<1>5. TypeOK'
  <2>1. RestTypes'
    BY <1>1, <1>3, <1>4 DEF MInv, TypeOK, RestTypes
  <2> QED BY <1>3, <2>1 DEF TypeOK, ListTypes, RestTypes
<1>6. StopInv' /\ LastAttempt'
  BY <1>1, <1>2 DEF StopInv, LastAttempt
<1> QED BY <1>3, <1>4, <1>5, <1>6 DEF MInv, PostPeriod

(* A posting goroutine's step *)
LEMMA PosterStep ==
  ASSUME MInv, NEW p \in Posts, PostStep(p)
  PROVE  MInv'
<1>1. UNCHANGED Others /\ delivered \subseteq delivered' /\ post[p] # "idle"
  <2>1. ASSUME PostFails(p) PROVE delivered \subseteq delivered'
    BY <2>1 DEF PostFails
  <2>2. ASSUME PostFailsPartly(p) PROVE delivered \subseteq delivered'
    BY <2>2 DEF PostFailsPartly
  <2>3. delivered \subseteq delivered'
    BY <2>1, <2>2 DEF PostStep, PostNothing, PostSucceeds, PutBack
  <2>4. UNCHANGED Others /\ post[p] # "idle"
    BY DEF PostStep, PostNothing, PostSucceeds, PostFails, PostFailsPartly, PutBack
  <2> QED BY <2>3, <2>4
<1>2. Booked' /\ ListTypes'
  BY PostStepBooked, PostStepTypes DEF MInv
<1>3. TypeOK'
  <2>1. RestTypes'
    BY <1>1 DEF MInv, TypeOK, RestTypes, Others
  <2> QED BY <1>2, <2>1 DEF TypeOK, ListTypes, RestTypes
<1>4. StopInv'
  BY <1>1 DEF MInv, StopInv, NoPosts, Others
<1>5. LastAttempt'
  BY <1>1 DEF MInv, LastAttempt, Payloads, Others
<1>6. PostPeriod'
  BY <1>1 DEF MInv, PostPeriod, Others
<1> QED BY <1>2, <1>3, <1>4, <1>5, <1>6 DEF MInv

(* Stop's own collection and post: nothing is under way, so all that was
   collected and not delivered is in the queue it takes *)
LEMMA FlushStep ==
  ASSUME MInv, NEW p \in Posts, StopFlush(p)
  PROVE  MInv'
<1>1. /\ collectEvents /\ postEvents(p) /\ flushed' = Elements(Queue)
      /\ UNCHANGED <<monitors, counters, sendCountdown, timer, delivered, sinceLast, misreported>>
      /\ stopper = "flush" /\ stopper' = "waitFlush"
  BY DEF StopFlush
<1>2. Booked' /\ ListTypes' /\ counter' \in [Counters -> CounterType]
  BY <1>1, PostBooked, PostTypes DEF MInv
<1>3. TypeOK'
  <2>1. RestTypes'
    BY <1>1, <1>2 DEF MInv, TypeOK, RestTypes
  <2> QED BY <1>2, <2>1 DEF TypeOK, ListTypes, RestTypes
<1>4. LastAttempt'
  <2>1. /\ Len(content) \in Nat /\ Len(content') \in Nat
        /\ Elements(Queue) = Elements(eventPayloads) \cup (Len(content) + 1 .. Len(content'))
    BY <1>1, QueueFacts DEF MInv
  <2>2. \A i \in 1 .. Len(content) : i \in delivered \/ i \in Elements(eventPayloads)
    BY <1>1 DEF MInv, Booked, NoneLost, Payloads, StopInv, NoPosts, InHand
  <2>3. \A i \in 1 .. Len(content') : i \in 1 .. Len(content) \/ i \in Len(content) + 1 .. Len(content')
    BY <2>1
  <2>4. 1 .. Len(content') \subseteq delivered \cup Elements(Queue)
    BY <2>1, <2>2, <2>3
  <2> QED BY <1>1, <2>4 DEF LastAttempt, Payloads
<1>5. StopInv' /\ PostPeriod'
  BY <1>1 DEF MInv, StopInv, PostPeriod
<1> QED BY <1>2, <1>3, <1>4, <1>5 DEF MInv

(***************************************************************************)
(* MInv is an inductive invariant of the service: every step of the timer, *)
(* of a posting goroutine, of Stop and of the monitors' owners keeps it.   *)
(***************************************************************************)
THEOREM MonitorInvariant == Spec => []MInv
<1>1. MInv /\ [Next]_vars => MInv'
  <2> SUFFICES ASSUME MInv, [Next]_vars PROVE MInv'
    OBVIOUS
  <2>1. CASE Start \/ Stop \/ UNCHANGED vars
    BY <2>1, ControlStep
  <2>2. CASE StopStep
    BY <2>2, ControlStep, FlushStep DEF StopStep
  <2>3. CASE CollectOnly \/ \E p \in Posts : CollectAndPost(p)
    BY <2>3, TimerStep
  <2>4. CASE \E p \in Posts : PostStep(p)
    BY <2>4, PosterStep
  <2>5. CASE \/ \E c \in Counters : Touch(c)
             \/ \E m \in Monitors : NewMonitor(m)
             \/ \E m \in Monitors, c \in Counters : AddCounter(m, c) \/ DeleteCounter(m, c)
    BY <2>5, MonitorsStep
  <2> QED BY <2>1, <2>2, <2>3, <2>4, <2>5 DEF Next
<1> QED BY <1>1, InitMInv, PTL DEF Spec

(* The variables keep their types: MonitorService.TypeOK. *)
THEOREM MonitorTypeOK == Spec => []TypeOK
<1>1. MInv => TypeOK
  BY DEF MInv
<1> QED BY <1>1, MonitorInvariant, PTL

(* No payload collect gathers is lost, whatever posts fail and overlap. *)
THEOREM MonitorNoneLost == Spec => []NoneLost
<1>1. MInv => NoneLost
  BY DEF MInv, Booked
<1> QED BY <1>1, MonitorInvariant, PTL

(* While the sender's errors are truthful no payload is in two places or posted twice. *)
THEOREM MonitorOnceEach == Spec => []OnceEach
<1>1. MInv => OnceEach
  BY DEF MInv, Booked
<1> QED BY <1>1, MonitorInvariant, PTL

(* While posts do not overlap, payloads are posted in collection order. *)
THEOREM MonitorInOrder == Spec => []InOrder
<1>1. MInv => InOrder
  BY DEF MInv, Booked
<1> QED BY <1>1, MonitorInvariant, PTL

(* A post comes with every CollectCount-th collection and with no other. *)
THEOREM MonitorPostPeriod == Spec => []PostPeriod
<1>1. MInv => PostPeriod
  BY DEF MInv
<1> QED BY <1>1, MonitorInvariant, PTL

(* Stop's flush takes every payload that has not been delivered. *)
THEOREM MonitorLastAttempt == Spec => []LastAttempt
<1>1. MInv => LastAttempt
  BY DEF MInv
<1> QED BY <1>1, MonitorInvariant, PTL
=============================================================================
