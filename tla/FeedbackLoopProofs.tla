-------------------------- MODULE FeedbackLoopProofs --------------------------
(***************************************************************************)
(* The index of the feedback loop never ingests an outcome twice.          *)
(*                                                                         *)
(* The buffer shrinks at its front while the index counts from there, so   *)
(* the position of an outcome and the index drift apart.  The argument is  *)
(* about consumed + Dropped, the number of the last outcome the index has  *)
(* passed: trimming can only move it forward.                              *)
(***************************************************************************)
EXTENDS FeedbackLoop, SequenceTheorems, FiniteSetTheorems, TLAPS

Ticks == {"idle", "slice", "keys", "decay", "fade", "process", "cut", "replace",
          "adjust", "set", "advance", "passOver", "apply"}

(* The parts of the state the argument is about, in their types. *)
LoopTypes ==
  /\ log \in Seq(NFs)
  /\ buffer \in Seq(Int) /\ snapshot \in Seq(Int) /\ batch \in Seq(Int)
  /\ Len(buffer) <= Len(log)
  /\ serving \in {"idle", "trim", "rewind"} /\ tick \in Ticks
  /\ consumed \in Nat
  /\ ingested \subseteq Outcomes

(* A run of consecutive outcomes. *)
Consecutive(lst) == \A i \in 1..Len(lst) : lst[i] = lst[1] + i - 1

(* The snapshot starts at an outcome no later than the first one still in   *)
(* the buffer.                                                              *)
SnapshotInv ==
  /\ Consecutive(snapshot)
  /\ snapshot # <<>> => /\ snapshot[1] >= 1
                        /\ snapshot[1] <= Dropped + 1
                        /\ snapshot[1] + Len(snapshot) - 1 <= Len(log)

(* No outcome ingested is beyond the index, as long as the batch at hand    *)
(* has not been committed.                                                  *)
IndexBehind ==
  tick \in {"idle", "slice", "keys", "decay", "fade", "passOver", "apply"} =>
    \A n \in ingested : n <= consumed + Dropped

(* ... nor beyond where Advance will set it. *)
SnapshotBehind ==
  tick \in {"process", "cut", "replace", "adjust", "set", "advance", "passOver"} =>
    \A n \in ingested : n <= Len(snapshot) + Dropped

SliceInv ==
  tick = "slice" =>
    \A n \in ingested, i \in 1..Len(snapshot) : i > consumed => n < snapshot[i]

BatchInv ==
  tick \in {"keys", "decay", "fade"} =>
    /\ Consecutive(batch)
    /\ Len(batch) >= MinFeedback
    /\ batch[1] >= 1
    /\ batch[Len(batch)] <= Len(log)
    /\ batch[Len(batch)] <= Len(snapshot) + Dropped
    /\ \A n \in ingested : n < batch[1]

IndexInv ==
  /\ LoopTypes
  /\ BufferIsLatest
  /\ SnapshotInv
  /\ IndexBehind
  /\ SnapshotBehind
  /\ SliceInv
  /\ BatchInv
-----------------------------------------------------------------------------
(* lst[from:] drops the first from elements and keeps the order.            *)
LEMMA WindowProperties ==
  ASSUME NEW S, NEW lst \in Seq(S), NEW from \in Nat
  PROVE  /\ Window(lst, from) \in Seq(S)
         /\ Len(Window(lst, from)) =
              (IF from < Len(lst) THEN Len(lst) - from ELSE 0)
         /\ \A i \in 1..(Len(lst) - from) : Window(lst, from)[i] = lst[from + i]
<1>1. \A i \in (from + 1)..Len(lst) : lst[i] \in S
  OBVIOUS
<1>2. from + 1 \in Int /\ Len(lst) \in Int
  OBVIOUS
<1>3. QED
  BY <1>1, <1>2, SubSeqProperties DEF Window

(* lst[-limit:] keeps the order and at most limit elements, the last ones.  *)
LEMMA LastOfProperties ==
  ASSUME NEW S, NEW lst \in Seq(S), NEW limit \in Nat
  PROVE  /\ LastOf(lst, limit) \in Seq(S)
         /\ Len(LastOf(lst, limit)) =
              (IF Len(lst) > limit THEN limit ELSE Len(lst))
         /\ \A i \in 1..Len(LastOf(lst, limit)) :
              LastOf(lst, limit)[i] =
                lst[Len(lst) - Len(LastOf(lst, limit)) + i]
<1>1. CASE Len(lst) > limit
  <2> DEFINE k == Len(lst) - limit
  <2>1. k \in Nat /\ k <= Len(lst) /\ Len(lst) - k = limit
    BY <1>1
  <2>2. LastOf(lst, limit) = Window(lst, k)
    BY <1>1 DEF LastOf
  <2> HIDE DEF k
  <2>3. /\ Window(lst, k) \in Seq(S)
        /\ Len(Window(lst, k)) = limit
        /\ \A i \in 1..limit : Window(lst, k)[i] = lst[k + i]
    <3>1. CASE k < Len(lst)
      BY <2>1, <3>1, WindowProperties
    <3>2. CASE k = Len(lst)
      BY <2>1, <3>2, WindowProperties
    <3>3. QED
      BY <2>1, <3>1, <3>2
  <2>4. Len(lst) - limit = k
    BY <2>1
  <2>5. QED
    BY <1>1, <2>2, <2>3, <2>4
<1>2. CASE ~ (Len(lst) > limit)
  BY <1>2 DEF LastOf
<1>3. QED
  BY <1>1, <1>2

LEMMA InitIndexInv == Init => IndexInv
<1> SUFFICES ASSUME Init PROVE IndexInv
  OBVIOUS
<1>1. FeedbackLimit \in Nat
  BY FeedbackAssumption
<1>2. LoopTypes
  BY DEF Init, LoopTypes, Ticks, Outcomes
<1>3. BufferIsLatest
  BY <1>1 DEF Init, BufferIsLatest
<1>4. QED
  BY <1>2, <1>3 DEF Init, IndexInv, SnapshotInv, Consecutive, IndexBehind,
     SnapshotBehind, SliceInv, BatchInv
-----------------------------------------------------------------------------
(* Types and ranges that the steps below need over and over.                *)
LEMMA IndexTypes ==
  ASSUME IndexInv
  PROVE  /\ FeedbackLimit \in Nat /\ MinFeedback \in Nat /\ MinFeedback >= 1
         /\ Len(log) \in Nat /\ Len(buffer) \in Nat /\ Len(snapshot) \in Nat
         /\ Len(batch) \in Nat /\ Dropped \in Nat /\ consumed \in Nat
         /\ \A n \in ingested : n \in Nat /\ n <= Len(log)
         /\ \A i \in 1..Len(snapshot) : snapshot[i] \in Int
         /\ \A i \in 1..Len(batch) : batch[i] \in Int
<1> USE DEF IndexInv, LoopTypes
<1>1. FeedbackLimit \in Nat /\ MinFeedback \in Nat /\ MinFeedback >= 1
  BY FeedbackAssumption
<1>2. Dropped \in Nat
  BY DEF Dropped
<1>3. \A n \in ingested : n \in Nat /\ n <= Len(log)
  BY DEF Outcomes
<1>4. QED
  BY <1>1, <1>2, <1>3

(* A step that leaves the sequences alone and cannot move the front of the  *)
(* buffer backwards keeps what the invariant says of snapshot and batch.    *)
LEMMA WindowsKeep ==
  ASSUME IndexInv,
         UNCHANGED <<snapshot, batch, consumed, ingested, tick>>,
         Len(log') \in Nat, Len(log') >= Len(log),
         Dropped' \in Nat, Dropped' >= Dropped
  PROVE  /\ SnapshotInv' /\ IndexBehind' /\ SnapshotBehind'
         /\ SliceInv' /\ BatchInv'
<1> USE IndexTypes
<1>1. SnapshotInv'
  <2>1. CASE snapshot = <<>>
    BY <2>1 DEF IndexInv, SnapshotInv, Consecutive
  <2>2. CASE snapshot # <<>>
    <3>1. 1 \in 1..Len(snapshot)
      BY <2>2 DEF IndexInv, LoopTypes
    <3>2. snapshot[1] \in Int
      BY <3>1
    <3>3. QED
      BY <2>2, <3>2 DEF IndexInv, SnapshotInv, Consecutive
  <2>3. QED
    BY <2>1, <2>2
<1>2. IndexBehind'
  BY DEF IndexInv, IndexBehind
<1>3. SnapshotBehind'
  BY DEF IndexInv, SnapshotBehind
<1>4. SliceInv'
  BY DEF IndexInv, SliceInv
<1>5. BatchInv'
  <2> SUFFICES ASSUME tick \in {"keys", "decay", "fade"} PROVE BatchInv'
    BY DEF BatchInv
  <2>1. /\ Consecutive(batch) /\ Len(batch) >= MinFeedback /\ batch[1] >= 1
        /\ batch[Len(batch)] <= Len(log)
        /\ batch[Len(batch)] <= Len(snapshot) + Dropped
        /\ \A n \in ingested : n < batch[1]
    BY DEF IndexInv, BatchInv
  <2>2. Len(batch) \in 1..Len(batch) /\ batch[Len(batch)] \in Int
    BY <2>1
  <2>3. /\ batch[Len(batch)] <= Len(log')
        /\ batch[Len(batch)] <= Len(snapshot) + Dropped'
    BY <2>1, <2>2
  <2>4. Consecutive(batch)'
    BY <2>1 DEF Consecutive
  <2> HIDE IndexTypes
  <2>5. QED
    BY <2>1, <2>3, <2>4 DEF BatchInv
<1>6. QED
  BY <1>1, <1>2, <1>3, <1>4, <1>5
-----------------------------------------------------------------------------
(* The steps that change the state the invariant is about, one lemma each.  *)

LEMMA AppendKeeps ==
  ASSUME IndexInv, NEW nf \in NFs, AppendOutcome(nf)
  PROVE  IndexInv'
<1> USE DEF IndexInv, LoopTypes, AppendOutcome, pass
<1>1. /\ Len(log') = Len(log) + 1 /\ Len(buffer') = Len(buffer) + 1
      /\ \A i \in 1..Len(buffer) : buffer'[i] = buffer[i]
      /\ buffer'[Len(buffer) + 1] = Len(log) + 1
  OBVIOUS
<1>2. Dropped' = Dropped
  BY <1>1 DEF Dropped
<1>3. LoopTypes'
  BY <1>1 DEF Outcomes
<1>4. BufferIsLatest'
  <2>1. Len(buffer) <= FeedbackLimit
    BY IndexTypes DEF BufferIsLatest
  <2>2. Len(buffer') <= FeedbackLimit + 1
    BY <2>1, <1>1, FeedbackAssumption
  <2>3. ASSUME NEW i \in 1..Len(buffer') PROVE buffer'[i] = Dropped' + i
    <3>1. CASE i \in 1..Len(buffer)
      BY <3>1, <1>1, <1>2 DEF BufferIsLatest
    <3>2. CASE i = Len(buffer) + 1
      BY <3>2, <1>1, <1>2 DEF Dropped
    <3>3. QED
      BY <3>1, <3>2, <1>1
  <2>4. QED
    BY <2>2, <2>3 DEF BufferIsLatest
<1>5. QED
  BY <1>1, <1>2, <1>3, <1>4, IndexTypes, WindowsKeep

LEMMA TrimKeeps ==
  ASSUME IndexInv, TrimBuffer
  PROVE  IndexInv'
<1> USE DEF IndexInv, LoopTypes, TrimBuffer, pass
<1>1. FeedbackLimit \in Nat
  BY FeedbackAssumption
<1> DEFINE trimmed == LastOf(buffer, FeedbackLimit)
<1>2. /\ trimmed \in Seq(Int)
      /\ Len(trimmed) = (IF Len(buffer) > FeedbackLimit THEN FeedbackLimit
                                                        ELSE Len(buffer))
      /\ \A i \in 1..Len(trimmed) :
           trimmed[i] = buffer[Len(buffer) - Len(trimmed) + i]
  BY <1>1, LastOfProperties
<1>0. buffer' = trimmed
  OBVIOUS
<1> HIDE DEF trimmed
<1>3. /\ Len(buffer') \in Nat
      /\ Len(buffer') <= Len(buffer) /\ Len(buffer') <= FeedbackLimit
      /\ Dropped \in Nat /\ Dropped' \in Nat /\ Dropped' >= Dropped
  BY <1>0, <1>1, <1>2, IndexTypes DEF Dropped
<1>4. LoopTypes'
  BY <1>0, <1>2, <1>3 DEF Outcomes
<1>5. BufferIsLatest'
  <2>1. ASSUME NEW i \in 1..Len(buffer') PROVE buffer'[i] = Dropped' + i
    <3> DEFINE j == Len(buffer) - Len(buffer') + i
    <3>1. j \in 1..Len(buffer)
      BY <1>3, IndexTypes
    <3>2. buffer'[i] = buffer[j]
      BY <1>0, <1>2
    <3>3. buffer[j] = Dropped + j
      BY <3>1 DEF BufferIsLatest
    <3>4. Dropped + j = Dropped' + i
      BY <1>0, <1>2, <1>3 DEF Dropped
    <3>5. QED
      BY <3>2, <3>3, <3>4
  <2>2. QED
    BY <1>1, <1>3, <2>1 DEF BufferIsLatest
<1>6. UNCHANGED <<snapshot, batch, consumed, ingested, tick, log>>
  OBVIOUS
<1>7. Len(log') = Len(log)
  BY <1>6
<1>8. QED
  BY <1>3, <1>4, <1>5, <1>6, <1>7, IndexTypes, WindowsKeep

LEMMA ResetIndexKeeps ==
  ASSUME IndexInv, ResetIndex
  PROVE  IndexInv'
BY DEF IndexInv, LoopTypes, ResetIndex, pass, Outcomes, Dropped, BufferIsLatest,
   SnapshotInv, Consecutive, IndexBehind, SnapshotBehind, SliceInv, BatchInv

LEMMA TakeSnapshotKeeps ==
  ASSUME IndexInv, TakeSnapshot
  PROVE  IndexInv'
<1> USE DEF IndexInv, LoopTypes, TakeSnapshot, eventLoop
<1>1. Dropped' = Dropped /\ Dropped \in Nat
  BY DEF Dropped
<1>2. LoopTypes'
  BY DEF Outcomes, Ticks
<1>3. BufferIsLatest'
  BY <1>1 DEF BufferIsLatest
<1>4. \A i \in 1..Len(buffer) : snapshot'[i] = Dropped + i
  BY DEF BufferIsLatest
<1>5. SnapshotInv'
  <2>1. CASE buffer = <<>>
    BY <2>1 DEF SnapshotInv, Consecutive
  <2>2. CASE buffer # <<>>
    <3>1. 1 \in 1..Len(buffer) /\ snapshot' = buffer /\ log' = log
      BY <2>2
    <3>2. snapshot'[1] = Dropped + 1
      BY <3>1, <1>4
    <3>3. Consecutive(snapshot)'
      BY <1>1, <1>4, <3>1, <3>2 DEF Consecutive
    <3>4. Dropped + Len(buffer) = Len(log)
      BY DEF Dropped
    <3>5. QED
      BY <1>1, <3>1, <3>2, <3>3, <3>4 DEF SnapshotInv
  <2>3. QED
    BY <2>1, <2>2
<1>6. SliceInv'
  <2>1. ASSUME NEW n \in ingested, NEW i \in 1..Len(buffer), i > consumed
        PROVE  n < buffer[i]
    <3>1. n <= consumed + Dropped
      BY DEF IndexBehind
    <3>2. buffer[i] = Dropped + i
      BY DEF BufferIsLatest
    <3>3. QED
      BY <3>1, <3>2, <2>1, <1>1, IndexTypes
  <2>2. QED
    BY <2>1 DEF SliceInv
<1>7. IndexBehind' /\ SnapshotBehind' /\ BatchInv'
  BY <1>1 DEF IndexBehind, SnapshotBehind, BatchInv
<1>8. QED
  BY <1>2, <1>3, <1>5, <1>6, <1>7
LEMMA SliceKeeps ==
  ASSUME IndexInv, Slice
  PROVE  IndexInv'
<1> DEFINE new == Window(snapshot, consumed)
<1>1. /\ tick = "slice" /\ batch' = new
      /\ tick' = (IF new = <<>> THEN "idle"
                  ELSE IF Len(new) < MinFeedback THEN "passOver" ELSE "keys")
      /\ UNCHANGED <<log, buffer, serving, consumed, snapshot, ingested>>
  BY DEF Slice, NewEntries, eventLoop
<1>2. /\ new \in Seq(Int)
      /\ Len(new) = (IF consumed < Len(snapshot) THEN Len(snapshot) - consumed
                                                 ELSE 0)
      /\ \A i \in 1..(Len(snapshot) - consumed) : new[i] = snapshot[consumed + i]
  BY WindowProperties DEF IndexInv, LoopTypes
<1> HIDE DEF new
<1>3. Dropped' = Dropped
  BY <1>1 DEF Dropped
<1>4. LoopTypes' /\ BufferIsLatest' /\ SnapshotInv'
  BY <1>1, <1>2, <1>3 DEF IndexInv, LoopTypes, BufferIsLatest, SnapshotInv,
     Consecutive, Outcomes, Ticks
<1>5. IndexBehind'
  BY <1>1, <1>3 DEF IndexInv, IndexBehind
<1>6. SliceInv'
  BY <1>1 DEF SliceInv
<1>7. CASE new = <<>>
  BY <1>1, <1>4, <1>5, <1>6, <1>7 DEF IndexInv, SnapshotBehind, BatchInv
<1>8. CASE new # <<>>
  <2>1. /\ consumed < Len(snapshot) /\ Len(new) = Len(snapshot) - consumed
        /\ Len(new) \in 1..Len(new) /\ 1 \in 1..Len(new)
        /\ snapshot # <<>> /\ 1 \in 1..Len(snapshot)
    BY <1>2, <1>8, IndexTypes
  <2>2. \A i \in 1..Len(snapshot) : snapshot[i] = snapshot[1] + i - 1
    BY DEF IndexInv, SnapshotInv, Consecutive
  <2>4. /\ snapshot[1] \in Nat /\ snapshot[1] >= 1
        /\ snapshot[1] <= Dropped + 1
        /\ snapshot[1] + Len(snapshot) - 1 <= Len(log)
    BY <2>1, IndexTypes DEF IndexInv, SnapshotInv
  <2>3. ASSUME NEW i \in 1..Len(new)
        PROVE  new[i] = snapshot[1] + consumed + i - 1
    <3>1. consumed + i \in 1..Len(snapshot) /\ i \in 1..(Len(snapshot) - consumed)
      BY <2>1, IndexTypes
    <3>2. snapshot[consumed + i] = snapshot[1] + (consumed + i) - 1
      BY <3>1, <2>2
    <3>3. new[i] = snapshot[consumed + i]
      BY <1>2, <3>1
    <3>4. consumed \in Int /\ i \in Int /\ snapshot[1] \in Int
      BY <2>4, IndexTypes
    <3>5. QED
      BY <3>2, <3>3, <3>4
  <2>5. \A n \in ingested : n < new[1]
    <3>1. consumed + 1 \in 1..Len(snapshot)
      BY <2>1, IndexTypes
    <3>2. new[1] = snapshot[consumed + 1]
      BY <1>2, <2>1, IndexTypes
    <3>3. QED
      BY <1>1, <3>1, <3>2, IndexTypes DEF IndexInv, SliceInv
  <2>6. SnapshotBehind'
    <3>1. ASSUME NEW n \in ingested PROVE n <= Len(snapshot) + Dropped
      <4>1. n < new[1] /\ new[1] = snapshot[1] + consumed + 1 - 1
        BY <2>1, <2>3, <2>5
      <4>2. /\ n \in Nat /\ consumed \in Nat /\ snapshot[1] \in Nat
            /\ Len(snapshot) \in Nat /\ Dropped \in Nat
            /\ consumed < Len(snapshot) /\ snapshot[1] <= Dropped + 1
        BY <2>1, <2>4, IndexTypes
      <4> HIDE DEF new
      <4>3. QED
        BY <4>1, <4>2
    <3>2. QED
      BY <1>1, <1>3, <3>1 DEF SnapshotBehind
  <2>7. BatchInv'
    <3>1. ASSUME NEW i \in 1..Len(new) PROVE new[i] = new[1] + i - 1
      <4> DEFINE a == snapshot[1] + consumed
      <4>1. snapshot[1] \in Int /\ consumed \in Int /\ i \in Int
        BY <2>1, <2>4, IndexTypes
      <4>2. new[i] = a + i - 1 /\ new[1] = a + 1 - 1 /\ a \in Int
        BY <2>1, <2>3, <4>1
      <4> HIDE DEF a
      <4>3. a + 1 - 1 = a
        BY <4>2
      <4>4. QED
        BY <4>2, <4>3
    <3>2. /\ new[1] >= 1
          /\ new[Len(new)] = snapshot[1] + Len(snapshot) - 1
      <4>1. new[1] = snapshot[1] + consumed + 1 - 1
        BY <2>1, <2>3
      <4>2. new[Len(new)] = snapshot[1] + consumed + Len(new) - 1
        BY <2>1, <2>3
      <4>3. /\ consumed \in Nat /\ snapshot[1] \in Nat /\ snapshot[1] >= 1
            /\ Len(snapshot) \in Nat /\ Len(new) = Len(snapshot) - consumed
        BY <2>1, <2>4, IndexTypes
      <4>4. QED
        BY <4>1, <4>2, <4>3
    <3>3. new[Len(new)] <= Len(log) /\ new[Len(new)] <= Len(snapshot) + Dropped
      BY <3>2, <2>4, IndexTypes
    <3>4. tick' \in {"keys", "decay", "fade"} => Len(new) >= MinFeedback
      BY <1>1, <1>8, <1>2, IndexTypes
    <3>5. QED
      BY <1>1, <1>3, <2>5, <3>1, <3>2, <3>3, <3>4 DEF BatchInv, Consecutive
  <2>8. QED
    BY <1>4, <1>5, <1>6, <2>6, <2>7 DEF IndexInv
<1>9. QED
  BY <1>7, <1>8

(* The outcomes of a batch are the whole range from its first to its last.  *)
LEMMA BatchIsRange ==
  ASSUME IndexInv, tick = "decay"
  PROVE  /\ batch[1] \in Outcomes /\ batch[Len(batch)] \in Outcomes
         /\ batch[Len(batch)] - batch[1] + 1 >= MinFeedback
         /\ {batch[i] : i \in 1..Len(batch)} = batch[1]..batch[Len(batch)]
         /\ \A n \in ingested : n < batch[1]
         /\ batch[Len(batch)] <= Len(snapshot) + Dropped
<1>1. /\ \A i \in 1..Len(batch) : batch[i] = batch[1] + i - 1
      /\ Len(batch) >= MinFeedback /\ batch[1] >= 1
      /\ batch[Len(batch)] <= Len(log)
      /\ batch[Len(batch)] <= Len(snapshot) + Dropped
      /\ \A n \in ingested : n < batch[1]
  BY DEF IndexInv, BatchInv, Consecutive
<1>2. 1 \in 1..Len(batch) /\ Len(batch) \in 1..Len(batch)
  BY <1>1, IndexTypes
<1>3. batch[1] \in Int /\ batch[Len(batch)] = batch[1] + Len(batch) - 1
  BY <1>1, <1>2, IndexTypes
<1>4. {batch[i] : i \in 1..Len(batch)} = batch[1]..batch[Len(batch)]
  <2>1. ASSUME NEW i \in 1..Len(batch)
        PROVE  batch[i] \in batch[1]..batch[Len(batch)]
    <3>1. batch[i] = batch[1] + i - 1 /\ i \in Int /\ 1 <= i /\ i <= Len(batch)
      BY <1>1, IndexTypes
    <3>2. QED
      BY <3>1, <1>3, IndexTypes
  <2>2. ASSUME NEW n \in batch[1]..batch[Len(batch)]
        PROVE  \E i \in 1..Len(batch) : n = batch[i]
    <3>1. n - batch[1] + 1 \in 1..Len(batch)
      <4> DEFINE a == batch[1]
                 b == batch[Len(batch)]
                 l == Len(batch)
      <4>1. a \in Int /\ l \in Nat /\ b = a + l - 1 /\ n \in a..b
        BY <1>3, IndexTypes
      <4> HIDE DEF a, b, l
      <4>2. n - a + 1 \in 1..l
        BY <4>1
      <4>3. QED
        BY <4>2 DEF a, l
    <3>2. n = batch[n - batch[1] + 1]
      BY <1>1, <1>3, <3>1
    <3>3. QED
      BY <3>1, <3>2
  <2>3. QED
    BY <2>1, <2>2
<1>5. batch[1] <= batch[Len(batch)] /\ batch[Len(batch)] - batch[1] + 1 = Len(batch)
  BY <1>2, <1>3, IndexTypes
<1>6. batch[1] \in Outcomes /\ batch[Len(batch)] \in Outcomes
  <2>1. batch[1] \in Int /\ batch[Len(batch)] \in Int /\ Len(log) \in Nat
    BY <1>2, IndexTypes
  <2>2. QED
    BY <1>1, <1>5, <2>1 DEF Outcomes
<1>7. QED
  BY <1>1, <1>4, <1>5, <1>6

LEMMA DecayDoneKeeps ==
  ASSUME IndexInv, DecayDone
  PROVE  IndexInv'
<1>1. /\ tick = "decay" /\ tick' = "process"
      /\ ingested' = ingested \cup {batch[i] : i \in 1..Len(batch)}
      /\ UNCHANGED <<log, buffer, serving, consumed, snapshot, batch>>
  BY DEF DecayDone, eventLoop
<1>2. Dropped' = Dropped
  BY <1>1 DEF Dropped
<1>3. ingested' = ingested \cup (batch[1]..batch[Len(batch)])
  BY <1>1, BatchIsRange
<1>4. \A n \in ingested' : n \in Outcomes /\ n <= Len(snapshot) + Dropped
  <2>1. ASSUME NEW n \in ingested PROVE n \in Outcomes /\ n <= Len(snapshot) + Dropped
    <3>1. /\ batch[1] \in Outcomes /\ batch[Len(batch)] \in Outcomes
          /\ batch[Len(batch)] - batch[1] + 1 >= MinFeedback
          /\ batch[Len(batch)] <= Len(snapshot) + Dropped
          /\ n < batch[1]
      BY <1>1, BatchIsRange
    <3>2. n \in Outcomes
      BY DEF IndexInv, LoopTypes
    <3>3. QED
      BY <3>1, <3>2, IndexTypes DEF Outcomes
  <2>2. ASSUME NEW n \in batch[1]..batch[Len(batch)]
        PROVE  n \in Outcomes /\ n <= Len(snapshot) + Dropped
    <3>1. /\ batch[1] \in Outcomes /\ batch[Len(batch)] \in Outcomes
          /\ batch[Len(batch)] <= Len(snapshot) + Dropped
      BY <1>1, BatchIsRange
    <3>2. QED
      BY <3>1, IndexTypes DEF Outcomes
  <2>3. QED
    BY <1>3, <2>1, <2>2
<1>5. LoopTypes' /\ BufferIsLatest' /\ SnapshotInv'
  BY <1>1, <1>2, <1>4 DEF IndexInv, LoopTypes, BufferIsLatest, SnapshotInv,
     Consecutive, Outcomes, Ticks
<1>6. SnapshotBehind'
  BY <1>1, <1>2, <1>4 DEF SnapshotBehind
<1>7. IndexBehind' /\ SliceInv' /\ BatchInv'
  BY <1>1 DEF IndexBehind, SliceInv, BatchInv
<1>8. QED
  BY <1>5, <1>6, <1>7 DEF IndexInv

LEMMA AdvanceKeeps ==
  ASSUME IndexInv, Advance
  PROVE  IndexInv'
<1>1. /\ tick \in {"advance", "passOver"} /\ tick' \in {"apply", "idle"}
      /\ consumed' = Len(snapshot)
      /\ UNCHANGED <<log, buffer, serving, snapshot, batch, ingested>>
  BY DEF Advance, Measure, eventLoop
<1>2. Dropped' = Dropped
  BY <1>1 DEF Dropped
<1>3. LoopTypes' /\ BufferIsLatest' /\ SnapshotInv'
  BY <1>1, <1>2, IndexTypes DEF IndexInv, LoopTypes, BufferIsLatest, SnapshotInv,
     Consecutive, Outcomes, Ticks
<1>4. IndexBehind'
  BY <1>1, <1>2 DEF IndexInv, SnapshotBehind, IndexBehind
<1>5. SnapshotBehind' /\ SliceInv' /\ BatchInv'
  BY <1>1 DEF SnapshotBehind, SliceInv, BatchInv
<1>6. QED
  BY <1>3, <1>4, <1>5 DEF IndexInv

(* The steps inside recalibrate, and the reset of its state, move tick      *)
(* within the two phases and touch nothing else the invariant reads.        *)
Inside ==
  /\ UNCHANGED <<log, buffer, consumed, snapshot, batch, ingested>>
  /\ serving' = serving \/ (serving = "idle" /\ serving' = "rewind")
  /\ \/ tick' = tick
     \/ tick \in {"keys", "decay", "fade"} /\ tick' \in {"decay", "fade", "idle"}
     \/ /\ tick \in {"process", "cut", "replace", "adjust", "set"}
        /\ tick' \in {"process", "cut", "replace", "adjust", "set", "advance"}
     \/ tick = "apply" /\ tick' = "idle"

LEMMA InsideKeeps ==
  ASSUME IndexInv, Inside
  PROVE  IndexInv'
<1>1. UNCHANGED <<log, buffer, consumed, snapshot, batch, ingested>> /\ Dropped' = Dropped
  BY DEF Inside, Dropped
<1>2. LoopTypes'
  BY <1>1 DEF IndexInv, LoopTypes, Inside, Outcomes, Ticks
<1>3. BufferIsLatest'
  <2>1. \A i \in 1..Len(buffer') : buffer'[i] = Dropped' + i
    BY <1>1 DEF IndexInv, BufferIsLatest
  <2>2. Len(buffer) <= FeedbackLimit + (IF serving' = "trim" THEN 1 ELSE 0)
    BY <1>1 DEF IndexInv, BufferIsLatest, Inside
  <2>3. QED
    BY <1>1, <2>1, <2>2 DEF BufferIsLatest
<1>4. SnapshotInv'
  BY <1>1 DEF IndexInv, SnapshotInv, Consecutive
<1>5. IndexBehind' /\ SnapshotBehind' /\ SliceInv' /\ BatchInv'
  BY <1>1 DEF IndexInv, Inside, IndexBehind, SnapshotBehind, SliceInv, BatchInv,
     Consecutive
<1>6. QED
  BY <1>2, <1>3, <1>4, <1>5 DEF IndexInv
-----------------------------------------------------------------------------
InsideSteps ==
  \/ ResetState
  \/ DecayKeys \/ DecayWrite
  \/ AppendEntry \/ CutHistory \/ ReplaceHistory \/ ProcessDone
  \/ AdjustWrite \/ CountEntries \/ ApplyRecalibration
  \/ \E nf \in NFs : DecayRead(nf) \/ AdjustRead(nf)

LEMMA InsideStepsAreInside ==
  ASSUME InsideSteps
  PROVE  Inside
<1> USE DEF Inside, eventLoop
<1>1. CASE ResetState
  BY <1>1 DEF ResetState, pass
<1>2. CASE DecayKeys \/ DecayWrite
  BY <1>2 DEF DecayKeys, DecayWrite
<1>3. CASE AppendEntry \/ CutHistory \/ ReplaceHistory \/ ProcessDone
  BY <1>3 DEF AppendEntry, CutHistory, ReplaceHistory, ProcessDone
<1>4. CASE AdjustWrite \/ CountEntries \/ ApplyRecalibration
  BY <1>4 DEF AdjustWrite, CountEntries, ApplyRecalibration
<1>5. ASSUME NEW nf \in NFs, DecayRead(nf) \/ AdjustRead(nf)
      PROVE  Inside
  BY <1>5 DEF DecayRead, AdjustRead
<1>6. QED
  BY <1>1, <1>2, <1>3, <1>4, <1>5 DEF InsideSteps

(* Every step is one of the steps above. *)
LEMMA StepCases ==
  ASSUME [Next]_vars
  PROVE  \/ \E nf \in NFs : AppendOutcome(nf)
         \/ TrimBuffer \/ ResetIndex \/ TakeSnapshot \/ Slice \/ DecayDone
         \/ Advance \/ InsideSteps \/ UNCHANGED vars
BY DEF Next, EventLoop, Pipeline, InsideSteps

LEMMA NextIndexInv == IndexInv /\ [Next]_vars => IndexInv'
<1> SUFFICES ASSUME IndexInv, [Next]_vars PROVE IndexInv'
  OBVIOUS
<1>1. CASE \E nf \in NFs : AppendOutcome(nf)
  BY <1>1, AppendKeeps
<1>2. CASE TrimBuffer
  BY <1>2, TrimKeeps
<1>3. CASE ResetIndex
  BY <1>3, ResetIndexKeeps
<1>4. CASE TakeSnapshot
  BY <1>4, TakeSnapshotKeeps
<1>5. CASE Slice
  BY <1>5, SliceKeeps
<1>6. CASE DecayDone
  BY <1>6, DecayDoneKeeps
<1>7. CASE Advance
  BY <1>7, AdvanceKeeps
<1>8. CASE InsideSteps
  BY <1>8, InsideStepsAreInside, InsideKeeps
<1>9. CASE UNCHANGED vars
  <2>1. Inside
    BY <1>9 DEF vars, eventLoop, pass, Inside
  <2>2. QED
    BY <2>1, InsideKeeps
<1>10. QED
  BY <1>1, <1>2, <1>3, <1>4, <1>5, <1>6, <1>7, <1>8, <1>9, StepCases

LEMMA IndexInvariant == Spec => []IndexInv
<1>1. QED
  BY InitIndexInv, NextIndexInv, PTL DEF Spec

(* For every bound of the buffer, every interleaving of reports, resets and *)
(* analysis passes: the feedback buffer is the latest outcomes in order     *)
(* (rae.py:224-227), at most one over its bound and only within the append. *)
THEOREM BufferIsLatestAlways == Spec => []BufferIsLatest
<1>1. IndexInv => BufferIsLatest
  BY DEF IndexInv
<1>2. QED
  BY <1>1, IndexInvariant, PTL

(* The feedback loop implements OutcomeLog: although the index counts from  *)
(* the front of a buffer that is cut there (frg.py:158-161), each outcome   *)
(* is ingested at most once and in order until the index is rewound.        *)
THEOREM LoopIngestsInOrderOnce == Spec => IngestsInOrderOnce
<1>1. Init => Abstract!Init
  BY DEF Init, Abstract!Init
<1>2. ASSUME IndexInv, [Next]_vars
      PROVE  [Abstract!Next]_(Abstract!vars)
  <2> USE DEF Abstract!vars
  <2>1. ASSUME NEW nf \in NFs, AppendOutcome(nf) PROVE Abstract!Next
    <3>1. Len(log) < MaxOutcomes /\ log' = Append(log, nf) /\ ingested' = ingested
      BY <2>1 DEF AppendOutcome
    <3>2. Len(log') = Len(log) + 1
      BY <1>2, <2>1, <3>1 DEF IndexInv, LoopTypes
    <3>3. QED
      BY <3>1, <3>2 DEF Abstract!Next, Abstract!Report
  <2>2. CASE TrimBuffer
    BY <2>2 DEF TrimBuffer
  <2>3. CASE ResetIndex
    BY <2>3 DEF ResetIndex, Abstract!Next, Abstract!Rewind
  <2>4. CASE TakeSnapshot \/ Slice \/ Advance
    BY <2>4 DEF TakeSnapshot, Slice, NewEntries, Advance, Measure, eventLoop
  <2>5. CASE DecayDone
    <3>1. /\ tick = "decay" /\ log' = log
          /\ ingested' = ingested \cup {batch[i] : i \in 1..Len(batch)}
      BY <2>5 DEF DecayDone, eventLoop
    <3>2. Abstract!Ingest(batch[1], batch[Len(batch)])
      BY <1>2, <3>1, BatchIsRange DEF Abstract!Ingest
    <3>3. batch[1] \in 1..Len(log) /\ batch[Len(batch)] \in 1..Len(log)
      BY <1>2, <3>1, BatchIsRange DEF Outcomes
    <3>4. QED
      BY <3>2, <3>3 DEF Abstract!Next
  <2>6. CASE InsideSteps
    BY <2>6, InsideStepsAreInside DEF Inside
  <2>7. CASE UNCHANGED vars
    BY <2>7 DEF vars, eventLoop
  <2>8. QED
    BY <1>2, <2>1, <2>2, <2>3, <2>4, <2>5, <2>6, <2>7, StepCases
<1>3. IndexInv /\ [Next]_vars => [Abstract!Next]_(Abstract!vars)
  BY <1>2
<1>4. QED
  BY <1>1, <1>3, IndexInvariant, PTL DEF Spec, IngestsInOrderOnce, Abstract!Spec
-----------------------------------------------------------------------------
(* What the recalibrator has learned from.  Outcomes n about nf: reported, *)
(* about it, and in a batch that was ingested.                             *)
Filed(nf, S) == \A n \in S : n \in Outcomes /\ log[n] = nf /\ n \in learned

RecalTypes ==
  recal \in [weights : [NFs -> SUBSET Int], history : [NFs -> Seq(Int)], counted : Nat]

(* The loop over the batch has only entries of the batch ahead of it, and   *)
(* in the middle of its body one at least.                                  *)
Looping == {"process", "cut", "replace"}

RestInv ==
  tick \in Looping =>
    /\ rest \in Seq(Int) /\ Len(rest) <= Len(batch)
    /\ \A i \in 1..Len(rest) : \E j \in 1..Len(batch) : rest[i] = batch[j]
    /\ tick # "process" => rest # <<>>

(* Once the decay is over the batch counts as learned from.                 *)
LearnedInv ==
  tick \in Looping \cup {"adjust", "set"} => \A i \in 1..Len(batch) : batch[i] \in learned

FiledInv ==
  /\ RecalTypes /\ RestInv /\ LearnedInv
  /\ graph \in [NFs -> SUBSET Int]
  /\ kept \in Seq(Int) /\ carried \in Seq(Int)
  /\ learned \subseteq Outcomes /\ passedOver \subseteq Outcomes
  /\ \A i \in 1..Len(batch) : batch[i] \in Outcomes
  /\ Filed(held.nf, held.weight)
  /\ \A nf \in NFs : Filed(nf, recal.weights[nf]) /\ Filed(nf, graph[nf])

(* The index has passed only what was learned from or too few, until the   *)
(* buffer is cut for the first time; and so it will when it moves to the   *)
(* end of the snapshot sliced, unless the pass is given up before.         *)
PassedInv ==
  Dropped = 0 =>
    /\ consumed <= Len(log)
    /\ \A n \in 1..consumed : n \in learned \cup passedOver
    /\ tick \in {"keys", "decay", "fade"} =>
         \A n \in 1..Len(snapshot) :
           n \in learned \cup passedOver \cup {batch[i] : i \in 1..Len(batch)}
    /\ tick \notin {"idle", "slice", "keys", "decay", "fade", "apply"} =>
         \A n \in 1..Len(snapshot) : n \in learned \cup passedOver

(* Entries of the batch that are in the history and not yet counted.       *)
Uncounted ==
  IF tick = "process" THEN Len(batch) - Len(rest)
  ELSE IF tick \in {"cut", "replace"} THEN Len(batch) - Len(rest) + 1
  ELSE IF tick \in {"adjust", "set"} THEN Len(batch) ELSE 0

Carried == {carried[i] : i \in 1..Len(carried)}

(* Where the evidence behind an entry of the history may be: in the        *)
(* weights, in the weight that is about to be written, or yet to come; or  *)
(* lost, with the reset that the entry was carried over.                   *)
StillToCome(nf) ==
  \/ tick \in Looping
  \/ tick \in {"adjust", "set"} /\ nf \in todo
  \/ tick = "set" /\ nf = held.nf

Backed(nf, n) ==
  \/ n \in recal.weights[nf]
  \/ StillToCome(nf) /\ n \in AboutIn(nf, batch)
  \/ n \in Carried

HeldBacked(nf, n) ==
  \/ n \in held.weight
  \/ tick = "set" /\ n \in AboutIn(nf, batch)
  \/ n \in Carried

(* A list of entries about nf, in the history or cut from it. *)
Sound(nf, lst) ==
  /\ Len(lst) <= recal.counted + Uncounted + Len(carried)
  /\ \A i \in 1..Len(lst) : Backed(nf, lst[i])

HistoryInv ==
  /\ \A nf \in NFs : Sound(nf, recal.history[nf])
  /\ tick = "replace" => Sound(log[Head(rest)], kept)
  /\ tick \in {"fade", "set"} =>
       \A nf \in NFs : nf = held.nf =>
         \A i \in 1..Len(recal.history[nf]) : HeldBacked(nf, recal.history[nf][i])

LEMMA LogGrows ==
  ASSUME IndexInv, FiledInv, [Next]_vars
  PROVE  /\ \A n \in Outcomes : n \in Outcomes' /\ log'[n] = log[n]
         /\ learned \subseteq learned' /\ passedOver \subseteq passedOver'
<1>1. log \in Seq(NFs)
  BY DEF IndexInv, LoopTypes
<1>2. ASSUME NEW nf \in NFs, AppendOutcome(nf)
      PROVE  /\ \A n \in Outcomes : n \in Outcomes' /\ log'[n] = log[n]
             /\ learned' = learned /\ passedOver' = passedOver
  BY <1>1, <1>2 DEF AppendOutcome, pass, Outcomes
<1>3. CASE log' = log /\ learned \subseteq learned' /\ passedOver \subseteq passedOver'
  BY <1>3 DEF Outcomes
<1>4. TrimBuffer \/ ResetIndex \/ TakeSnapshot \/ Slice \/ DecayDone \/ Advance =>
        log' = log /\ learned \subseteq learned' /\ passedOver \subseteq passedOver'
  BY DEF TrimBuffer, ResetIndex, TakeSnapshot, Slice, DecayDone, Advance, pass, eventLoop
<1>5. InsideSteps => log' = log /\ learned' = learned /\ passedOver' = passedOver
  BY DEF InsideSteps, ResetState, DecayKeys, DecayWrite, AppendEntry, CutHistory,
     ReplaceHistory, ProcessDone, AdjustWrite, CountEntries, ApplyRecalibration, DecayRead,
     AdjustRead, pass, eventLoop
<1>6. UNCHANGED vars => log' = log /\ learned' = learned /\ passedOver' = passedOver
  BY DEF vars, pass, eventLoop
<1>7. QED
  BY <1>2, <1>3, <1>4, <1>5, <1>6, StepCases

(* The entries that Slice takes are reported outcomes.                      *)
LEMMA SliceTakesReported ==
  ASSUME IndexInv
  PROVE  /\ Window(snapshot, consumed) \in Seq(Int)
         /\ \A i \in 1..Len(Window(snapshot, consumed)) :
              Window(snapshot, consumed)[i] \in Outcomes
<1>1. snapshot \in Seq(Int) /\ consumed \in Nat /\ Len(log) \in Nat
  BY DEF IndexInv, LoopTypes
<1>2. /\ Window(snapshot, consumed) \in Seq(Int)
      /\ Len(Window(snapshot, consumed)) =
           (IF consumed < Len(snapshot) THEN Len(snapshot) - consumed ELSE 0)
      /\ \A i \in 1..(Len(snapshot) - consumed) :
           Window(snapshot, consumed)[i] = snapshot[consumed + i]
  BY <1>1, WindowProperties
<1>3. ASSUME NEW k \in 1..Len(snapshot) PROVE snapshot[k] \in Outcomes
  <2>1. /\ snapshot[k] = snapshot[1] + k - 1 /\ snapshot[1] >= 1
        /\ snapshot[1] + Len(snapshot) - 1 <= Len(log)
    BY <1>1, <1>3 DEF IndexInv, SnapshotInv, Consecutive
  <2>2. snapshot[1] \in Int
    BY <1>1, <1>3
  <2>3. QED
    BY <1>1, <1>3, <2>1, <2>2 DEF Outcomes
<1>4. ASSUME NEW i \in 1..Len(Window(snapshot, consumed))
      PROVE  Window(snapshot, consumed)[i] \in Outcomes
  <2> DEFINE w == Window(snapshot, consumed)
  <2>1. Len(snapshot) \in Nat /\ i \in 1..Len(w)
    BY <1>1, <1>4
  <2> HIDE DEF w
  <2>2. i \in 1..(Len(snapshot) - consumed) /\ consumed + i \in 1..Len(snapshot)
    BY <1>1, <1>2, <2>1 DEF w
  <2>3. QED
    BY <1>2, <1>3, <2>2
<1>5. QED
  BY <1>2, <1>4

LEMMA InitFiled == Init => FiledInv
BY DEF Init, FiledInv, RecalTypes, RestInv, LearnedInv, Looping, Filed, Neutral, NoKey, Outcomes

(* A step that leaves alone what the invariant is about, or only reports.   *)
LEMMA FiledStays ==
  ASSUME IndexInv, FiledInv, [Next]_vars,
         UNCHANGED <<recal, graph, batch, held, kept, carried, learned, passedOver>>,
         RestInv', LearnedInv'
  PROVE  FiledInv'
<1>1. /\ RecalTypes' /\ graph' \in [NFs -> SUBSET Int]
      /\ kept' \in Seq(Int) /\ carried' \in Seq(Int)
  BY DEF FiledInv, RecalTypes
<1>2. /\ learned' \subseteq Outcomes' /\ passedOver' \subseteq Outcomes'
      /\ \A i \in 1..Len(batch') : batch'[i] \in Outcomes'
  BY LogGrows DEF FiledInv
<1>3. Filed(held.nf, held.weight)'
  BY LogGrows DEF FiledInv, Filed
<1>4. \A nf \in NFs : Filed(nf, recal.weights[nf])' /\ Filed(nf, graph[nf])'
  BY LogGrows DEF FiledInv, Filed
<1>5. QED
  BY <1>1, <1>2, <1>3, <1>4 DEF FiledInv

LEMMA SliceFiles ==
  ASSUME IndexInv, FiledInv, Slice
  PROVE  FiledInv'
<1> DEFINE new == Window(snapshot, consumed)
<1>1. /\ batch' = new
      /\ passedOver' = passedOver \cup
           (IF Len(new) < MinFeedback THEN {new[i] : i \in 1..Len(new)} ELSE {})
      /\ tick' \in {"idle", "passOver", "keys"}
      /\ UNCHANGED <<log, recal, graph, held, kept, carried, learned>>
  BY DEF Slice, NewEntries, eventLoop
<1>2. new \in Seq(Int) /\ \A i \in 1..Len(new) : new[i] \in Outcomes
  BY SliceTakesReported
<1> HIDE DEF new
<1>3. passedOver \subseteq Outcomes /\ Outcomes' = Outcomes
  BY <1>1 DEF FiledInv, Outcomes
<1>4. passedOver' \subseteq Outcomes' /\ \A i \in 1..Len(batch') : batch'[i] \in Outcomes'
  BY <1>1, <1>2, <1>3
<1>5. /\ RestInv' /\ LearnedInv' /\ RecalTypes' /\ graph' \in [NFs -> SUBSET Int]
      /\ kept' \in Seq(Int) /\ carried' \in Seq(Int) /\ learned' \subseteq Outcomes'
  BY <1>1, <1>3 DEF RestInv, LearnedInv, Looping, FiledInv, RecalTypes
<1>6. /\ Filed(held.nf, held.weight)'
      /\ \A nf \in NFs : Filed(nf, recal.weights[nf])' /\ Filed(nf, graph[nf])'
  BY <1>1, <1>3 DEF FiledInv, Filed
<1>7. QED
  BY <1>4, <1>5, <1>6 DEF FiledInv

LEMMA DecayDoneFiles ==
  ASSUME IndexInv, FiledInv, DecayDone
  PROVE  FiledInv'
<1>1. /\ tick' = "process" /\ rest' = batch
      /\ learned' = learned \cup {batch[i] : i \in 1..Len(batch)}
      /\ UNCHANGED <<log, recal, graph, held, kept, carried, batch, passedOver>>
  BY DEF DecayDone, eventLoop
<1>2. Outcomes' = Outcomes
  BY <1>1 DEF Outcomes
<1>3. learned' \subseteq Outcomes' /\ passedOver' \subseteq Outcomes'
  BY <1>1, <1>2 DEF FiledInv
<1>4. RestInv' /\ LearnedInv'
  BY <1>1 DEF RestInv, LearnedInv, IndexInv, LoopTypes
<1>5. /\ Filed(held.nf, held.weight)'
      /\ \A nf \in NFs : Filed(nf, recal.weights[nf])' /\ Filed(nf, graph[nf])'
  BY <1>1, <1>2 DEF FiledInv, Filed
<1>6. QED
  BY <1>1, <1>2, <1>3, <1>4, <1>5 DEF FiledInv, RecalTypes

LEMMA ReadFiles ==
  ASSUME IndexInv, FiledInv, NEW nf \in NFs, DecayRead(nf) \/ AdjustRead(nf)
  PROVE  FiledInv'
<1>1. /\ held' = [nf |-> nf, weight |-> recal.weights[nf]]
      /\ \/ tick' \in {"idle", "fade"}
         \/ tick = "adjust" /\ tick' = "set"
      /\ UNCHANGED <<log, recal, graph, batch, kept, carried, learned, passedOver>>
  BY DEF DecayRead, AdjustRead, eventLoop
<1>2. held'.nf = nf /\ held'.weight = recal.weights[nf]
  BY <1>1
<1>3. Filed(held.nf, held.weight)'
  <2>1. \A n \in recal.weights[nf] : n \in Outcomes /\ log[n] = nf /\ n \in learned
    BY DEF FiledInv, Filed
  <2>2. QED
    BY <1>1, <1>2, <2>1 DEF Filed, Outcomes
<1>4. \A x \in NFs : Filed(x, recal.weights[x])' /\ Filed(x, graph[x])'
  BY <1>1 DEF FiledInv, Filed, Outcomes
<1>5. RestInv' /\ LearnedInv'
  BY <1>1 DEF FiledInv, RestInv, LearnedInv, Looping
<1>6. QED
  BY <1>1, <1>3, <1>4, <1>5 DEF FiledInv, RecalTypes, Outcomes

(* A weight is written back: what was held, and what the batch says.        *)
LEMMA WriteFiles ==
  ASSUME IndexInv, FiledInv, DecayWrite \/ AdjustWrite
  PROVE  FiledInv'
<1>1. PICK more :
        /\ more = {} \/ (tick = "set" /\ more = AboutIn(held.nf, batch))
        /\ recal' = [recal EXCEPT !.weights[held.nf] = held.weight \cup more]
  <2>1. CASE DecayWrite
    <3>1. held.weight = held.weight \cup {}
      OBVIOUS
    <3>2. recal' = [recal EXCEPT !.weights[held.nf] = held.weight \cup {}]
      BY <2>1, <3>1 DEF DecayWrite
    <3>3. QED
      BY <3>2
  <2>2. CASE AdjustWrite
    BY <2>2 DEF AdjustWrite
  <2>3. QED
    BY <2>1, <2>2
<1>2. /\ tick' = "decay" \/ (tick = "set" /\ tick' = "adjust")
      /\ UNCHANGED <<log, graph, batch, held, kept, carried, learned, passedOver>>
  BY DEF DecayWrite, AdjustWrite, eventLoop
<1>3. Filed(held.nf, held.weight \cup more)
  BY <1>1 DEF FiledInv, LearnedInv, Filed, AboutIn
<1>4. held.weight \cup more \in SUBSET Int
  BY <1>3 DEF Filed, Outcomes
<1>5. /\ recal' \in [weights : [NFs -> SUBSET Int], history : [NFs -> Seq(Int)], counted : Nat]
      /\ \A nf \in NFs : recal'.weights[nf] =
           IF nf = held.nf THEN held.weight \cup more ELSE recal.weights[nf]
  BY <1>1, <1>4 DEF FiledInv, RecalTypes
<1>6. ASSUME NEW nf \in NFs PROVE Filed(nf, recal.weights[nf])'
  <2>1. CASE nf = held.nf
    BY <1>2, <1>3, <1>5, <2>1 DEF Filed, Outcomes
  <2>2. CASE nf # held.nf
    <3>1. recal'.weights[nf] = recal.weights[nf]
      BY <1>5, <2>2
    <3>2. QED
      BY <1>2, <3>1 DEF FiledInv, Filed, Outcomes
  <2>3. QED
    BY <2>1, <2>2
<1>7. Filed(held.nf, held.weight)' /\ \A nf \in NFs : Filed(nf, graph[nf])'
  BY <1>2 DEF FiledInv, Filed, Outcomes
<1>8. RestInv' /\ LearnedInv'
  BY <1>2 DEF FiledInv, RestInv, LearnedInv, Looping
<1>9. QED
  BY <1>2, <1>5, <1>6, <1>7, <1>8 DEF FiledInv, RecalTypes, Outcomes

(* An entry of the batch enters the history of the NF it is about.          *)
LEMMA EntryIsOfBatch ==
  ASSUME IndexInv, FiledInv, tick \in Looping, rest # <<>>
  PROVE  /\ Head(rest) \in Int /\ Head(rest) \in Outcomes
         /\ \E j \in 1..Len(batch) : Head(rest) = batch[j]
         /\ log[Head(rest)] \in NFs
         /\ Len(rest) \in Nat /\ Len(rest) <= Len(batch)
         /\ Tail(rest) \in Seq(Int) /\ Len(Tail(rest)) = Len(rest) - 1
         /\ \A i \in 1..Len(Tail(rest)) : \E j \in 1..Len(batch) : Tail(rest)[i] = batch[j]
<1>1. /\ rest \in Seq(Int) /\ Len(rest) <= Len(batch)
      /\ \A i \in 1..Len(rest) : \E j \in 1..Len(batch) : rest[i] = batch[j]
  BY DEF FiledInv, RestInv
<1>2. 1 \in 1..Len(rest) /\ Head(rest) = rest[1]
  BY <1>1
<1>3. \E j \in 1..Len(batch) : Head(rest) = batch[j]
  BY <1>1, <1>2
<1>4. \A j \in 1..Len(batch) : batch[j] \in Outcomes
  BY DEF FiledInv
<1>5. log \in Seq(NFs)
  BY DEF IndexInv, LoopTypes
<1>6. /\ Tail(rest) \in Seq(Int) /\ Len(Tail(rest)) = Len(rest) - 1
      /\ \A i \in 1..Len(Tail(rest)) : i + 1 \in 1..Len(rest) /\ Tail(rest)[i] = rest[i + 1]
  BY <1>1, <1>2
<1>7. \A i \in 1..Len(Tail(rest)) : \E k \in 1..Len(batch) : Tail(rest)[i] = batch[k]
  BY <1>1, <1>6
<1>8. Head(rest) \in Int /\ Head(rest) \in Outcomes /\ log[Head(rest)] \in NFs
  <2>1. Head(rest) \in Int
    BY <1>1, <1>2
  <2>2. Head(rest) \in Outcomes
    BY <1>3, <1>4
  <2>3. QED
    BY <1>5, <2>1, <2>2 DEF Outcomes
<1>9. Len(rest) \in Nat
  BY <1>1
<1>10. QED
  BY <1>1, <1>3, <1>6, <1>7, <1>8, <1>9

(* The list of the NF that the loop is at.                                  *)
LEMMA HistoryAtHand ==
  ASSUME IndexInv, FiledInv, tick \in Looping, rest # <<>>
  PROVE  /\ recal.history[log[Head(rest)]] \in Seq(Int) /\ MaxHistory \in Nat
         /\ LastOf(recal.history[log[Head(rest)]], MaxHistory) \in Seq(Int)
<1>1. recal.history[log[Head(rest)]] \in Seq(Int)
  BY EntryIsOfBatch DEF FiledInv, RecalTypes
<1>2. MaxHistory \in Nat
  BY FeedbackAssumption
<1>3. QED
  BY <1>1, <1>2, LastOfProperties

(* A list of reported outcomes is stored as the history of one NF: nothing  *)
(* but that history changes.                                                *)
LEMMA StoreFiles ==
  ASSUME IndexInv, FiledInv, NEW nf \in NFs, NEW lst \in Seq(Int),
         recal' = [recal EXCEPT !.history[nf] = lst]
  PROVE  /\ RecalTypes'
         /\ recal'.weights = recal.weights /\ recal'.counted = recal.counted
         /\ recal'.history = [recal.history EXCEPT ![nf] = lst]
BY DEF FiledInv, RecalTypes

LEMMA AppendFiles ==
  ASSUME IndexInv, FiledInv, AppendEntry
  PROVE  /\ FiledInv'
         /\ recal'.weights = recal.weights /\ recal'.counted = recal.counted
         /\ recal'.history = [recal.history EXCEPT ![log[Head(rest)]] =
                                Append(recal.history[log[Head(rest)]], Head(rest))]
<1> DEFINE longer == Append(recal.history[log[Head(rest)]], Head(rest))
<1>1. /\ tick = "process" /\ rest # <<>> /\ tick' = "cut"
      /\ recal' = [recal EXCEPT !.history[log[Head(rest)]] = longer]
      /\ UNCHANGED <<log, graph, batch, rest, held, kept, carried, learned, passedOver>>
  BY DEF AppendEntry, eventLoop
<1>2. tick \in Looping
  BY <1>1 DEF Looping
<1>3. Head(rest) \in Int /\ log[Head(rest)] \in NFs /\ longer \in Seq(Int)
  BY <1>1, <1>2, EntryIsOfBatch, HistoryAtHand
<1> HIDE DEF longer
<1>4. /\ RecalTypes' /\ recal'.weights = recal.weights /\ recal'.counted = recal.counted
      /\ recal'.history = [recal.history EXCEPT ![log[Head(rest)]] = longer]
  BY <1>1, <1>3, StoreFiles
<1>5. RestInv' /\ LearnedInv'
  BY <1>1, <1>2 DEF FiledInv, RestInv, LearnedInv, Looping
<1>6. FiledInv'
  BY <1>1, <1>4, <1>5 DEF FiledInv, Filed, Outcomes
<1>7. QED
  BY <1>4, <1>6 DEF longer

LEMMA CutFiles ==
  ASSUME IndexInv, FiledInv, CutHistory
  PROVE  FiledInv'
<1>1. /\ tick = "cut" /\ tick' \in {"process", "replace"}
      /\ rest' = (IF tick' = "process" THEN Tail(rest) ELSE rest)
      /\ kept' \in {kept, LastOf(recal.history[log[Head(rest)]], MaxHistory)}
      /\ UNCHANGED <<log, recal, graph, batch, held, carried, learned, passedOver>>
  BY DEF CutHistory, eventLoop
<1>2. tick \in Looping /\ rest # <<>>
  BY <1>1 DEF FiledInv, RestInv, Looping
<1>3. kept' \in Seq(Int)
  BY <1>1, <1>2, HistoryAtHand DEF FiledInv
<1>4. RestInv'
  <2>1. CASE tick' = "process"
    BY <1>1, <1>2, <2>1, EntryIsOfBatch DEF RestInv
  <2>2. CASE tick' = "replace"
    BY <1>1, <1>2, <2>2 DEF FiledInv, RestInv, Looping
  <2>3. QED
    BY <1>1, <2>1, <2>2
<1>5. LearnedInv'
  BY <1>1, <1>2 DEF FiledInv, LearnedInv
<1>6. QED
  BY <1>1, <1>3, <1>4, <1>5 DEF FiledInv, RecalTypes, Filed, Outcomes

LEMMA ReplaceFiles ==
  ASSUME IndexInv, FiledInv, ReplaceHistory
  PROVE  /\ FiledInv'
         /\ recal'.weights = recal.weights /\ recal'.counted = recal.counted
         /\ recal'.history = [recal.history EXCEPT ![log[Head(rest)]] = kept]
<1>1. /\ tick = "replace" /\ tick' = "process" /\ rest' = Tail(rest) /\ kept' = <<>>
      /\ recal' = [recal EXCEPT !.history[log[Head(rest)]] = kept]
      /\ UNCHANGED <<log, graph, batch, held, carried, learned, passedOver>>
  BY DEF ReplaceHistory, eventLoop
<1>2. tick \in Looping /\ rest # <<>>
  BY <1>1 DEF FiledInv, RestInv, Looping
<1>3. log[Head(rest)] \in NFs /\ kept \in Seq(Int)
  BY <1>2, EntryIsOfBatch DEF FiledInv
<1>4. /\ RecalTypes' /\ recal'.weights = recal.weights /\ recal'.counted = recal.counted
      /\ recal'.history = [recal.history EXCEPT ![log[Head(rest)]] = kept]
  BY <1>1, <1>3, StoreFiles
<1>5. RestInv' /\ LearnedInv'
  <2>1. RestInv'
    BY <1>1, <1>2, EntryIsOfBatch DEF RestInv
  <2>2. LearnedInv'
    BY <1>1, <1>2 DEF FiledInv, LearnedInv
  <2>3. QED
    BY <2>1, <2>2
<1>6. FiledInv'
  BY <1>1, <1>4, <1>5 DEF FiledInv, Filed, Outcomes
<1>7. QED
  BY <1>4, <1>6

LEMMA NextFiled == IndexInv /\ FiledInv /\ [Next]_vars => FiledInv'
<1> SUFFICES ASSUME IndexInv, FiledInv, [Next]_vars PROVE FiledInv'
  OBVIOUS
<1> DEFINE Stays == UNCHANGED <<recal, graph, batch, held, kept, carried, learned, passedOver>>
<1>1. ASSUME NEW nf \in NFs, AppendOutcome(nf) PROVE FiledInv'
  <2>1. Stays /\ RestInv' /\ LearnedInv'
    BY <1>1 DEF AppendOutcome, pass, FiledInv, RestInv, LearnedInv
  <2>2. QED
    BY <2>1, FiledStays
<1>2. CASE TrimBuffer \/ ResetIndex \/ UNCHANGED vars
  <2>1. Stays /\ RestInv' /\ LearnedInv'
    BY <1>2 DEF TrimBuffer, ResetIndex, vars, eventLoop, pass, FiledInv, RestInv, LearnedInv
  <2>2. QED
    BY <2>1, FiledStays
<1>3. CASE Slice
  BY <1>3, SliceFiles
<1>4. CASE DecayDone
  BY <1>4, DecayDoneFiles
<1>5. CASE ResetState
  <2>1. /\ recal' = Neutral /\ carried' \in {kept, <<>>}
        /\ UNCHANGED <<log, graph, batch, held, kept, learned, passedOver, tick, rest>>
    BY <1>5 DEF ResetState, pass
  <2>2. carried' \in Seq(Int)
    <3>1. kept \in Seq(Int) /\ <<>> \in Seq(Int)
      BY DEF FiledInv
    <3>2. QED
      BY <2>1, <3>1
  <2>3. /\ RecalTypes' /\ \A nf \in NFs : recal'.weights[nf] = {}
    BY <2>1 DEF RecalTypes, Neutral
  <2>4. RestInv' /\ LearnedInv'
    BY <2>1 DEF FiledInv, RestInv, LearnedInv
  <2>5. QED
    BY <2>1, <2>2, <2>3, <2>4 DEF FiledInv, Filed, Outcomes
<1>6. CASE TakeSnapshot \/ DecayKeys \/ ProcessDone \/ Advance
  <2>1. Stays
    BY <1>6 DEF TakeSnapshot, DecayKeys, ProcessDone, Advance, eventLoop
  <2>2. RestInv' /\ LearnedInv'
    BY <1>6, <2>1 DEF TakeSnapshot, DecayKeys, ProcessDone, Advance, FiledInv, RestInv,
       LearnedInv, Looping
  <2>3. QED
    BY <2>1, <2>2, FiledStays
<1>7. CASE DecayWrite \/ AdjustWrite
  BY <1>7, WriteFiles
<1>8. CASE AppendEntry \/ CutHistory \/ ReplaceHistory
  BY <1>8, AppendFiles, CutFiles, ReplaceFiles
<1>9. CASE CountEntries
  <2>1. /\ recal' = [recal EXCEPT !.counted = @ + Len(batch)] /\ tick' = "advance"
        /\ UNCHANGED <<log, graph, batch, held, kept, carried, learned, passedOver>>
    BY <1>9 DEF CountEntries, eventLoop
  <2>2. Len(batch) \in Nat
    BY DEF IndexInv, LoopTypes
  <2>3. RecalTypes' /\ recal'.weights = recal.weights
    <3>1. recal \in [weights : [NFs -> SUBSET Int], history : [NFs -> Seq(Int)], counted : Nat]
      BY DEF FiledInv, RecalTypes
    <3>2. recal.counted + Len(batch) \in Nat
      BY <2>2, <3>1
    <3> DEFINE total == recal.counted + Len(batch)
    <3>3. recal' = [recal EXCEPT !.counted = total]
      BY <2>1
    <3> HIDE DEF total
    <3>4. QED
      BY <3>1, <3>2, <3>3 DEF RecalTypes, total
  <2>4. QED
    BY <2>1, <2>3 DEF FiledInv, RestInv, LearnedInv, Looping, Filed, Outcomes
<1>10. CASE ApplyRecalibration
  <2>1. /\ graph' = [nf \in NFs |-> graph[nf] \cup recal.weights[nf]] /\ tick' = "idle"
        /\ UNCHANGED <<log, recal, batch, held, kept, carried, learned, passedOver>>
    BY <1>10 DEF ApplyRecalibration, eventLoop
  <2>2. graph' \in [NFs -> SUBSET Int]
    BY <2>1 DEF FiledInv, RecalTypes
  <2>3. \A nf \in NFs : Filed(nf, graph[nf])'
    BY <2>1 DEF FiledInv, Filed, Outcomes
  <2>4. QED
    BY <2>1, <2>2, <2>3 DEF FiledInv, RecalTypes, RestInv, LearnedInv, Looping, Filed, Outcomes
<1>11. ASSUME NEW nf \in NFs, DecayRead(nf) \/ AdjustRead(nf) PROVE FiledInv'
  BY <1>11, ReadFiles
<1>12. QED
  BY <1>1, <1>2, <1>3, <1>4, <1>5, <1>6, <1>7, <1>8, <1>9, <1>10, <1>11,
     StepCases DEF InsideSteps

LEMMA FiledInvariant == Spec => [](IndexInv /\ FiledInv)
<1>1. Init => IndexInv /\ FiledInv
  BY InitIndexInv, InitFiled
<1>2. IndexInv /\ FiledInv /\ [Next]_vars => (IndexInv /\ FiledInv)'
  BY NextIndexInv, NextFiled
<1>3. QED
  BY <1>1, <1>2, PTL DEF Spec

(* For any interleaving of passes, reports and resets: no weight and no     *)
(* edge of the graph carries evidence about another NF, although a weight   *)
(* read before a reset is written back after it.                            *)
THEOREM EvidenceStaysAttributed == Spec => []EvidenceAttribution
<1>1. IndexInv /\ FiledInv => EvidenceAttribution
  BY DEF FiledInv, Filed, EvidenceAttribution
<1>2. QED
  BY <1>1, FiledInvariant, PTL

-----------------------------------------------------------------------------
LEMMA InitHistory == Init => HistoryInv
BY DEF Init, HistoryInv, Sound, Neutral, Uncounted

(* The numbers in what the invariant says of lengths.                       *)
LEMMA HistoryTypes ==
  ASSUME IndexInv, FiledInv
  PROVE  /\ recal.counted \in Nat /\ Len(carried) \in Nat /\ Len(batch) \in Nat
         /\ Uncounted \in Nat
         /\ recal.history \in [NFs -> Seq(Int)] /\ recal.weights \in [NFs -> SUBSET Int]
         /\ \A nf \in NFs : \A i \in 1..Len(recal.history[nf]) : recal.history[nf][i] \in Int
<1>1. recal.counted \in Nat /\ recal.history \in [NFs -> Seq(Int)]
      /\ recal.weights \in [NFs -> SUBSET Int]
  BY DEF FiledInv, RecalTypes
<1>2. Len(carried) \in Nat /\ Len(batch) \in Nat
  BY IndexTypes DEF FiledInv
<1>3. Uncounted \in Nat
  <2>1. CASE tick \in Looping
    <3>1. Len(rest) \in Nat /\ Len(rest) <= Len(batch)
      BY <2>1 DEF FiledInv, RestInv
    <3>2. QED
      BY <1>2, <3>1 DEF Uncounted
  <2>2. CASE tick \notin Looping
    BY <1>2, <2>2 DEF Uncounted, Looping
  <2>3. QED
    BY <2>1, <2>2
<1>4. QED
  BY <1>1, <1>2, <1>3

(* A step of the pass that leaves the histories alone, and loses only       *)
(* backing that it has nothing more to wait for.                            *)
LEMMA HistoryKept ==
  ASSUME IndexInv, FiledInv, HistoryInv, carried' = carried,
         recal'.history = recal.history,
         recal'.counted + Uncounted' = recal.counted + Uncounted,
         \A nf \in NFs, n \in Int : Backed(nf, n) => Backed(nf, n)'
  PROVE  \A nf \in NFs : Sound(nf, recal.history[nf])'
BY HistoryTypes DEF HistoryInv, Sound

(* A step that leaves histories, weights and batch alone, and where the     *)
(* pass does not move.                                                      *)
LEMMA HistoryStays ==
  ASSUME IndexInv, FiledInv, HistoryInv, [Next]_vars,
         UNCHANGED <<recal, batch, rest, todo, held, kept, carried, tick>>
  PROVE  HistoryInv'
<1>1. \A nf \in NFs, n \in Int : n \in AboutIn(nf, batch) => n \in AboutIn(nf, batch)'
  BY LogGrows DEF FiledInv, AboutIn
<1>2. Uncounted' = Uncounted
  BY DEF Uncounted
<1>3. \A nf \in NFs, n \in Int :
        /\ Backed(nf, n) => Backed(nf, n)'
        /\ HeldBacked(nf, n) => HeldBacked(nf, n)'
  BY <1>1 DEF Backed, HeldBacked, StillToCome, Carried
<1>4. \A nf \in NFs : Sound(nf, recal.history[nf])'
  BY <1>2, <1>3, HistoryKept
<1>5. tick' = "replace" => Sound(log[Head(rest)], kept)'
  <2> SUFFICES ASSUME tick = "replace" PROVE Sound(log[Head(rest)], kept)'
    OBVIOUS
  <2>1. log'[Head(rest)] = log[Head(rest)] /\ log[Head(rest)] \in NFs
    <3>1. tick \in Looping /\ rest # <<>>
      BY DEF FiledInv, RestInv, Looping
    <3>2. QED
      BY <3>1, EntryIsOfBatch, LogGrows
  <2>2. kept \in Seq(Int) /\ \A i \in 1..Len(kept) : kept[i] \in Int
    BY DEF FiledInv
  <2>3. QED
    BY <1>2, <1>3, <2>1, <2>2 DEF HistoryInv, Sound
<1>6. QED
  BY <1>3, <1>4, <1>5, HistoryTypes DEF HistoryInv

(* Outside the loops over batch and weights every entry is in the weights.  *)
LEMMA HistoryRests ==
  ASSUME IndexInv, FiledInv, HistoryInv, UNCHANGED <<recal, carried>>,
         tick \notin Looping \cup {"adjust", "set"},
         tick' \notin Looping \cup {"adjust", "set", "fade"}
  PROVE  HistoryInv'
<1>1. Uncounted = 0 /\ Uncounted' = 0
  BY DEF Uncounted, Looping
<1>2. \A nf \in NFs, n \in Int : Backed(nf, n) => Backed(nf, n)'
  BY DEF Backed, StillToCome, Carried
<1>3. \A nf \in NFs : Sound(nf, recal.history[nf])'
  BY <1>1, <1>2, HistoryKept
<1>4. QED
  BY <1>3 DEF HistoryInv, Looping

(* The histories are empty; the list at hand is what was carried over.      *)
LEMMA ResetHistory ==
  ASSUME IndexInv, FiledInv, FiledInv', IndexInv', HistoryInv, ResetState
  PROVE  HistoryInv'
<1>1. /\ recal' = Neutral /\ UNCHANGED <<batch, rest, tick, log, kept>>
      /\ carried' = IF tick = "replace" THEN kept ELSE <<>>
  BY DEF ResetState, pass
<1>2. \A nf \in NFs : recal'.history[nf] = <<>>
  BY <1>1 DEF Neutral
<1>3. Uncounted' \in Nat /\ recal'.counted \in Nat /\ Len(carried') \in Nat
  <2>1. (/\ recal.counted \in Nat /\ Len(carried) \in Nat /\ Uncounted \in Nat)'
    BY HistoryTypes, PTL
  <2>2. QED
    BY <2>1
<1>4. \A nf \in NFs : Sound(nf, recal.history[nf])'
  BY <1>2, <1>3 DEF Sound
<1>5. ASSUME tick = "replace" PROVE Sound(log[Head(rest)], kept)'
  <2>1. carried' = kept /\ kept' = kept
    BY <1>1, <1>5
  <2>2. \A i \in 1..Len(kept') : kept'[i] \in Carried'
    BY <2>1 DEF Carried
  <2>3. Len(kept') <= recal'.counted + Uncounted' + Len(carried')
    BY <1>3, <2>1
  <2>4. QED
    BY <2>2, <2>3 DEF Sound, Backed
<1>6. QED
  BY <1>1, <1>2, <1>4, <1>5 DEF HistoryInv

(* Before the batch is processed all entries are in the weights, and so in  *)
(* each weight that decay reads; it writes back what it read.               *)
LEMMA DecayReadHistory ==
  ASSUME IndexInv, FiledInv, HistoryInv, NEW nf \in NFs, DecayRead(nf)
  PROVE  HistoryInv'
<1>1. /\ tick = "decay" /\ tick' \in {"idle", "fade"}
      /\ held' = [nf |-> nf, weight |-> recal.weights[nf]] /\ recal' = recal
      /\ carried' = carried
  BY DEF DecayRead, eventLoop
<1>2. Uncounted = 0 /\ Uncounted' = 0
  BY <1>1 DEF Uncounted
<1>3. \A x \in NFs, n \in Int : Backed(x, n) => n \in recal.weights[x] \cup Carried
  BY <1>1 DEF Backed, StillToCome, Looping
<1>4. \A x \in NFs, n \in Int : Backed(x, n) => Backed(x, n)'
  BY <1>1, <1>3 DEF Backed, Carried
<1>5. \A x \in NFs : Sound(x, recal.history[x])'
  BY <1>1, <1>2, <1>4, HistoryKept
<1>6. held'.nf = nf /\ held'.weight = recal.weights[nf]
  BY <1>1
<1>7. \A n \in Int : Backed(nf, n) => HeldBacked(nf, n)'
  BY <1>1, <1>3, <1>6 DEF HeldBacked, Carried
<1>8. QED
  BY <1>1, <1>5, <1>6, <1>7, HistoryTypes DEF HistoryInv, Sound

LEMMA DecayWriteHistory ==
  ASSUME IndexInv, FiledInv, HistoryInv, DecayWrite
  PROVE  HistoryInv'
<1>1. /\ tick = "fade" /\ tick' = "decay" /\ carried' = carried
      /\ recal' = [recal EXCEPT !.weights[held.nf] = held.weight]
  BY DEF DecayWrite, eventLoop
<1>2. /\ recal'.history = recal.history /\ recal'.counted = recal.counted
      /\ \A x \in NFs : recal'.weights[x] = IF x = held.nf THEN held.weight ELSE recal.weights[x]
  BY <1>1 DEF FiledInv, RecalTypes
<1>3. Uncounted = 0 /\ Uncounted' = 0
  BY <1>1 DEF Uncounted
<1>4. \A x \in NFs : \A i \in 1..Len(recal.history[x]) :
        /\ recal.history[x][i] \in recal.weights[x] \cup Carried
        /\ x = held.nf => recal.history[x][i] \in held.weight \cup Carried
  BY <1>1 DEF HistoryInv, Sound, Backed, StillToCome, HeldBacked, Looping
<1>5. \A x \in NFs : \A i \in 1..Len(recal'.history[x]) : Backed(x, recal.history[x][i])'
  BY <1>1, <1>2, <1>4 DEF Backed, Carried
<1>6. \A x \in NFs : Sound(x, recal.history[x])'
  BY <1>1, <1>2, <1>3, <1>5 DEF HistoryInv, Sound
<1>7. QED
  BY <1>1, <1>6 DEF HistoryInv

LEMMA DecayDoneHistory ==
  ASSUME IndexInv, FiledInv, HistoryInv, DecayDone
  PROVE  HistoryInv'
<1>1. /\ tick = "decay" /\ tick' = "process" /\ rest' = batch
      /\ UNCHANGED <<recal, batch, carried>>
  BY DEF DecayDone, eventLoop
<1>2. Uncounted = 0 /\ Uncounted' = 0
  BY <1>1, HistoryTypes DEF Uncounted
<1>3. \A x \in NFs, n \in Int : Backed(x, n) => Backed(x, n)'
  BY <1>1 DEF Backed, StillToCome, Looping, Carried
<1>4. \A x \in NFs : Sound(x, recal.history[x])'
  BY <1>1, <1>2, <1>3, HistoryKept
<1>5. QED
  BY <1>1, <1>4 DEF HistoryInv

(* The loop over the batch waits for the weights of its entries; no step of *)
(* it moves a weight.                                                       *)
LEMMA LoopBacks ==
  ASSUME IndexInv, FiledInv, tick \in Looping, tick' \in Looping,
         recal'.weights = recal.weights, UNCHANGED <<log, batch, carried>>
  PROVE  \A x \in NFs, n \in Int : Backed(x, n) => Backed(x, n)'
BY DEF Backed, StillToCome, AboutIn, Carried

(* An entry goes into the history of its NF; the batch has it still.        *)
LEMMA AppendHistory ==
  ASSUME IndexInv, FiledInv, HistoryInv, AppendEntry
  PROVE  HistoryInv'
<1> DEFINE e == Head(rest)
           h == recal.history[log[e]]
           longer == Append(h, e)
<1>1. /\ tick = "process" /\ tick' = "cut" /\ rest # <<>>
      /\ UNCHANGED <<log, batch, carried, rest>>
  BY DEF AppendEntry, eventLoop
<1>2. /\ e \in Int /\ log[e] \in NFs /\ \E j \in 1..Len(batch) : e = batch[j]
      /\ Len(rest) \in Nat
  BY <1>1, EntryIsOfBatch DEF Looping
<1>3. /\ recal'.weights = recal.weights /\ recal'.counted = recal.counted
      /\ recal'.history = [recal.history EXCEPT ![log[e]] = longer]
  BY AppendFiles
<1>4. h \in Seq(Int)
  BY <1>1, HistoryAtHand DEF Looping
<1>5. /\ longer \in Seq(Int) /\ Len(longer) = Len(h) + 1 /\ Len(h) \in Nat
      /\ \A i \in 1..Len(longer) : longer[i] = IF i <= Len(h) THEN h[i] ELSE e
  BY <1>2, <1>4, AppendProperties, LenProperties
<1>6. Uncounted' = Uncounted + 1
  BY <1>1, <1>2, HistoryTypes DEF Uncounted
<1>7. \A x \in NFs, n \in Int : Backed(x, n) => Backed(x, n)'
  BY <1>1, <1>3, LoopBacks DEF Looping
<1>8. \A x \in NFs, n \in Int : x = log[e] /\ n = e => Backed(x, n)'
  BY <1>1, <1>2 DEF Backed, StillToCome, AboutIn, Looping
<1>11. \A x \in NFs : \A i \in 1..Len(recal'.history[x]) : recal'.history[x][i] \in Int
  BY AppendFiles DEF FiledInv, RecalTypes
<1> HIDE DEF longer, e, h
<1>9. ASSUME NEW x \in NFs PROVE Sound(x, recal.history[x])'
  <2>1. /\ Len(recal.history[x]) <= recal.counted + Uncounted + Len(carried)
        /\ \A i \in 1..Len(recal.history[x]), n \in Int :
             n = recal.history[x][i] => Backed(x, n)'
    BY <1>7 DEF HistoryInv, Sound
  <2>2. /\ recal.counted \in Nat /\ Uncounted \in Nat /\ Len(carried) \in Nat
        /\ Len(recal.history[x]) \in Nat /\ recal.history \in [NFs -> Seq(Int)]
    BY HistoryTypes
  <2>3. CASE x # log[e]
    <3>1. recal'.history[x] = recal.history[x]
      BY <1>3, <2>2, <2>3
    <3>2. QED
      BY <1>1, <1>3, <1>6, <1>11, <2>1, <2>2, <3>1 DEF Sound
  <2>4. CASE x = log[e]
    <3>1. recal'.history[x] = longer /\ recal.history[x] = h
      BY <1>3, <2>2, <2>4 DEF h
    <3>2. \A i \in 1..Len(longer), n \in Int : n = longer[i] => Backed(x, n)'
      BY <1>5, <1>8, <2>1, <2>4, <3>1
    <3>3. Len(longer) <= recal'.counted + Uncounted' + Len(carried')
      BY <1>1, <1>3, <1>5, <1>6, <2>1, <2>2, <3>1
    <3>4. \A i \in 1..Len(recal'.history[x]) : Backed(x, recal.history[x][i])'
      BY <1>11, <3>1, <3>2
    <3>5. QED
      BY <3>1, <3>3, <3>4 DEF Sound
  <2>5. QED
    BY <2>3, <2>4
<1>10. QED
  BY <1>1, <1>9 DEF HistoryInv

(* What is cut from a history is not longer and has nothing else in it.     *)
LEMMA CutIsSound ==
  ASSUME IndexInv, FiledInv, NEW nf \in NFs, NEW lst \in Seq(Int), Sound(nf, lst)
  PROVE  Sound(nf, LastOf(lst, MaxHistory))
<1> DEFINE end == LastOf(lst, MaxHistory)
<1>1. MaxHistory \in Nat /\ Len(lst) \in Nat
  BY FeedbackAssumption
<1>2. /\ Len(end) = (IF Len(lst) > MaxHistory THEN MaxHistory ELSE Len(lst))
      /\ \A i \in 1..Len(end) : end[i] = lst[Len(lst) - Len(end) + i]
  BY <1>1, LastOfProperties
<1> HIDE DEF end
<1>3. Len(end) \in Nat /\ Len(end) <= Len(lst)
  BY <1>1, <1>2
<1>4. \A i \in 1..Len(end) : Len(lst) - Len(end) + i \in 1..Len(lst)
  BY <1>1, <1>3
<1>5. \A i \in 1..Len(end) : Backed(nf, end[i])
  BY <1>2, <1>4 DEF Sound
<1>6. Len(end) <= recal.counted + Uncounted + Len(carried)
  BY <1>1, <1>3, HistoryTypes DEF Sound
<1>7. QED
  BY <1>5, <1>6 DEF Sound, end

LEMMA CutsHistory ==
  ASSUME IndexInv, FiledInv, HistoryInv, CutHistory
  PROVE  HistoryInv'
<1> DEFINE lst == recal.history[log[Head(rest)]]
<1>1. /\ tick = "cut"
      /\ \/ tick' = "replace" /\ rest' = rest /\ kept' = LastOf(lst, MaxHistory)
         \/ tick' = "process" /\ rest' = Tail(rest)
      /\ UNCHANGED <<log, batch, carried, recal>>
  BY DEF CutHistory, eventLoop
<1>2. tick \in Looping /\ tick' \in Looping /\ rest # <<>>
  BY <1>1 DEF FiledInv, RestInv, Looping
<1>3. log[Head(rest)] \in NFs /\ Len(rest) \in Nat /\ Len(Tail(rest)) = Len(rest) - 1
  BY <1>2, EntryIsOfBatch
<1>4. Uncounted' = Uncounted
  <2>1. Uncounted = Len(batch) - Len(rest) + 1
    BY <1>1 DEF Uncounted
  <2>2. CASE tick' = "replace"
    BY <1>1, <2>1, <2>2 DEF Uncounted
  <2>3. CASE tick' = "process"
    <3>1. Uncounted' = Len(batch) - Len(Tail(rest))
      BY <1>1, <2>3 DEF Uncounted
    <3> DEFINE all == Len(batch)
               left == Len(rest)
               less == Len(Tail(rest))
    <3>2. all \in Int /\ left \in Int /\ less = left - 1
      BY <1>3, HistoryTypes
    <3>3. Uncounted = all - left + 1 /\ Uncounted' = all - less
      BY <2>1, <3>1
    <3> HIDE DEF all, left, less
    <3>4. QED
      BY <3>2, <3>3
  <2>4. QED
    BY <1>1, <2>2, <2>3
<1>5. \A x \in NFs, n \in Int : Backed(x, n) => Backed(x, n)'
  BY <1>1, <1>2, LoopBacks
<1>6. \A x \in NFs : Sound(x, recal.history[x])'
  BY <1>1, <1>4, <1>5, HistoryKept
<1>7. ASSUME tick' = "replace" PROVE Sound(log[Head(rest)], kept)'
  <2>1. lst \in Seq(Int) /\ LastOf(lst, MaxHistory) \in Seq(Int)
    BY <1>2, HistoryAtHand
  <2>2. Sound(log[Head(rest)], LastOf(lst, MaxHistory))
    BY <1>3, <2>1, CutIsSound DEF HistoryInv
  <2>3. /\ kept' = LastOf(lst, MaxHistory) /\ log'[Head(rest')] = log[Head(rest)]
        /\ \A i \in 1..Len(kept') : kept'[i] \in Int
    BY <1>1, <1>7, <2>1
  <2> HIDE DEF lst
  <2>4. QED
    BY <1>1, <1>3, <1>4, <1>5, <2>2, <2>3 DEF Sound
<1>8. QED
  BY <1>1, <1>6, <1>7 DEF HistoryInv

LEMMA ReplacesHistory ==
  ASSUME IndexInv, FiledInv, HistoryInv, ReplaceHistory
  PROVE  HistoryInv'
<1>1. /\ tick = "replace" /\ tick' = "process" /\ rest' = Tail(rest)
      /\ UNCHANGED <<log, batch, carried>>
  BY DEF ReplaceHistory, eventLoop
<1>2. tick \in Looping /\ tick' \in Looping /\ rest # <<>>
  BY <1>1 DEF FiledInv, RestInv, Looping
<1>3. log[Head(rest)] \in NFs /\ Len(rest) \in Nat /\ Len(Tail(rest)) = Len(rest) - 1
  BY <1>2, EntryIsOfBatch
<1>4. /\ recal'.weights = recal.weights /\ recal'.counted = recal.counted
      /\ recal'.history = [recal.history EXCEPT ![log[Head(rest)]] = kept]
  BY ReplaceFiles
<1>5. Uncounted' = Uncounted
  <2>1. Uncounted = Len(batch) - Len(rest) + 1 /\ Uncounted' = Len(batch) - Len(Tail(rest))
    BY <1>1 DEF Uncounted
  <2> DEFINE all == Len(batch)
             left == Len(rest)
             less == Len(Tail(rest))
  <2>2. all \in Int /\ left \in Int /\ less = left - 1
    BY <1>3, HistoryTypes
  <2>3. Uncounted = all - left + 1 /\ Uncounted' = all - less
    BY <2>1
  <2> HIDE DEF all, left, less
  <2>4. QED
    BY <2>2, <2>3
<1>6. \A x \in NFs, n \in Int : Backed(x, n) => Backed(x, n)'
  BY <1>1, <1>2, <1>4, LoopBacks
<1>7. ASSUME NEW x \in NFs PROVE Sound(x, recal.history[x])'
  <2>1. \/ recal'.history[x] = kept /\ Sound(x, kept)
        \/ recal'.history[x] = recal.history[x] /\ Sound(x, recal.history[x])
    <3>1. recal'.history[x] = IF x = log[Head(rest)] THEN kept ELSE recal.history[x]
      BY <1>4, HistoryTypes
    <3>2. QED
      BY <1>1, <3>1 DEF HistoryInv
  <2>2. /\ \A i \in 1..Len(kept) : kept[i] \in Int
        /\ \A i \in 1..Len(recal.history[x]) : recal.history[x][i] \in Int
    BY HistoryTypes DEF FiledInv
  <2>3. CASE recal'.history[x] = kept /\ Sound(x, kept)
    BY <1>1, <1>4, <1>5, <1>6, <2>2, <2>3 DEF Sound
  <2>4. CASE recal'.history[x] = recal.history[x] /\ Sound(x, recal.history[x])
    BY <1>1, <1>4, <1>5, <1>6, <2>2, <2>4 DEF Sound
  <2>5. QED
    BY <2>1, <2>3, <2>4
<1>8. QED
  BY <1>1, <1>7 DEF HistoryInv

LEMMA ProcessDoneHistory ==
  ASSUME IndexInv, FiledInv, HistoryInv, ProcessDone
  PROVE  HistoryInv'
<1>1. /\ tick = "process" /\ tick' = "adjust" /\ rest = <<>>
      /\ todo' = {log[batch[i]] : i \in 1..Len(batch)}
      /\ UNCHANGED <<log, recal, batch, carried>>
  BY DEF ProcessDone, eventLoop
<1>2. Uncounted' = Uncounted
  BY <1>1, HistoryTypes DEF Uncounted
<1>3. \A x \in NFs, n \in Int : Backed(x, n) => Backed(x, n)'
  BY <1>1 DEF Backed, StillToCome, AboutIn, Carried
<1>4. \A x \in NFs : Sound(x, recal.history[x])'
  BY <1>1, <1>2, <1>3, HistoryKept
<1>5. QED
  BY <1>1, <1>4 DEF HistoryInv

LEMMA AdjustReadHistory ==
  ASSUME IndexInv, FiledInv, HistoryInv, NEW nf \in NFs, AdjustRead(nf)
  PROVE  HistoryInv'
<1>1. /\ tick = "adjust" /\ tick' = "set" /\ todo' = todo \ {nf}
      /\ held' = [nf |-> nf, weight |-> recal.weights[nf]]
      /\ UNCHANGED <<log, recal, batch, carried>>
  BY DEF AdjustRead, eventLoop
<1>2. held'.nf = nf /\ held'.weight = recal.weights[nf]
  BY <1>1
<1>3. Uncounted' = Uncounted
  BY <1>1 DEF Uncounted
<1>4. Carried' = Carried /\ \A x \in NFs : AboutIn(x, batch)' = AboutIn(x, batch)
  BY <1>1 DEF AboutIn, Carried
<1>5. \A x \in NFs, n \in Int : /\ Backed(x, n) => Backed(x, n)'
                                /\ x = nf /\ Backed(x, n) => HeldBacked(x, n)'
  BY <1>1, <1>2, <1>4 DEF Backed, StillToCome, HeldBacked, Looping
<1>6. \A x \in NFs : Sound(x, recal.history[x])'
  BY <1>1, <1>3, <1>5, HistoryKept
<1>7. QED
  BY <1>1, <1>2, <1>5, <1>6, HistoryTypes DEF HistoryInv, Sound

LEMMA AdjustWriteHistory ==
  ASSUME IndexInv, FiledInv, HistoryInv, AdjustWrite
  PROVE  HistoryInv'
<1>1. /\ tick = "set" /\ tick' = "adjust"
      /\ recal' = [recal EXCEPT !.weights[held.nf] = held.weight \cup AboutIn(held.nf, batch)]
      /\ UNCHANGED <<log, batch, todo, held, carried>>
  BY DEF AdjustWrite, eventLoop
<1>2. /\ recal'.history = recal.history /\ recal'.counted = recal.counted
      /\ \A x \in NFs : recal'.weights[x] =
           IF x = held.nf THEN held.weight \cup AboutIn(held.nf, batch) ELSE recal.weights[x]
  BY <1>1 DEF FiledInv, RecalTypes
<1>3. Uncounted' = Uncounted
  BY <1>1 DEF Uncounted
<1>4. Carried' = Carried /\ \A x \in NFs : AboutIn(x, batch)' = AboutIn(x, batch)
  BY <1>1 DEF AboutIn, Carried
<1>5. \A x \in NFs, n \in Int :
        /\ x # held.nf /\ Backed(x, n) => Backed(x, n)'
        /\ x = held.nf /\ HeldBacked(x, n) => Backed(x, n)'
  BY <1>1, <1>2, <1>4 DEF Backed, StillToCome, HeldBacked, Looping
<1>6. \A x \in NFs : \A i \in 1..Len(recal.history[x]) : Backed(x, recal.history[x][i])'
  <2>1. \A x \in NFs : \A i \in 1..Len(recal.history[x]), n \in Int :
          n = recal.history[x][i] => Backed(x, n)'
    BY <1>1, <1>5 DEF HistoryInv, Sound
  <2>2. QED
    BY <1>2, <2>1, HistoryTypes
<1>7. \A x \in NFs : Sound(x, recal.history[x])'
  BY <1>1, <1>2, <1>3, <1>6 DEF HistoryInv, Sound
<1>8. QED
  BY <1>1, <1>7 DEF HistoryInv

LEMMA CountHistory ==
  ASSUME IndexInv, FiledInv, HistoryInv, CountEntries
  PROVE  HistoryInv'
<1> DEFINE total == recal.counted + Len(batch)
<1>1. /\ tick = "adjust" /\ tick' = "advance" /\ todo = {}
      /\ recal' = [recal EXCEPT !.counted = total]
      /\ carried' = carried
  BY DEF CountEntries, eventLoop
<1>2. total \in Nat
  BY HistoryTypes
<1> HIDE DEF total
<1>3. recal'.history = recal.history /\ recal'.weights = recal.weights /\ recal'.counted = total
  BY <1>1, <1>2 DEF FiledInv, RecalTypes
<1>4. recal.counted + Uncounted = total /\ recal'.counted + Uncounted' = total
  BY <1>1, <1>2, <1>3 DEF Uncounted, total
<1>5. \A x \in NFs, n \in Int : Backed(x, n) => Backed(x, n)'
  BY <1>1, <1>3 DEF Backed, StillToCome, Looping, Carried
<1>6. \A x \in NFs : Sound(x, recal.history[x])'
  BY <1>1, <1>3, <1>4, <1>5, HistoryKept
<1>7. QED
  BY <1>1, <1>6 DEF HistoryInv

LEMMA NextHistory ==
  IndexInv /\ FiledInv /\ HistoryInv /\ [Next]_vars => HistoryInv'
<1> SUFFICES ASSUME IndexInv, FiledInv, HistoryInv, [Next]_vars PROVE HistoryInv'
  OBVIOUS
<1>1. ASSUME NEW nf \in NFs, AppendOutcome(nf) PROVE HistoryInv'
  BY <1>1, HistoryStays DEF AppendOutcome, pass
<1>2. CASE TrimBuffer \/ ResetIndex \/ UNCHANGED vars
  BY <1>2, HistoryStays DEF TrimBuffer, ResetIndex, pass, vars, eventLoop
<1>3. CASE TakeSnapshot \/ Slice \/ DecayKeys \/ Advance \/ ApplyRecalibration
  <2>1. /\ recal' = recal /\ carried' = carried /\ tick \notin Looping \cup {"adjust", "set"}
        /\ tick' \notin Looping \cup {"adjust", "set", "fade"}
    BY <1>3 DEF TakeSnapshot, Slice, DecayKeys, Advance, ApplyRecalibration, Looping, eventLoop
  <2>2. QED
    BY <2>1, HistoryRests
<1>4. CASE ResetState
  BY <1>4, NextIndexInv, NextFiled, ResetHistory
<1>5. ASSUME NEW nf \in NFs, DecayRead(nf) \/ AdjustRead(nf) PROVE HistoryInv'
  BY <1>5, DecayReadHistory, AdjustReadHistory
<1>6. CASE DecayWrite
  BY <1>6, DecayWriteHistory
<1>7. CASE DecayDone
  BY <1>7, DecayDoneHistory
<1>8. CASE AppendEntry \/ CutHistory \/ ReplaceHistory
  BY <1>8, AppendHistory, CutsHistory, ReplacesHistory
<1>9. CASE ProcessDone
  BY <1>9, ProcessDoneHistory
<1>10. CASE AdjustWrite
  BY <1>10, AdjustWriteHistory
<1>11. CASE CountEntries
  BY <1>11, CountHistory
<1>12. QED
  BY <1>1, <1>2, <1>3, <1>4, <1>5, <1>6, <1>7, <1>8, <1>9, <1>10, <1>11, StepCases
  DEF InsideSteps

(* For any limits and any interleaving, resets in the middle of a           *)
(* recalibration included: between two passes an entry of the history is in *)
(* the weights of its network function, and the entries are counted, but    *)
(* for the one list that the last reset found between the two halves of a   *)
(* trim (recalibrator.py:161-162).                                          *)
THEOREM HistoryAlwaysInWeights == Spec => []HistoryIsInWeights
<1>1. Init => IndexInv /\ FiledInv /\ HistoryInv
  BY InitIndexInv, InitFiled, InitHistory
<1>2. IndexInv /\ FiledInv /\ HistoryInv /\ [Next]_vars
        => (IndexInv /\ FiledInv /\ HistoryInv)'
  BY NextIndexInv, NextFiled, NextHistory
<1>3. ASSUME IndexInv, FiledInv, HistoryInv PROVE HistoryIsInWeights
  <2> SUFFICES ASSUME tick = "idle", NEW nf \in NFs
               PROVE  /\ Len(recal.history[nf]) <= recal.counted + Len(carried)
                      /\ \A i \in 1..Len(recal.history[nf]) :
                           \/ recal.history[nf][i] \in recal.weights[nf]
                           \/ \E j \in 1..Len(carried) : recal.history[nf][i] = carried[j]
    BY DEF HistoryIsInWeights
  <2>1. Uncounted = 0
    BY DEF Uncounted
  <2>2. \A n \in Int : Backed(nf, n) => n \in recal.weights[nf] \cup Carried
    BY DEF Backed, StillToCome, Looping
  <2>3. Sound(nf, recal.history[nf])
    BY <1>3 DEF HistoryInv
  <2>4. Len(recal.history[nf]) <= recal.counted + Len(carried)
    BY <1>3, <2>1, <2>3, HistoryTypes DEF Sound
  <2>5. \A i \in 1..Len(recal.history[nf]) : recal.history[nf][i] \in recal.weights[nf] \cup Carried
    BY <1>3, <2>2, <2>3, HistoryTypes DEF Sound
  <2>6. QED
    BY <2>4, <2>5 DEF Carried
<1>4. QED
  BY <1>1, <1>2, <1>3, PTL DEF Spec
-----------------------------------------------------------------------------
(* Until the buffer is cut for the first time, outcome n is at position n of *)
(* a snapshot.                                                              *)
LEMMA NothingCutYet ==
  ASSUME IndexInv, Dropped = 0
  PROVE  /\ \A n \in 1..Len(snapshot) : snapshot[n] = n
         /\ Len(snapshot) <= Len(log)
<1>1. Len(snapshot) \in Nat /\ Len(log) \in Nat
  BY IndexTypes
<1>2. CASE snapshot = <<>>
  BY <1>1, <1>2
<1>3. CASE snapshot # <<>>
  <2>1. /\ snapshot[1] >= 1 /\ snapshot[1] <= 1 /\ snapshot[1] \in Int
        /\ snapshot[1] + Len(snapshot) - 1 <= Len(log)
    BY <1>1, <1>3 DEF IndexInv, SnapshotInv, LoopTypes
  <2>2. \A n \in 1..Len(snapshot) : snapshot[n] = snapshot[1] + n - 1
    BY DEF IndexInv, SnapshotInv, Consecutive
  <2>3. QED
    BY <1>1, <2>1, <2>2
<1>4. QED
  BY <1>2, <1>3

(* A step within the pass that learns or skips no less than before.         *)
LEMMA PassedStays ==
  ASSUME IndexInv, FiledInv, PassedInv, [Next]_vars,
         UNCHANGED <<log, buffer, consumed, snapshot, batch>>,
         tick' \in {"keys", "decay", "fade"} => tick \in {"keys", "decay", "fade"},
         tick' \in Looping \cup {"adjust", "set", "advance", "passOver"} =>
           tick \in Looping \cup {"adjust", "set", "advance", "passOver"}
  PROVE  PassedInv'
<1>1. learned \subseteq learned' /\ passedOver \subseteq passedOver'
  BY LogGrows
<1>2. tick \in Ticks /\ tick' \in Ticks
  BY NextIndexInv DEF IndexInv, LoopTypes
<1>3. Dropped' = Dropped
  BY DEF Dropped
<1>4. QED
  BY <1>1, <1>2, <1>3 DEF PassedInv, Looping, Ticks

LEMMA NextPassed ==
  IndexInv /\ FiledInv /\ PassedInv /\ [Next]_vars => PassedInv'
<1> SUFFICES ASSUME IndexInv, FiledInv, PassedInv, [Next]_vars PROVE PassedInv'
  OBVIOUS
<1>1. /\ Len(log) \in Nat /\ Dropped \in Nat /\ consumed \in Nat /\ Len(snapshot) \in Nat
  BY IndexTypes
<1>2. ASSUME NEW nf \in NFs, AppendOutcome(nf) PROVE PassedInv'
  <2>1. /\ UNCHANGED <<consumed, tick, snapshot, batch, learned, passedOver>>
        /\ Len(log') = Len(log) + 1 /\ Len(buffer') = Len(buffer) + 1
    BY <1>2 DEF AppendOutcome, pass, IndexInv, LoopTypes
  <2>2. Dropped' = Dropped
    BY <2>1 DEF Dropped, IndexInv, LoopTypes
  <2>3. QED
    BY <1>1, <2>1, <2>2 DEF PassedInv
<1>3. CASE TrimBuffer
  <2>1. UNCHANGED <<consumed, tick, snapshot, batch, learned, passedOver, log>>
    BY <1>3 DEF TrimBuffer, pass
  <2>2. Dropped' \in Nat /\ Dropped' >= Dropped
    <3>1. /\ buffer' = LastOf(buffer, FeedbackLimit) /\ buffer \in Seq(Int)
          /\ FeedbackLimit \in Nat /\ Len(buffer) <= Len(log)
      BY <1>3, FeedbackAssumption DEF TrimBuffer, IndexInv, LoopTypes
    <3>2. Len(buffer') \in Nat /\ Len(buffer') <= Len(buffer)
      BY <3>1, LastOfProperties
    <3>3. QED
      BY <1>1, <2>1, <3>1, <3>2 DEF Dropped
  <2>3. QED
    BY <1>1, <2>1, <2>2 DEF PassedInv
<1>4. CASE ResetIndex
  <2>1. /\ consumed' = 0
        /\ UNCHANGED <<tick, snapshot, batch, learned, passedOver, log, buffer>>
    BY <1>4 DEF ResetIndex, pass
  <2>2. QED
    BY <1>1, <2>1 DEF PassedInv, Dropped
<1>5. CASE TakeSnapshot
  <2>1. tick' = "slice" /\ UNCHANGED <<consumed, learned, passedOver, log, buffer>>
    BY <1>5 DEF TakeSnapshot, eventLoop
  <2>2. QED
    BY <2>1 DEF PassedInv, Dropped
<1>6. CASE Slice
  <2> DEFINE new == Window(snapshot, consumed)
             taken == {new[i] : i \in 1..Len(new)}
  <2>1. /\ batch' = new /\ learned' = learned
        /\ passedOver' = passedOver \cup (IF Len(new) < MinFeedback THEN taken ELSE {})
        /\ tick' \in {"idle", "passOver", "keys"}
        /\ tick' = "passOver" => Len(new) < MinFeedback
        /\ UNCHANGED <<consumed, snapshot, log, buffer>>
    BY <1>6 DEF Slice, NewEntries, eventLoop
  <2>2. /\ Len(new) = (IF consumed < Len(snapshot) THEN Len(snapshot) - consumed ELSE 0)
        /\ \A i \in 1..(Len(snapshot) - consumed) : new[i] = snapshot[consumed + i]
    BY <1>1, WindowProperties DEF IndexInv, LoopTypes
  <2> HIDE DEF new
  <2>3. ASSUME Dropped = 0, NEW n \in 1..Len(snapshot)
        PROVE  n \in learned \cup passedOver \cup taken
    <3>1. CASE n <= consumed
      BY <2>3, <3>1 DEF PassedInv
    <3>2. CASE ~ (n <= consumed)
      <4>1. n - consumed \in 1..(Len(snapshot) - consumed)
        BY <1>1, <3>2
      <4>2. new[n - consumed] = snapshot[n] /\ n - consumed \in 1..Len(new)
        BY <1>1, <2>2, <4>1
      <4>3. snapshot[n] = n
        BY <2>3, NothingCutYet
      <4>4. QED
        BY <4>2, <4>3
    <3>3. QED
      BY <3>1, <3>2
  <2>4. taken = {batch'[i] : i \in 1..Len(batch')}
    BY <2>1
  <2> HIDE DEF taken
  <2>5. /\ Dropped' = Dropped
        /\ tick' = "passOver" => passedOver' = passedOver \cup taken
        /\ passedOver \subseteq passedOver'
    BY <2>1 DEF Dropped
  <2>6. QED
    BY <2>1, <2>3, <2>4, <2>5 DEF PassedInv
<1>7. CASE DecayDone
  <2>1. /\ tick = "decay" /\ tick' = "process"
        /\ learned' = learned \cup {batch[i] : i \in 1..Len(batch)}
        /\ UNCHANGED <<log, buffer, consumed, snapshot, batch, passedOver>>
    BY <1>7 DEF DecayDone, eventLoop
  <2>2. QED
    BY <2>1 DEF PassedInv, Dropped
<1>8. CASE Advance
  <2>1. /\ tick \in {"advance", "passOver"} /\ tick' \in {"apply", "idle"}
        /\ consumed' = Len(snapshot)
        /\ UNCHANGED <<snapshot, log, buffer, learned, passedOver>>
    BY <1>8 DEF Advance, Measure, eventLoop
  <2>2. QED
    BY <2>1, NothingCutYet DEF PassedInv, Dropped
<1>9. CASE InsideSteps \/ UNCHANGED vars
  <2>1. CASE InsideSteps
    <3>1. /\ UNCHANGED <<log, buffer, consumed, snapshot, batch>>
          /\ tick' \in {"keys", "decay", "fade"} => tick \in {"keys", "decay", "fade"}
          /\ tick' \in Looping \cup {"adjust", "set", "advance", "passOver"} =>
               tick \in Looping \cup {"adjust", "set", "advance", "passOver"}
      BY <2>1, InsideStepsAreInside DEF Inside, Looping
    <3>2. QED
      BY <3>1, PassedStays
  <2>2. CASE UNCHANGED vars
    BY <2>2, PassedStays DEF vars, eventLoop, pass
  <2>3. QED
    BY <1>9, <2>1, <2>2
<1>10. QED
  BY <1>2, <1>3, <1>4, <1>5, <1>6, <1>7, <1>8, <1>9, StepCases

(* Whatever the limits: the index passes over nothing but what was learned  *)
(* from and the batches too short to learn from, until the buffer is cut;   *)
(* and so any other outcome is missed only from then on.                    *)
THEOREM LearnedUntilOverflow == Spec => []LearnedOrTooFew
<1>1. Init => PassedInv
  BY DEF Init, PassedInv
<1>2. IndexInv /\ FiledInv /\ PassedInv => LearnedOrTooFew
  <2> SUFFICES ASSUME IndexInv, PassedInv, Dropped = 0, NEW i \in 1..Len(buffer), i <= consumed
               PROVE  buffer[i] \in learned \cup passedOver
    BY DEF LearnedOrTooFew
  <2>1. buffer[i] = i /\ i \in 1..consumed
    BY IndexTypes DEF IndexInv, BufferIsLatest
  <2>2. QED
    BY <2>1 DEF PassedInv
<1>3. Init => IndexInv /\ FiledInv /\ PassedInv
  BY <1>1, InitIndexInv, InitFiled
<1>4. IndexInv /\ FiledInv /\ PassedInv /\ [Next]_vars => (IndexInv /\ FiledInv /\ PassedInv)'
  BY NextIndexInv, NextFiled, NextPassed
<1>5. QED
  BY <1>2, <1>3, <1>4, PTL DEF Spec
-----------------------------------------------------------------------------
(* No list of the pass is longer than the buffer may be, the loops over the *)
(* weights visit network functions, and a batch that is passed over for     *)
(* being short is not empty.                                                *)
PassInv ==
  /\ todo \in SUBSET NFs
  /\ Len(snapshot) <= FeedbackLimit + 1 /\ Len(batch) <= FeedbackLimit + 1
  /\ tick = "passOver" => consumed < Len(snapshot)

LEMMA InitPass == Init => PassInv
  BY FeedbackAssumption DEF Init, PassInv

LEMMA SliceLengths ==
  ASSUME IndexInv, Slice
  PROVE  /\ Len(batch') = (IF consumed < Len(snapshot) THEN Len(snapshot) - consumed ELSE 0)
         /\ tick' \in {"idle", "passOver", "keys"}
         /\ tick' # "idle" <=> consumed < Len(snapshot)
         /\ tick' = "passOver" <=> (Len(batch') # 0 /\ Len(batch') < MinFeedback)
         /\ UNCHANGED <<snapshot, consumed, todo, recal, graph, ingested>>
<1> DEFINE new == Window(snapshot, consumed)
<1>1. new \in Seq(Int)
      /\ Len(new) = (IF consumed < Len(snapshot) THEN Len(snapshot) - consumed ELSE 0)
  BY WindowProperties DEF IndexInv, LoopTypes
<1>2. /\ batch' = new
      /\ tick' = IF new = <<>> THEN "idle"
                 ELSE IF Len(new) < MinFeedback THEN "passOver" ELSE "keys"
      /\ UNCHANGED <<snapshot, consumed, todo, recal, graph, ingested>>
  BY DEF Slice, NewEntries
<1> HIDE DEF new
<1>3. new = <<>> <=> Len(new) = 0
  BY <1>1
<1>4. QED
  BY <1>1, <1>2, <1>3, IndexTypes

LEMMA NextPass == IndexInv /\ FiledInv /\ PassInv /\ [Next]_vars => PassInv'
<1> SUFFICES ASSUME IndexInv, FiledInv, PassInv, [Next]_vars PROVE PassInv'
  OBVIOUS
<1> USE DEF PassInv
<1>1. /\ FeedbackLimit \in Nat /\ Len(snapshot) \in Nat /\ Len(batch) \in Nat
      /\ consumed \in Nat /\ Len(buffer) \in Nat
  BY IndexTypes
<1>2. CASE UNCHANGED <<todo, snapshot, batch, tick, consumed>>
  BY <1>2
<1>3. CASE (\E nf \in NFs : AppendOutcome(nf)) \/ TrimBuffer \/ ResetState
  BY <1>2, <1>3 DEF AppendOutcome, TrimBuffer, ResetState, pass
<1>4. CASE ResetIndex
  BY <1>1, <1>4 DEF ResetIndex, pass
<1>5. CASE TakeSnapshot
  <2>1. Len(buffer) <= FeedbackLimit + 1
    BY <1>1 DEF IndexInv, BufferIsLatest
  <2>2. QED
    BY <1>5, <2>1 DEF TakeSnapshot
<1>6. CASE Slice
  BY <1>1, <1>6, SliceLengths
<1>7. CASE DecayKeys \/ DecayWrite \/ DecayDone \/ AppendEntry \/ CutHistory
           \/ ReplaceHistory \/ AdjustWrite \/ CountEntries \/ ApplyRecalibration
  BY <1>7 DEF DecayKeys, DecayWrite, DecayDone, AppendEntry, CutHistory, ReplaceHistory,
     AdjustWrite, CountEntries, ApplyRecalibration
<1>8. CASE ProcessDone
  <2>1. \A i \in 1..Len(batch) : log[batch[i]] \in NFs
    BY DEF IndexInv, FiledInv, LoopTypes, Outcomes
  <2>2. QED
    BY <1>8, <2>1 DEF ProcessDone
<1>9. CASE Advance
  BY <1>9 DEF Advance
<1>10. CASE \E nf \in NFs : DecayRead(nf) \/ AdjustRead(nf)
  BY <1>10 DEF DecayRead, AdjustRead
<1>11. CASE UNCHANGED vars
  BY <1>2, <1>11 DEF vars, pass
<1>12. QED
  BY <1>3, <1>4, <1>5, <1>6, <1>7, <1>8, <1>9, <1>10, <1>11 DEF Next, EventLoop, Pipeline

LEMMA PassInvariant == Spec => [](IndexInv /\ FiledInv /\ PassInv)
<1>1. Init => IndexInv /\ FiledInv /\ PassInv
  BY InitIndexInv, InitFiled, InitPass
<1>2. IndexInv /\ FiledInv /\ PassInv /\ [Next]_vars => (IndexInv /\ FiledInv /\ PassInv)'
  BY NextIndexInv, NextFiled, NextPass
<1>3. QED
  BY <1>1, <1>2, PTL DEF Spec

(* frg.py:152-161 at its worst: where recalibrate wants more than one entry *)
(* (recalibrator.py:41, two) and the index has come to the bound of the     *)
(* buffer between two recalibrations, no step of any length of run leads    *)
(* out of that but the rewind of a reset: at most one entry is beyond the   *)
(* index ever again, and nothing is ingested, learned or multiplied in.     *)
Stuck ==
  /\ MinFeedback > 1
  /\ consumed >= FeedbackLimit
  /\ tick \in {"idle", "slice", "passOver"}

StuckForGood ==
  [][Stuck => \/ Stuck' /\ (UNCHANGED <<recal, graph, ingested>> \/ ResetState)
              \/ ResetIndex]_vars

THEOREM FullBufferEndsLearning == Spec => StuckForGood
<1> DEFINE Forever == Stuck => \/ Stuck' /\ (UNCHANGED <<recal, graph, ingested>> \/ ResetState)
                               \/ ResetIndex
<1>1. ASSUME IndexInv, PassInv, Next PROVE Forever
  <2> SUFFICES ASSUME Stuck PROVE \/ Stuck' /\ (UNCHANGED <<recal, graph, ingested>> \/ ResetState)
                                  \/ ResetIndex
    OBVIOUS
  <2>1. /\ FeedbackLimit \in Nat /\ Len(snapshot) \in Nat /\ consumed \in Nat
        /\ MinFeedback \in Nat /\ Len(batch) \in Nat
    BY <1>1, IndexTypes
  <2>2. MinFeedback > 1 /\ consumed >= FeedbackLimit /\ tick \in {"idle", "slice", "passOver"}
    BY DEF Stuck
  <2>3. CASE (\E nf \in NFs : AppendOutcome(nf)) \/ TrimBuffer \/ ResetState
    BY <2>2, <2>3 DEF AppendOutcome, TrimBuffer, ResetState, pass, Stuck
  <2>4. CASE TakeSnapshot
    BY <2>2, <2>4 DEF TakeSnapshot, Stuck
  <2>5. CASE Slice
    <3>1. Len(batch') <= 1 /\ Len(batch') \in Nat
      BY <1>1, <2>1, <2>2, <2>5, SliceLengths DEF PassInv
    <3>2. tick' # "keys"
      BY <1>1, <2>1, <2>2, <2>5, <3>1, SliceLengths
    <3>3. QED
      BY <1>1, <2>2, <2>5, <3>2, SliceLengths DEF Stuck
  <2>6. CASE Advance
    BY <1>1, <2>1, <2>2, <2>6 DEF Advance, Measure, PassInv, Stuck
  <2>7. CASE ResetIndex
    BY <2>7
  <2>8. ~ (\/ DecayKeys \/ DecayWrite \/ DecayDone \/ AppendEntry \/ CutHistory
           \/ ReplaceHistory \/ ProcessDone
           \/ AdjustWrite \/ CountEntries \/ ApplyRecalibration
           \/ \E nf \in NFs : DecayRead(nf) \/ AdjustRead(nf))
    BY <2>2 DEF DecayKeys, DecayWrite, DecayDone, AppendEntry, CutHistory, ReplaceHistory,
       ProcessDone, AdjustWrite, CountEntries, ApplyRecalibration, DecayRead, AdjustRead
  <2>9. QED
    BY <1>1, <2>3, <2>4, <2>5, <2>6, <2>7, <2>8 DEF Next, EventLoop, Pipeline
<1>2. IndexInv /\ FiledInv /\ PassInv /\ [Next]_vars => [Forever]_vars
  BY <1>1
<1>3. QED
  BY <1>2, PassInvariant, PTL DEF Spec, StuckForGood
-----------------------------------------------------------------------------
(* How many steps a pass has left: two for each key or network function a   *)
(* loop over the weights has to visit, three for an entry of the batch, and *)
(* those between the loops.                                                 *)
ForKeys == 2 * Cardinality(todo)
ForAll  == 2 * Cardinality(NFs)

PassLeft ==
  CASE tick = "idle"                   -> 0
    [] tick \in {"apply", "passOver"}  -> 1
    [] tick = "advance"                -> 2
    [] tick = "adjust"                 -> 3 + ForKeys
    [] tick = "set"                    -> 4 + ForKeys
    [] tick = "process"                -> 4 + ForAll + 3 * Len(rest)
    [] tick = "cut"                    -> 3 + ForAll + 3 * Len(rest)
    [] tick = "replace"                -> 2 + ForAll + 3 * Len(rest)
    [] tick = "decay"                  -> 5 + ForAll + 3 * Len(batch) + ForKeys
    [] tick = "fade"                   -> 6 + ForAll + 3 * Len(batch) + ForKeys
    [] tick = "keys"                   -> 6 + ForAll + 3 * Len(batch) + ForAll
    [] tick = "slice"                  -> 7 + ForAll + 3 * Len(snapshot) + ForAll

LEMMA Visits ==
  /\ Cardinality(NFs) \in Nat
  /\ \A keys \in SUBSET NFs :
       /\ Cardinality(keys) \in Nat /\ Cardinality(keys) <= Cardinality(NFs)
       /\ \A nf \in keys : Cardinality(keys \ {nf}) = Cardinality(keys) - 1
<1>1. IsFiniteSet(NFs)
  BY FeedbackAssumption
<1>2. ASSUME NEW keys \in SUBSET NFs
      PROVE  /\ Cardinality(keys) \in Nat /\ Cardinality(keys) <= Cardinality(NFs)
             /\ \A nf \in keys : Cardinality(keys \ {nf}) = Cardinality(keys) - 1
  <2>1. IsFiniteSet(keys) /\ Cardinality(keys) <= Cardinality(NFs)
    BY <1>1, FS_Subset
  <2>2. QED
    BY <2>1, FS_CardinalityType, FS_RemoveElement
<1>3. QED
  BY <1>1, <1>2, FS_CardinalityType

(* The numbers that PassLeft is made of.                                    *)
LEMMA PassNumbers ==
  ASSUME IndexInv, FiledInv, PassInv
  PROVE  /\ ForKeys \in Nat /\ ForAll \in Nat /\ ForKeys <= ForAll
         /\ Len(batch) \in Nat /\ Len(snapshot) \in Nat
         /\ tick \in Looping => Len(rest) \in Nat /\ Len(rest) <= Len(batch)
         /\ tick \in Looping \ {"process"} => Len(rest) >= 1
         /\ tick \in Ticks
<1>1. Cardinality(todo) \in Nat /\ Cardinality(NFs) \in Nat
      /\ Cardinality(todo) <= Cardinality(NFs)
  BY Visits DEF PassInv
<1>2. ForKeys \in Nat /\ ForAll \in Nat /\ ForKeys <= ForAll
  BY <1>1 DEF ForKeys, ForAll
<1>3. tick \in Looping => rest \in Seq(Int) /\ Len(rest) <= Len(batch)
  BY DEF FiledInv, RestInv
<1>4. tick \in Looping \ {"process"} => rest # <<>>
  BY DEF FiledInv, RestInv
<1>5. QED
  BY <1>2, <1>3, <1>4, IndexTypes DEF IndexInv, LoopTypes

(* Whatever the event loop does meanwhile, a pass is over after a number of *)
(* steps that the buffer's bound and the network functions bound: each of   *)
(* its own steps leaves fewer, and no report and no reset adds one.         *)
PassIsBounded == PassLeft \in 0..(10 + 2 * ForAll + 3 * FeedbackLimit)
PassGoesOn ==
  [][PassLeft' < PassLeft \/ TakeSnapshot \/ (EventLoop /\ PassLeft' = PassLeft)]_vars

LEMMA PassBound ==
  ASSUME IndexInv, FiledInv, PassInv
  PROVE  PassIsBounded
<1>1. FeedbackLimit \in Nat /\ Len(snapshot) <= FeedbackLimit + 1
      /\ Len(batch) <= FeedbackLimit + 1
  BY FeedbackAssumption DEF PassInv
<1>2. /\ ForKeys \in Nat /\ ForAll \in Nat /\ ForKeys <= ForAll
      /\ Len(batch) \in Nat /\ Len(snapshot) \in Nat
      /\ tick \in Looping => Len(rest) \in Nat /\ Len(rest) <= Len(batch)
      /\ tick \in Ticks
  BY PassNumbers
<1>3. CASE tick \in Looping
  <2>1. \/ PassLeft = 4 + ForAll + 3 * Len(rest)
        \/ PassLeft = 3 + ForAll + 3 * Len(rest)
        \/ PassLeft = 2 + ForAll + 3 * Len(rest)
    BY <1>3 DEF PassLeft, Looping
  <2>2. QED
    BY <1>1, <1>2, <1>3, <2>1 DEF PassIsBounded
<1>4. CASE tick = "slice"
  <2>1. PassLeft = 7 + ForAll + 3 * Len(snapshot) + ForAll
    BY <1>4 DEF PassLeft
  <2>2. QED
    BY <1>1, <1>2, <2>1 DEF PassIsBounded
<1>5. CASE tick \in {"keys", "decay", "fade"}
  <2>1. \/ PassLeft = 5 + ForAll + 3 * Len(batch) + ForKeys
        \/ PassLeft = 6 + ForAll + 3 * Len(batch) + ForKeys
        \/ PassLeft = 6 + ForAll + 3 * Len(batch) + ForAll
    BY <1>5 DEF PassLeft
  <2>2. QED
    BY <1>1, <1>2, <2>1 DEF PassIsBounded
<1>6. CASE tick \in {"adjust", "set"}
  <2>1. PassLeft = 3 + ForKeys \/ PassLeft = 4 + ForKeys
    BY <1>6 DEF PassLeft
  <2>2. QED
    BY <1>1, <1>2, <2>1 DEF PassIsBounded
<1>7. CASE tick \in {"idle", "apply", "passOver", "advance"}
  <2>1. PassLeft \in 0..2
    BY <1>7 DEF PassLeft
  <2>2. QED
    BY <1>1, <1>2, <2>1 DEF PassIsBounded
<1>8. QED
  BY <1>2, <1>3, <1>4, <1>5, <1>6, <1>7 DEF Ticks, Looping

LEMMA PipelineLeavesFewer ==
  ASSUME IndexInv, FiledInv, PassInv, (IndexInv /\ FiledInv /\ PassInv)', Pipeline, ~TakeSnapshot
  PROVE  PassLeft' < PassLeft
<1>1. /\ ForKeys \in Nat /\ ForAll \in Nat /\ ForKeys <= ForAll
      /\ Len(batch) \in Nat /\ Len(snapshot) \in Nat
      /\ tick \in Looping => Len(rest) \in Nat /\ Len(rest) <= Len(batch)
      /\ tick \in Looping \ {"process"} => Len(rest) >= 1
  BY PassNumbers
<1>2. ForAll' = ForAll
  BY DEF ForAll
<1>3. ForKeys' \in Nat /\ ForKeys' <= ForAll
  <2>1. todo' \in SUBSET NFs
    BY DEF PassInv
  <2>2. Cardinality(todo') \in Nat /\ Cardinality(todo') <= Cardinality(NFs)
        /\ Cardinality(NFs) \in Nat
    BY <2>1, Visits
  <2>3. QED
    BY <2>2 DEF ForKeys, ForAll
<1>4. todo' = todo => ForKeys' = ForKeys
  BY DEF ForKeys
<1>5. CASE Slice
  <2>1. tick = "slice" /\ tick' \in {"idle", "passOver", "keys"}
        /\ Len(batch') \in Nat /\ Len(batch') <= Len(snapshot)
    BY <1>5, SliceLengths, IndexTypes DEF Slice
  <2>2. PassLeft = 7 + ForAll + 3 * Len(snapshot) + ForAll
    BY <2>1 DEF PassLeft
  <2>3. PassLeft' <= 6 + ForAll + 3 * Len(batch') + ForAll
    BY <1>1, <1>2, <2>1 DEF PassLeft
  <2>4. PassLeft' \in Nat
    BY <1>1, <1>2, <2>1 DEF PassLeft
  <2>5. QED
    BY <1>1, <2>1, <2>2, <2>3, <2>4
<1>6. CASE DecayKeys
  <2>1. tick = "keys" /\ tick' = "decay" /\ batch' = batch
    BY <1>6 DEF DecayKeys
  <2>2. PassLeft = 6 + ForAll + 3 * Len(batch) + ForAll
        /\ PassLeft' = 5 + ForAll + 3 * Len(batch) + ForKeys'
    BY <1>2, <2>1 DEF PassLeft
  <2>3. QED
    BY <1>1, <1>3, <2>2
<1>7. ASSUME NEW nf \in NFs, DecayRead(nf) \/ AdjustRead(nf)
      PROVE  PassLeft' < PassLeft
  <2>1. /\ tick \in {"decay", "adjust"} /\ batch' = batch
        /\ tick = "decay" => tick' \in {"idle", "fade"}
        /\ tick = "adjust" => tick' = "set"
        /\ nf \in todo /\ todo' = todo \ {nf}
    BY <1>7 DEF DecayRead, AdjustRead
  <2>2. ForKeys' = ForKeys - 2
    <3>1. Cardinality(todo) \in Nat /\ Cardinality(todo') = Cardinality(todo) - 1
      BY <2>1, Visits DEF PassInv
    <3>2. QED
      BY <3>1 DEF ForKeys
  <2>3. CASE tick = "decay"
    <3>1. PassLeft = 5 + ForAll + 3 * Len(batch) + ForKeys
      BY <2>3 DEF PassLeft
    <3>2. PassLeft' = 0 \/ PassLeft' = 6 + ForAll + 3 * Len(batch) + ForKeys'
      BY <1>2, <2>1, <2>3 DEF PassLeft
    <3>3. QED
      BY <1>1, <2>2, <3>1, <3>2
  <2>4. CASE tick = "adjust"
    <3>1. PassLeft = 3 + ForKeys /\ PassLeft' = 4 + ForKeys'
      BY <2>1, <2>4 DEF PassLeft
    <3>2. QED
      BY <1>1, <2>2, <3>1
  <2>5. QED
    BY <2>1, <2>3, <2>4
<1>8. CASE DecayWrite
  <2>1. PassLeft = 6 + ForAll + 3 * Len(batch) + ForKeys
        /\ PassLeft' = 5 + ForAll + 3 * Len(batch) + ForKeys
    BY <1>2, <1>4, <1>8 DEF DecayWrite, PassLeft
  <2>2. QED
    BY <1>1, <2>1
<1>9. CASE DecayDone
  <2>1. PassLeft = 5 + ForAll + 3 * Len(batch) + ForKeys
        /\ PassLeft' = 4 + ForAll + 3 * Len(batch)
    BY <1>2, <1>9 DEF DecayDone, PassLeft
  <2>2. QED
    BY <1>1, <2>1
<1>10. CASE AppendEntry \/ CutHistory \/ ReplaceHistory
  <2>1. tick \in Looping /\ rest # <<>>
    BY <1>10 DEF AppendEntry, CutHistory, ReplaceHistory, FiledInv, RestInv, Looping
  <2> DEFINE left == Len(rest)
             less == Len(Tail(rest))
  <2>2. left \in Nat /\ less = left - 1
    BY <2>1, EntryIsOfBatch
  <2>3. CASE AppendEntry
    <3>1. PassLeft = 4 + ForAll + 3 * left /\ PassLeft' = 3 + ForAll + 3 * left
      BY <1>2, <2>3 DEF AppendEntry, PassLeft
    <3> HIDE DEF left, less
    <3>2. QED
      BY <1>1, <2>2, <3>1
  <2>4. CASE CutHistory
    <3>1. /\ PassLeft = 3 + ForAll + 3 * left
          /\ \/ PassLeft' = 2 + ForAll + 3 * left
             \/ PassLeft' = 4 + ForAll + 3 * less
      BY <1>2, <2>4 DEF CutHistory, PassLeft
    <3> HIDE DEF left, less
    <3>2. QED
      BY <1>1, <2>2, <3>1
  <2>5. CASE ReplaceHistory
    <3>1. /\ PassLeft = 2 + ForAll + 3 * left
          /\ PassLeft' = 4 + ForAll + 3 * less
      BY <1>2, <2>5 DEF ReplaceHistory, PassLeft
    <3> HIDE DEF left, less
    <3>2. QED
      BY <1>1, <2>2, <3>1
  <2>6. QED
    BY <1>10, <2>3, <2>4, <2>5
<1>11. CASE ProcessDone
  <2>1. PassLeft = 4 + ForAll + 3 * Len(rest) /\ PassLeft' = 3 + ForKeys'
        /\ Len(rest) \in Nat
    BY <1>1, <1>11 DEF ProcessDone, PassLeft, Looping
  <2>2. QED
    BY <1>1, <1>3, <2>1
<1>12. CASE AdjustWrite
  <2>1. PassLeft = 4 + ForKeys /\ PassLeft' = 3 + ForKeys
    BY <1>4, <1>12 DEF AdjustWrite, PassLeft
  <2>2. QED
    BY <1>1, <2>1
<1>13. CASE CountEntries
  <2>1. PassLeft = 3 + ForKeys /\ PassLeft' = 2
    BY <1>13 DEF CountEntries, PassLeft
  <2>2. QED
    BY <1>1, <2>1
<1>14. CASE Advance \/ ApplyRecalibration
  BY <1>14 DEF Advance, ApplyRecalibration, PassLeft
<1>15. QED
  BY <1>5, <1>6, <1>7, <1>8, <1>9, <1>10, <1>11, <1>12, <1>13, <1>14 DEF Pipeline

THEOREM PassesAreBounded == Spec => []PassIsBounded /\ PassGoesOn
<1> DEFINE Inv  == IndexInv /\ FiledInv /\ PassInv
           Goes == PassLeft' < PassLeft \/ TakeSnapshot \/ (EventLoop /\ PassLeft' = PassLeft)
<1>1. ASSUME Inv, Inv', Next PROVE Goes
  <2>1. CASE EventLoop
    <3>1. UNCHANGED <<tick, snapshot, batch, todo, rest>>
      BY <2>1 DEF EventLoop, AppendOutcome, TrimBuffer, ResetState, ResetIndex, pass
    <3>2. QED
      BY <2>1, <3>1 DEF PassLeft, ForKeys, ForAll
  <2>2. CASE Pipeline
    BY <1>1, <2>2, PipelineLeavesFewer
  <2>3. QED
    BY <1>1, <2>1, <2>2 DEF Next
<1>2. Inv /\ Inv' /\ [Next]_vars => [Goes]_vars
  BY <1>1
<1>3. Inv => PassIsBounded
  BY PassBound
<1>4. QED
  BY <1>2, <1>3, PassInvariant, PTL DEF Spec, PassGoesOn
=============================================================================
