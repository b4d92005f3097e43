---------------------------- MODULE RecorderProofs ----------------------------
(***************************************************************************)
(* Proofs about Recorder, for every limit of the buffer and any number of  *)
(* readings, failures and restarts: no sample is lost but by the limit or  *)
(* a restart, the recorder implements PointValues, the history gives the   *)
(* readings back, and once quiet the database is up to date.               *)
(***************************************************************************)
EXTENDS Recorder, TLAPS

Types ==
  /\ readings \in Seq(Int)
  /\ flying \in SUBSET Nat
  /\ buffer \in [samples : Seq(Nat), latest : Nat]
  /\ batch \in [samples : Seq(Nat), latest : Nat, open : BOOLEAN]
  /\ db \in [samples : SUBSET Nat, latest : Nat]
  /\ kept \in SUBSET Nat

(* Whatever is held was read before. *)
Taken ==
  /\ flying \subseteq 1..Len(readings)
  /\ Elements(buffer.samples) \subseteq 1..Len(readings)
  /\ Elements(batch.samples) \subseteq 1..Len(readings)
  /\ db.samples \subseteq 1..Len(readings)
  /\ buffer.latest <= Len(readings)
  /\ batch.latest <= Len(readings)
  /\ db.latest <= Len(readings)

(* No batch is held between flushes. *)
Closed == ~batch.open => batch.samples = <<>>

RecorderInv == Types /\ Taken /\ Closed /\ SamplesHeld

-----------------------------------------------------------------------------
(* The elements of the empty sequence, of an appended one, of a            *)
(* concatenation and of its end, which flush handles.                      *)
LEMMA ElementsEmpty == Elements(<<>>) = {}
BY DEF Elements

LEMMA ElementsAppend ==
  ASSUME NEW s \in Seq(Nat), NEW n \in Nat
  PROVE  /\ Append(s, n) \in Seq(Nat)
         /\ Elements(Append(s, n)) = Elements(s) \cup {n}
<1>1. /\ Append(s, n) \in Seq(Nat) /\ Len(Append(s, n)) = Len(s) + 1
      /\ \A i \in 1..Len(s) : Append(s, n)[i] = s[i]
      /\ Append(s, n)[Len(s) + 1] = n
      /\ Len(s) \in Nat
  OBVIOUS
<1>2. 1..(Len(s) + 1) = 1..Len(s) \cup {Len(s) + 1}
  BY <1>1
<1> QED BY <1>1, <1>2 DEF Elements

LEMMA ElementsConcat ==
  ASSUME NEW s \in Seq(Nat), NEW t \in Seq(Nat)
  PROVE  /\ s \o t \in Seq(Nat)
         /\ Len(s \o t) = Len(s) + Len(t)
         /\ Elements(s \o t) = Elements(s) \cup Elements(t)
<1>1. /\ s \o t \in Seq(Nat) /\ Len(s \o t) = Len(s) + Len(t)
      /\ \A i \in 1..(Len(s) + Len(t)) : (s \o t)[i] = IF i <= Len(s) THEN s[i] ELSE t[i - Len(s)]
      /\ Len(s) \in Nat /\ Len(t) \in Nat
  OBVIOUS
<1>2. Elements(s \o t) \subseteq Elements(s) \cup Elements(t)
  BY <1>1 DEF Elements
<1>3. Elements(s) \subseteq Elements(s \o t)
  BY <1>1 DEF Elements
<1>4. Elements(t) \subseteq Elements(s \o t)
  <2> SUFFICES ASSUME NEW i \in 1..Len(t) PROVE t[i] \in Elements(s \o t)
    BY DEF Elements
  <2>1. i + Len(s) \in 1..Len(s \o t) /\ (s \o t)[i + Len(s)] = t[i]
    BY <1>1
  <2> QED BY <2>1 DEF Elements
<1> QED BY <1>1, <1>2, <1>3, <1>4

LEMMA ElementsLast ==
  ASSUME NEW s \in Seq(Nat), Len(s) > MaxBuffered
  PROVE  LastOf(s) \in Seq(Nat) /\ Elements(LastOf(s)) \subseteq Elements(s)
<1> DEFINE m == Len(s) - MaxBuffered + 1
<1>1. m \in 1..Len(s) /\ Len(s) \in Nat /\ MaxBuffered \in Nat \ {0}
  BY RecorderAssumption
<1>2. /\ SubSeq(s, m, Len(s)) \in Seq(Nat)
      /\ Len(SubSeq(s, m, Len(s))) = MaxBuffered
      /\ \A i \in 1..MaxBuffered : SubSeq(s, m, Len(s))[i] = s[m + i - 1]
  BY <1>1
<1>3. \A i \in 1..MaxBuffered : m + i - 1 \in 1..Len(s)
  BY <1>1
<1> QED BY <1>2, <1>3 DEF Elements, LastOf

(* What a failed flush puts back (Restored). *)
LEMMA ElementsRestored ==
  ASSUME Types
  PROVE  /\ Restored \in Seq(Nat)
         /\ Elements(Restored) \subseteq Elements(batch.samples) \cup Elements(buffer.samples)
         /\ Len(batch.samples) + Len(buffer.samples) <= MaxBuffered
              => Elements(Restored) = Elements(batch.samples) \cup Elements(buffer.samples)
<1> DEFINE all == batch.samples \o buffer.samples
<1>1. batch.samples \in Seq(Nat) /\ buffer.samples \in Seq(Nat)
  BY DEF Types
<1>2. /\ all \in Seq(Nat) /\ Len(all) = Len(batch.samples) + Len(buffer.samples)
      /\ Elements(all) = Elements(batch.samples) \cup Elements(buffer.samples)
  BY <1>1, ElementsConcat
<1> HIDE DEF all
<1>3. CASE Len(all) > MaxBuffered
  <2>1. Restored = LastOf(all)
    BY <1>3 DEF Restored, all
  <2>2. LastOf(all) \in Seq(Nat) /\ Elements(LastOf(all)) \subseteq Elements(all)
    BY <1>2, <1>3, ElementsLast
  <2>3. Len(batch.samples) \in Nat /\ Len(buffer.samples) \in Nat /\ MaxBuffered \in Nat
    BY <1>1, RecorderAssumption
  <2>4. ~(Len(batch.samples) + Len(buffer.samples) <= MaxBuffered)
    <3> DEFINE k == Len(batch.samples)
               l == Len(buffer.samples)
    <3>1. k + l > MaxBuffered
      BY <1>2, <1>3
    <3> HIDE DEF k, l
    <3>2. k \in Nat /\ l \in Nat
      BY <2>3 DEF k, l
    <3>3. ~(k + l <= MaxBuffered)
      BY <2>3, <3>1, <3>2
    <3> QED BY <3>3 DEF k, l
  <2> QED BY <1>2, <2>1, <2>2, <2>4
<1>4. CASE ~(Len(all) > MaxBuffered)
  <2>1. Restored = all
    BY <1>4 DEF Restored, all
  <2> QED BY <1>2, <2>1
<1> QED BY <1>3, <1>4

-----------------------------------------------------------------------------
LEMMA InitInv == Init => RecorderInv
<1> SUFFICES ASSUME Init PROVE RecorderInv
  OBVIOUS
<1>1. Types
  BY DEF Init, Types, Empty, NoBatch
<1>2. Elements(buffer.samples) = {} /\ Elements(batch.samples) = {}
  BY ElementsEmpty DEF Init, Empty, NoBatch
<1>3. Taken
  BY <1>2 DEF Init, Taken, Empty, NoBatch
<1>4. Closed /\ SamplesHeld
  BY DEF Init, Closed, SamplesHeld, NoBatch
<1> QED BY <1>1, <1>3, <1>4 DEF RecorderInv

(* Types, and the readings of before, are left alone by a restart. *)
LEMMA WrittenType ==
  ASSUME Types, Taken, NEW s \in Seq(Nat), NEW n \in Nat,
         Elements(s) \subseteq 1..Len(readings), n <= Len(readings)
  PROVE  /\ Written(s, n) \in [samples : SUBSET Nat, latest : Nat]
         /\ Written(s, n).samples = db.samples \cup Elements(s)
         /\ Written(s, n).samples \subseteq 1..Len(readings)
         /\ Written(s, n).latest \in db.latest..Len(readings)
<1>1. db.latest \in Nat /\ db.latest <= Len(readings) /\ Len(readings) \in Nat
  BY DEF Types, Taken
<1>2. LatestWritten(n) \in db.latest..Len(readings)
  BY <1>1 DEF LatestWritten, Newest
<1>3. db.samples \cup Elements(s) \subseteq 1..Len(readings)
  BY DEF Taken
<1> QED BY <1>1, <1>2, <1>3 DEF Written

-----------------------------------------------------------------------------
(* One lemma per action: it keeps RecorderInv, and is a step of            *)
(* PointValues or changes nothing of it.                                   *)
Promise == [Promised!Next]_<<Len(readings), db.latest, db.samples>>

LEMMA HandleStep ==
  ASSUME RecorderInv, NEW value \in Values, Handle(value)
  PROVE  RecorderInv' /\ Promise
<1> USE DEF RecorderInv
<1>1. value \in Int
  BY RecorderAssumption
<1>2. /\ readings' \in Seq(Int) /\ Len(readings') = Len(readings) + 1
      /\ Len(readings) \in Nat
  BY <1>1 DEF Handle, Types
<1>3. 1..Len(readings) \subseteq 1..Len(readings')
  BY <1>2
<1>4. /\ buffer' = buffer /\ batch' = batch /\ db' = db /\ kept' = kept /\ lost' = lost
      /\ flying' = flying \cup {Len(readings) + 1}
  BY DEF Handle, mem, history
<1>5. Types'
  <2>1. flying' \in SUBSET Nat
    <3>1. flying \in SUBSET Nat /\ Len(readings) + 1 \in Nat
      BY <1>2 DEF Types, RecorderInv
    <3> QED BY <1>4, <3>1
  <2>2. UNCHANGED <<buffer, batch, db, kept>>
    BY <1>4
  <2> QED BY <1>2, <2>1, <2>2 DEF Types
<1>6. Taken'
  <2>1. flying' \subseteq 1..Len(readings')
    <3>1. Len(readings) + 1 \in 1..Len(readings')
      BY <1>2
    <3>2. flying \subseteq 1..Len(readings')
      BY <1>3 DEF Taken
    <3> QED BY <1>4, <3>1, <3>2
  <2>2. /\ buffer.latest <= Len(readings') /\ batch.latest <= Len(readings')
        /\ db.latest <= Len(readings')
    BY <1>2 DEF Taken, Types
  <2>3. /\ Elements(buffer.samples) \subseteq 1..Len(readings')
        /\ Elements(batch.samples) \subseteq 1..Len(readings')
        /\ db.samples \subseteq 1..Len(readings')
    BY <1>3 DEF Taken
  <2>4. /\ Elements(buffer'.samples) = Elements(buffer.samples)
        /\ Elements(batch'.samples) = Elements(batch.samples)
    BY <1>4
  <2> QED BY <1>4, <2>1, <2>2, <2>3, <2>4 DEF Taken
<1>7. Closed' /\ SamplesHeld'
  BY <1>4 DEF Closed, SamplesHeld, Elements
<1>8. Promise
  BY <1>2, <1>4 DEF Promise, Promised!Next, Promised!Take
<1> QED BY <1>5, <1>6, <1>7, <1>8

LEMMA StoreStep ==
  ASSUME RecorderInv, NEW n \in flying, Store(n)
  PROVE  RecorderInv' /\ Promise
<1> USE DEF RecorderInv
<1>1. n \in Nat /\ n \in 1..Len(readings) /\ n <= Len(readings)
  BY DEF Types, Taken
<1>2. /\ readings' = readings /\ batch' = batch /\ db' = db /\ lost' = lost
      /\ flying' = flying \ {n}
  BY DEF Store
<1>3. /\ buffer' \in [samples : Seq(Nat), latest : Nat]
      /\ buffer'.latest = n
      /\ kept' \in SUBSET Nat
      /\ kept' \ kept \subseteq {n}
      /\ Elements(buffer'.samples) = Elements(buffer.samples) \cup (kept' \ kept)
           \/ Elements(buffer'.samples) = Elements(buffer.samples) \cup {n}
  <2>1. buffer.samples \in Seq(Nat)
    BY DEF Types
  <2>2. CASE ShouldStore(n)
    <3>1. buffer' = [samples |-> Append(buffer.samples, n), latest |-> n] /\ kept' = kept \cup {n}
      BY <2>2 DEF Store
    <3>2. /\ Append(buffer.samples, n) \in Seq(Nat)
          /\ Elements(Append(buffer.samples, n)) = Elements(buffer.samples) \cup {n}
      BY <1>1, <2>1, ElementsAppend
    <3> QED BY <1>1, <3>1, <3>2 DEF Types
  <2>3. CASE ~ShouldStore(n)
    <3>1. buffer' = [buffer EXCEPT !.latest = n] /\ kept' = kept
      BY <2>3 DEF Store
    <3>2. buffer'.samples = buffer.samples
      BY <3>1 DEF Types
    <3> QED BY <1>1, <3>1, <3>2 DEF Types
  <2> QED BY <2>2, <2>3
<1>4. Types'
  BY <1>2, <1>3 DEF Types
<1>5. Taken'
  <2>1. Elements(buffer'.samples) \subseteq 1..Len(readings)
    BY <1>1, <1>3 DEF Taken
  <2> QED BY <1>1, <1>2, <1>3, <2>1 DEF Taken, Elements
<1>6. Closed'
  BY <1>2 DEF Closed
<1>7. SamplesHeld'
  <2>1. Elements(batch'.samples) = Elements(batch.samples)
    BY <1>2
  <2> QED BY <1>2, <1>3, <2>1 DEF SamplesHeld
<1>8. Promise
  BY <1>2 DEF Promise
<1> QED BY <1>4, <1>5, <1>6, <1>7, <1>8

LEMMA StartFlushStep ==
  ASSUME RecorderInv, StartFlush
  PROVE  RecorderInv' /\ Promise
<1> USE DEF RecorderInv
<1>1. /\ readings' = readings /\ flying' = flying /\ db' = db /\ kept' = kept /\ lost' = lost
      /\ buffer' = Empty
      /\ batch' = [samples |-> buffer.samples, latest |-> buffer.latest, open |-> TRUE]
      /\ batch.samples = <<>>
  BY DEF StartFlush, history, Closed
<1>2. /\ buffer'.samples = <<>> /\ buffer'.latest = 0
      /\ batch'.samples = buffer.samples /\ batch'.latest = buffer.latest /\ batch'.open
      /\ buffer' \in [samples : Seq(Nat), latest : Nat]
  BY <1>1 DEF Empty
<1>3. /\ Elements(buffer'.samples) = {} /\ Elements(batch.samples) = {}
      /\ Elements(batch'.samples) = Elements(buffer.samples)
  BY <1>1, <1>2, ElementsEmpty
<1>4. Types'
  BY <1>1, <1>2 DEF Types
<1>5. Taken'
  <2>1. 0 <= Len(readings)
    BY DEF Types
  <2> QED BY <1>1, <1>2, <1>3, <2>1 DEF Taken
<1>6. Closed'
  BY <1>2 DEF Closed
<1>7. SamplesHeld'
  BY <1>1, <1>3 DEF SamplesHeld
<1>8. Promise
  BY <1>1 DEF Promise
<1> QED BY <1>4, <1>5, <1>6, <1>7, <1>8

(* A transaction writes what was read, and moves point_latest forward. *)
LEMMA WriteStep ==
  ASSUME RecorderInv, NEW s \in Seq(Nat), NEW n \in Nat, readings' = readings,
         Elements(s) \subseteq 1..Len(readings), n <= Len(readings),
         db' \in {db, Written(s, n)}
  PROVE  /\ db' \in [samples : SUBSET Nat, latest : Nat]
         /\ db'.samples \subseteq 1..Len(readings)
         /\ db.samples \subseteq db'.samples
         /\ db'.latest <= Len(readings)
         /\ Promise
<1> USE DEF RecorderInv
<1>1. /\ Written(s, n) \in [samples : SUBSET Nat, latest : Nat]
      /\ Written(s, n).samples = db.samples \cup Elements(s)
      /\ Written(s, n).samples \subseteq 1..Len(readings)
      /\ Written(s, n).latest \in db.latest..Len(readings)
  BY WrittenType
<1>2. CASE db' = db
  BY <1>2 DEF Types, Taken, Promise
<1>3. CASE db' = Written(s, n)
  <2>1. Promised!Write
    BY <1>1, <1>3 DEF Promised!Write
  <2>2. db.latest \in Nat /\ Len(readings) \in Nat
    BY DEF Types
  <2>3. db'.latest <= Len(readings)
    BY <1>1, <1>3, <2>2
  <2> QED BY <1>1, <1>3, <2>1, <2>3 DEF Promise, Promised!Next
<1> QED BY <1>2, <1>3

LEMMA EndFlushStep ==
  ASSUME RecorderInv, EndFlush
  PROVE  RecorderInv' /\ Promise
<1> USE DEF RecorderInv
<1>1. /\ readings' = readings /\ flying' = flying /\ buffer' = buffer
      /\ kept' = kept /\ lost' = lost
      /\ batch' = NoBatch
      /\ db' = Written(batch.samples, batch.latest)
  BY DEF EndFlush, mem, history
<1>2. batch.samples \in Seq(Nat) /\ batch.latest \in Nat
  BY DEF Types
<1>3. /\ Elements(batch.samples) \subseteq 1..Len(readings)
      /\ batch.latest <= Len(readings)
  BY DEF Taken
<1>4. /\ db' \in [samples : SUBSET Nat, latest : Nat]
      /\ db'.samples \subseteq 1..Len(readings)
      /\ db'.latest <= Len(readings)
      /\ Promise
  BY <1>1, <1>2, <1>3, WriteStep
<1>5. db'.samples = db.samples \cup Elements(batch.samples)
  BY <1>1 DEF Written
<1>6. /\ batch'.samples = <<>> /\ batch'.latest = 0 /\ ~batch'.open
      /\ batch' \in [samples : Seq(Nat), latest : Nat, open : BOOLEAN]
  BY <1>1 DEF NoBatch
<1>7. Elements(batch'.samples) = {}
  BY <1>6, ElementsEmpty
<1>8. Types'
  BY <1>1, <1>4, <1>6 DEF Types
<1>9. Taken'
  <2>1. 0 <= Len(readings)
    BY DEF Types
  <2> QED BY <1>1, <1>4, <1>6, <1>7, <2>1 DEF Taken
<1>10. Closed'
  BY <1>6 DEF Closed
<1>11. SamplesHeld'
  BY <1>1, <1>5, <1>7 DEF SamplesHeld
<1> QED BY <1>4, <1>8, <1>9, <1>10, <1>11

LEMMA FailFlushStep ==
  ASSUME RecorderInv, FailFlush
  PROVE  RecorderInv' /\ Promise
<1> USE DEF RecorderInv
<1> DEFINE k == Len(batch.samples) + Len(buffer.samples)
           given_up == (Elements(batch.samples) \cup Elements(buffer.samples))
                         \ Elements(LastOf(batch.samples \o buffer.samples))
<1>1. /\ readings' = readings /\ flying' = flying /\ kept' = kept
      /\ batch' = NoBatch
      /\ buffer' = [samples |-> Restored, latest |-> LatestRestored]
      /\ db' \in {db, Written(batch.samples, batch.latest)}
      /\ lost' = IF k > MaxBuffered THEN lost \cup given_up ELSE lost
  BY DEF FailFlush
<1>2. batch.samples \in Seq(Nat) /\ batch.latest \in Nat /\ buffer.latest \in Nat
  BY DEF Types
<1>3. /\ Elements(batch.samples) \subseteq 1..Len(readings)
      /\ Elements(buffer.samples) \subseteq 1..Len(readings)
      /\ batch.latest <= Len(readings) /\ buffer.latest <= Len(readings)
  BY DEF Taken
<1>4. /\ db' \in [samples : SUBSET Nat, latest : Nat]
      /\ db'.samples \subseteq 1..Len(readings)
      /\ db.samples \subseteq db'.samples
      /\ db'.latest <= Len(readings)
      /\ Promise
  BY <1>1, <1>2, <1>3, WriteStep
<1>5. /\ batch'.samples = <<>> /\ batch'.latest = 0 /\ ~batch'.open
      /\ batch' \in [samples : Seq(Nat), latest : Nat, open : BOOLEAN]
  BY <1>1 DEF NoBatch
<1>6. Elements(batch'.samples) = {}
  BY <1>5, ElementsEmpty
<1>7. /\ Restored \in Seq(Nat)
      /\ Elements(Restored) \subseteq Elements(batch.samples) \cup Elements(buffer.samples)
      /\ k <= MaxBuffered =>
           Elements(Restored) = Elements(batch.samples) \cup Elements(buffer.samples)
  BY ElementsRestored
<1>8. LatestRestored \in Nat /\ LatestRestored <= Len(readings)
  BY <1>2, <1>3 DEF LatestRestored
<1>9. /\ buffer' \in [samples : Seq(Nat), latest : Nat]
      /\ buffer'.samples = Restored /\ buffer'.latest = LatestRestored
  BY <1>1, <1>7, <1>8
<1>10. Types'
  BY <1>1, <1>4, <1>5, <1>9 DEF Types
<1>11. Taken'
  <2>1. 0 <= Len(readings)
    BY DEF Types
  <2>2. Elements(buffer'.samples) \subseteq 1..Len(readings)
    BY <1>3, <1>7, <1>9
  <2> QED BY <1>1, <1>4, <1>5, <1>6, <1>8, <1>9, <2>1, <2>2 DEF Taken
<1>12. Closed'
  BY <1>5 DEF Closed
<1>13. Elements(batch.samples) \cup Elements(buffer.samples)
         \subseteq Elements(buffer'.samples) \cup lost'
  <2>1. CASE k > MaxBuffered
    <3>1. Restored = LastOf(batch.samples \o buffer.samples)
      <4>1. buffer.samples \in Seq(Nat)
        BY DEF Types
      <4>2. Len(batch.samples \o buffer.samples) = k
        BY <1>2, <4>1, ElementsConcat
      <4> QED BY <2>1, <4>2 DEF Restored
    <3> QED BY <1>1, <1>9, <2>1, <3>1
  <2>2. CASE ~(k > MaxBuffered)
    <3>1. k <= MaxBuffered
      <4>1. k \in Nat /\ MaxBuffered \in Nat
        BY RecorderAssumption DEF Types
      <4> HIDE DEF k
      <4> QED BY <2>2, <4>1
    <3> QED BY <1>7, <1>9, <3>1
  <2> QED BY <2>1, <2>2
<1>14. lost \subseteq lost'
  BY <1>1
<1>15. SamplesHeld'
  BY <1>1, <1>4, <1>6, <1>13, <1>14 DEF SamplesHeld
<1> QED BY <1>4, <1>10, <1>11, <1>12, <1>15

(* A restart, once the database is written. *)
LEMMA ForgetStep ==
  ASSUME RecorderInv, Forget(db'),
         db' \in [samples : SUBSET Nat, latest : Nat],
         db'.samples \subseteq 1..Len(readings),
         db'.latest <= Len(readings)
  PROVE  RecorderInv'
<1> USE DEF RecorderInv
<1>1. /\ readings' = readings /\ flying' = {} /\ kept' = kept
      /\ buffer' = Empty /\ batch' = NoBatch
      /\ kept \ db'.samples \subseteq lost'
  BY DEF Forget
<1>2. /\ buffer'.samples = <<>> /\ buffer'.latest = 0
      /\ buffer' \in [samples : Seq(Nat), latest : Nat]
      /\ batch'.samples = <<>> /\ batch'.latest = 0
      /\ batch' \in [samples : Seq(Nat), latest : Nat, open : BOOLEAN]
  BY <1>1 DEF Empty, NoBatch
<1>3. Elements(buffer'.samples) = {} /\ Elements(batch'.samples) = {}
  BY <1>2, ElementsEmpty
<1>4. Types'
  BY <1>1, <1>2 DEF Types
<1>5. Taken'
  <2>1. 0 <= Len(readings)
    BY DEF Types
  <2> QED BY <1>1, <1>2, <1>3, <2>1 DEF Taken
<1>6. Closed' /\ SamplesHeld'
  BY <1>1, <1>2 DEF Closed, SamplesHeld
<1> QED BY <1>4, <1>5, <1>6

LEMMA CrashStep ==
  ASSUME RecorderInv, Crash
  PROVE  RecorderInv' /\ Promise
<1>1. db' = db /\ Forget(db') /\ readings' = readings
  BY DEF Crash, Forget
<1>2. /\ db' \in [samples : SUBSET Nat, latest : Nat]
      /\ db'.samples \subseteq 1..Len(readings) /\ db'.latest <= Len(readings)
  BY <1>1 DEF RecorderInv, Types, Taken
<1>3. RecorderInv'
  BY <1>1, <1>2, ForgetStep
<1>4. Promise
  BY <1>1 DEF Promise
<1> QED BY <1>3, <1>4

LEMMA StopStep ==
  ASSUME RecorderInv, Stop
  PROVE  RecorderInv' /\ Promise
<1>1. db' = Written(buffer.samples, buffer.latest) /\ Forget(db') /\ readings' = readings
  BY DEF Stop, Forget
<1>2. /\ buffer.samples \in Seq(Nat) /\ buffer.latest \in Nat
      /\ Elements(buffer.samples) \subseteq 1..Len(readings) /\ buffer.latest <= Len(readings)
  BY DEF RecorderInv, Types, Taken
<1>3. /\ db' \in [samples : SUBSET Nat, latest : Nat]
      /\ db'.samples \subseteq 1..Len(readings) /\ db'.latest <= Len(readings)
      /\ Promise
  BY <1>1, <1>2, WriteStep
<1>4. RecorderInv'
  BY <1>1, <1>3, ForgetStep
<1> QED BY <1>3, <1>4

LEMMA RecorderStep == RecorderInv /\ [Next]_vars => RecorderInv' /\ Promise
<1> SUFFICES ASSUME RecorderInv, [Next]_vars PROVE RecorderInv' /\ Promise
  OBVIOUS
<1>1. ASSUME NEW value \in Values, Handle(value) PROVE RecorderInv' /\ Promise
  BY <1>1, HandleStep
<1>2. ASSUME NEW n \in flying, Store(n) PROVE RecorderInv' /\ Promise
  BY <1>2, StoreStep
<1>3. CASE StartFlush
  BY <1>3, StartFlushStep
<1>4. CASE EndFlush
  BY <1>4, EndFlushStep
<1>5. CASE FailFlush
  BY <1>5, FailFlushStep
<1>6. CASE Crash
  BY <1>6, CrashStep
<1>7. CASE Stop
  BY <1>7, StopStep
<1>8. CASE UNCHANGED vars \/ Replace
  <2>1. RecorderInv'
    <3>1. Types' /\ Closed'
      BY <1>8 DEF RecorderInv, Types, Closed, vars, mem, history, Replace
    <3>2. Taken' /\ SamplesHeld'
      BY <1>8 DEF RecorderInv, Taken, SamplesHeld, Elements, vars, mem, history, Replace
    <3> QED BY <3>1, <3>2 DEF RecorderInv
  <2>2. Promise
    BY <1>8 DEF Promise, vars, Replace
  <2> QED BY <2>1, <2>2
<1> QED BY <1>1, <1>2, <1>3, <1>4, <1>5, <1>6, <1>7, <1>8 DEF Next

-----------------------------------------------------------------------------
(* No sample that should_store kept disappears between the buffer, a flush *)
(* that fails or whose answer is lost, and the table sample, unless the    *)
(* limit of the buffer or a restart drops it (Recorder.flush).             *)
THEOREM SamplesHeldHolds == Spec => []SamplesHeld
<1>1. RecorderInv => SamplesHeld
  BY DEF RecorderInv
<1> QED BY InitInv, RecorderStep, <1>1, PTL DEF Spec

(* The recorder implements what PointValues promises of the database:      *)
(* values come from readings, point_latest never goes back and no sample   *)
(* is removed, whatever fails (handle, flush, write_samples).              *)
THEOREM RecorderImplements == Spec => Implements
<1>1. Init => Promised!Init
  BY DEF Init, Promised!Init
<1>2. RecorderInv /\ [Next]_vars => [Promised!Next]_Promised!vars
  BY RecorderStep DEF Promise, Promised!vars
<1> QED BY InitInv, RecorderStep, <1>1, <1>2, PTL DEF Spec, Implements, Promised!Spec

-----------------------------------------------------------------------------
(* What handlers hold: each fetched an object that was in the registry,    *)
(* later readings later objects, and an object knows a sample that was     *)
(* kept, or none.  A reading is judged once.                               *)
Last == stored[Len(stored)]

Objects ==
  /\ fetched \in Seq(Nat) /\ Len(fetched) = Len(readings)
  /\ stored \in Seq(Nat) /\ Len(stored) \in Nat \ {0}
  /\ \A n \in flying : fetched[n] \in 1..Len(stored)
  /\ \A m, n \in flying : m < n => fetched[m] <= fetched[n]
  /\ \A o \in 1..Len(stored) : stored[o] \in kept \cup {0}

Judging ==
  /\ judged \subseteq 1..Len(readings) /\ kept \subseteq judged
  /\ flying \cap judged = {} /\ crossed \in BOOLEAN /\ astray \in BOOLEAN

(* Unless astray, the registry's object knows the last sample, and so does *)
(* the object of every handler that is not overtaken.                      *)
Reference ==
  ~astray =>
    /\ Last # 0 => \A k \in kept : k <= Last
    /\ \A n \in flying : stored[fetched[n]] = Last \/ Overtaking(n) # {}

FaithInv == RecorderInv /\ Objects /\ Judging /\ Reference /\ HistoryFaithful

LEMMA FaithInit == Init => FaithInv
<1> SUFFICES ASSUME Init PROVE FaithInv
  OBVIOUS
<1>1. Objects
  BY DEF Init, Objects
<1>2. Judging /\ Reference /\ HistoryFaithful
  BY DEF Init, Judging, Reference, HistoryFaithful
<1> QED BY <1>1, <1>2, InitInv DEF FaithInv

LEMMA FaithTypes ==
  ASSUME FaithInv
  PROVE  /\ readings \in Seq(Int) /\ Len(readings) \in Nat
         /\ flying \subseteq 1..Len(readings) /\ judged \subseteq 1..Len(readings)
         /\ kept \subseteq judged /\ flying \cap judged = {}
         /\ MaxInterval \in Nat \ {0} /\ Deadband \in Nat
BY RecorderAssumption DEF FaithInv, RecorderInv, Types, Taken, Judging

LEMMA FaithHandle ==
  ASSUME FaithInv, NEW value \in Values, Handle(value)
  PROVE  Objects' /\ Judging' /\ Reference' /\ HistoryFaithful'
<1> DEFINE l == Len(readings)
           o == Len(stored)
<1>1. /\ readings \in Seq(Int) /\ value \in Int /\ l \in Nat
      /\ flying \subseteq 1..l /\ judged \subseteq 1..l /\ kept \subseteq judged
  BY RecorderAssumption, FaithTypes
<1>2. /\ readings' = Append(readings, value) /\ flying' = flying \cup {l + 1}
      /\ fetched' = Append(fetched, o)
      /\ UNCHANGED <<stored, judged, kept, crossed, astray, excused>>
  BY DEF Handle, history
<1>3. /\ Len(readings') = l + 1
      /\ \A n \in 1..l : readings'[n] = readings[n]
  BY <1>1, <1>2
<1>4. fetched \in Seq(Nat) /\ Len(fetched) = l /\ stored \in Seq(Nat) /\ o \in Nat \ {0}
  BY DEF FaithInv, Objects
<1>5. /\ fetched' \in Seq(Nat) /\ Len(fetched') = l + 1 /\ fetched'[l + 1] = o
      /\ \A n \in 1..l : fetched'[n] = fetched[n]
  BY <1>1, <1>2, <1>4
<1>6. \A n \in flying : n \in 1..l /\ fetched'[n] = fetched[n] /\ fetched[n] \in 1..o
  BY <1>1, <1>5 DEF FaithInv, Objects
<1>7. Objects'
  <2>1. \A n \in flying' : fetched'[n] \in 1..o
    BY <1>2, <1>4, <1>5, <1>6
  <2>2. \A m, n \in flying' : m < n => fetched'[m] <= fetched'[n]
    <3> SUFFICES ASSUME NEW m \in flying', NEW n \in flying', m < n
                 PROVE  fetched'[m] <= fetched'[n]
      OBVIOUS
    <3>1. m \in flying
      BY <1>1, <1>2
    <3>2. CASE n \in flying
      BY <1>6, <3>1, <3>2 DEF FaithInv, Objects
    <3>3. CASE n = l + 1
      BY <1>4, <1>5, <1>6, <3>1, <3>3
    <3> QED BY <1>2, <3>2, <3>3
  <2>3. \A i \in 1..o : stored[i] \in kept \cup {0}
    BY DEF FaithInv, Objects
  <2> QED BY <1>2, <1>3, <1>4, <1>5, <2>1, <2>2, <2>3 DEF Objects
<1>8. Judging'
  <2>1. l + 1 \notin judged /\ judged \subseteq 1..Len(readings')
    BY <1>1, <1>3
  <2> QED BY <1>2, <2>1 DEF FaithInv, Judging
<1>9. Reference'
  <2> SUFFICES ASSUME ~astray
               PROVE  /\ Last # 0 => \A k \in kept : k <= Last
                      /\ \A n \in flying' : stored[fetched'[n]] = Last \/ Overtaking(n) # {}
    BY <1>2 DEF Reference, Last, Overtaking
  <2>1. \A n \in flying : stored[fetched'[n]] = Last \/ Overtaking(n) # {}
    BY <1>6 DEF FaithInv, Reference
  <2>2. stored[fetched'[l + 1]] = Last
    BY <1>5 DEF Last
  <2> QED BY <1>2, <2>1, <2>2 DEF FaithInv, Reference
<1>10. HistoryFaithful'
  <2>1. \A m \in kept, n \in judged : Explains(m, n) => Explains(m, n)'
    BY <1>1, <1>3 DEF Explains, Near
  <2>2. \A m \in kept, n \in judged : LastBefore(m, n) => LastBefore(m, n)'
    BY <1>2 DEF LastBefore
  <2> QED BY <1>2, <2>1, <2>2 DEF FaithInv, HistoryFaithful
<1> QED BY <1>7, <1>8, <1>9, <1>10

(* The step that judges: on the object of the handler, whatever happened   *)
(* to the registry since.                                                  *)
LEMMA FaithStore ==
  ASSUME FaithInv, NEW n \in flying, Store(n)
  PROVE  Objects' /\ Judging' /\ Reference' /\ HistoryFaithful'
<1> DEFINE p == fetched[n]
           o == Len(stored)
<1>1. /\ readings \in Seq(Int) /\ Len(readings) \in Nat /\ flying \subseteq 1..Len(readings)
      /\ judged \subseteq 1..Len(readings) /\ kept \subseteq judged /\ n \notin judged
      /\ n \in 1..Len(readings) /\ readings[n] \in Int
      /\ MaxInterval \in Nat \ {0} /\ Deadband \in Nat
  <2>1. n \in 1..Len(readings) /\ readings \in Seq(Int)
    BY FaithTypes
  <2>2. readings[n] \in Int
    BY <2>1
  <2> QED BY <2>1, <2>2, FaithTypes
<1>2. /\ fetched \in Seq(Nat) /\ Len(fetched) = Len(readings)
      /\ stored \in Seq(Nat) /\ o \in Nat \ {0} /\ p \in 1..o
      /\ stored[p] \in kept \cup {0}
  BY DEF FaithInv, Objects
<1>3. /\ readings' = readings /\ flying' = flying \ {n} /\ judged' = judged \cup {n}
      /\ fetched' = [fetched EXCEPT ![n] = 0]
      /\ crossed' = (crossed \/ Overtaking(n) # {})
      /\ excused' = excused \cup Excused(n)
      /\ \/ /\ ShouldStore(n) /\ stored' = [stored EXCEPT ![p] = n] /\ kept' = kept \cup {n}
            /\ astray' = (Overtaking(n) # {} \/ p # o)
         \/ ~ShouldStore(n) /\ stored' = stored /\ kept' = kept /\ astray' = astray
  BY DEF Store
<1>4. /\ fetched' \in Seq(Nat) /\ Len(fetched') = Len(readings)
      /\ \A m \in flying' : m \in flying /\ m # n /\ fetched'[m] = fetched[m]
  BY <1>1, <1>2, <1>3
<1>5. /\ stored' \in Seq(Nat) /\ Len(stored') = o
      /\ \A i \in 1..o : stored'[i] = stored[i] \/ (ShouldStore(n) /\ i = p /\ stored'[i] = n)
      /\ ShouldStore(n) => stored'[p] = n
  <2>1. n \in Nat /\ p \in 1..Len(stored)
    BY <1>1, <1>2
  <2>2. CASE ShouldStore(n) /\ stored' = [stored EXCEPT ![p] = n]
    BY <1>2, <2>1, <2>2
  <2>3. CASE ~ShouldStore(n) /\ stored' = stored
    BY <1>2, <2>3
  <2> QED BY <1>3, <2>2, <2>3
<1>6. Overtaking(n) = {} => \A k \in judged : k < n /\ k \in Nat
  BY <1>1 DEF Overtaking
<1>7. Objects'
  <2>1. \A m \in flying' : fetched'[m] \in 1..o
    BY <1>4 DEF FaithInv, Objects
  <2>2. \A m, k \in flying' : m < k => fetched'[m] <= fetched'[k]
    BY <1>4 DEF FaithInv, Objects
  <2>3. \A i \in 1..o : stored[i] \in kept \cup {0}
    BY DEF FaithInv, Objects
  <2>4. \A i \in 1..o : stored'[i] \in kept' \cup {0}
    BY <1>3, <1>5, <2>3
  <2> QED BY <1>2, <1>3, <1>4, <1>5, <2>1, <2>2, <2>4 DEF Objects
<1>8. Judging'
  <2>1. judged' \subseteq 1..Len(readings') /\ kept' \subseteq judged' /\ flying' \cap judged' = {}
    BY <1>1, <1>3 DEF FaithInv, Judging
  <2>2. crossed \in BOOLEAN /\ astray \in BOOLEAN
    BY DEF FaithInv, Judging
  <2>3. crossed' \in BOOLEAN /\ astray' \in BOOLEAN
    BY <1>3, <2>2, Zenon
  <2> QED BY <2>1, <2>3 DEF Judging
<1>9. \A m : Overtaking(m) \subseteq Overtaking(m)'
  BY <1>3 DEF Overtaking
<1>10. Reference'
  <2> SUFFICES ASSUME ~astray'
               PROVE  /\ Last' # 0 => \A k \in kept' : k <= Last'
                      /\ \A m \in flying' : stored'[fetched'[m]] = Last' \/ Overtaking(m)' # {}
    BY DEF Reference
  <2>1. CASE ShouldStore(n)
    <3>1. Overtaking(n) = {} /\ p = o /\ kept' = kept \cup {n}
      BY <1>3, <2>1, Zenon
    <3>2. Last' = n
      BY <1>5, <2>1, <3>1 DEF Last
    <3>3. \A k \in kept' : k <= n
      BY <1>1, <1>6, <3>1
    <3>4. ASSUME NEW m \in flying'
          PROVE  stored'[fetched'[m]] = Last' \/ Overtaking(m)' # {}
      <4>1. m \in flying /\ m # n /\ fetched'[m] = fetched[m] /\ fetched[m] \in 1..o /\ m \in Nat
        <5>1. m \in flying /\ m # n /\ fetched'[m] = fetched[m]
          BY <1>4
        <5>2. m \in Nat
          BY <1>1, <5>1
        <5>3. fetched[m] \in 1..o
          BY <5>1 DEF FaithInv, Objects
        <5> QED BY <5>1, <5>2, <5>3
      <4>2. CASE fetched[m] = o
        BY <3>1, <3>2, <4>1, <4>2, <1>5, <2>1
      <4>3. CASE fetched[m] # o
        <5>1. ~(fetched[n] <= fetched[m])
          BY <1>2, <3>1, <4>1, <4>3
        <5>2. ~(n < m)
          BY <4>1, <5>1 DEF FaithInv, Objects
        <5>3. m < n
          BY <1>1, <4>1, <5>2
        <5> QED BY <1>3, <5>3 DEF Overtaking
      <4> QED BY <4>2, <4>3
    <3> QED BY <3>2, <3>3, <3>4
  <2>2. CASE ~ShouldStore(n)
    <3>1. stored' = stored /\ kept' = kept /\ ~astray
      BY <1>3, <2>2
    <3>2. Last' = Last
      BY <3>1 DEF Last
    <3>3. \A m \in flying : stored[fetched[m]] = Last \/ Overtaking(m) # {}
      BY <3>1 DEF FaithInv, Reference
    <3>4. \A m \in flying' : stored'[fetched'[m]] = Last' \/ Overtaking(m)' # {}
      BY <1>4, <1>9, <3>1, <3>2, <3>3
    <3>5. Last # 0 => \A k \in kept : k <= Last
      BY <3>1 DEF FaithInv, Reference
    <3> QED BY <3>1, <3>2, <3>4, <3>5
  <2> QED BY <2>1, <2>2
<1>11. HistoryFaithful'
  <2> SUFFICES ASSUME NEW j \in judged'
               PROVE  \E m \in kept' : Explains(m, j)' /\ (j \in excused' \/ LastBefore(m, j)')
    BY DEF HistoryFaithful
  <2>0. \A m, k : Explains(m, k)' <=> Explains(m, k)
    BY <1>3 DEF Explains, Near
  <2>1. CASE j # n
    <3>1. j \in judged /\ j \in Nat
      BY <1>1, <1>3, <2>1
    <3>2. PICK m \in kept : Explains(m, j) /\ (j \in excused \/ LastBefore(m, j))
      BY <3>1 DEF FaithInv, HistoryFaithful
    <3>3. j \in excused' \/ LastBefore(m, j)'
      <4>1. CASE j \in excused
        BY <1>3, <4>1
      <4>2. CASE LastBefore(m, j) /\ kept' = kept
        BY <4>2 DEF LastBefore
      <4>3. CASE LastBefore(m, j) /\ ShouldStore(n) /\ kept' = kept \cup {n} /\ j < n
        BY <1>1, <3>1, <4>3 DEF LastBefore
      <4>4. CASE ShouldStore(n) /\ ~(j < n)
        <5>1. j \in Overtaking(n)
          BY <1>1, <2>1, <3>1, <4>4 DEF Overtaking
        <5> QED BY <1>3, <4>4, <5>1 DEF Excused
      <4> QED BY <1>3, <3>2, <4>1, <4>2, <4>3, <4>4
    <3> QED BY <1>3, <2>0, <3>2, <3>3
  <2>2. CASE j = n /\ ShouldStore(n)
    <3>1. Explains(n, n)
      <4>1. readings[n] - readings[n] = 0 /\ 0 \in -Deadband..Deadband /\ n - n < MaxInterval
        BY <1>1
      <4> QED BY <4>1 DEF Explains, Near
    <3>2. n \in kept' /\ kept' = kept \cup {n}
      BY <1>3, <2>2
    <3>3. LastBefore(n, n)'
      BY <1>1, <3>2 DEF LastBefore
    <3> QED BY <2>0, <2>2, <3>1, <3>2, <3>3
  <2>3. CASE j = n /\ ~ShouldStore(n)
    <3>1. stored[p] # 0 /\ Near(stored[p], n) /\ ~(n - stored[p] >= MaxInterval)
      BY <2>3 DEF ShouldStore
    <3>2. PICK m \in kept : m = stored[p]
      BY <1>2, <3>1
    <3>3. m \in Nat /\ m \in kept' /\ kept' = kept
      BY <1>1, <1>3, <2>3
    <3>4. Explains(m, n)
      BY <1>1, <3>1, <3>2, <3>3 DEF Explains
    <3>5. CASE astray \/ Overtaking(n) # {}
      <4>1. n \in excused'
        BY <1>3, <3>5 DEF Excused
      <4> QED BY <2>0, <2>3, <3>3, <3>4, <4>1
    <3>6. CASE ~astray /\ Overtaking(n) = {}
      <4>1. m = Last /\ \A k \in kept : k <= Last
        BY <3>1, <3>2, <3>6 DEF FaithInv, Reference
      <4>2. m < n
        BY <1>1, <1>6, <3>2, <3>6
      <4>3. LastBefore(m, n)'
        BY <1>1, <3>3, <4>1, <4>2 DEF LastBefore
      <4> QED BY <2>0, <2>3, <3>3, <3>4, <4>3
    <3> QED BY <3>5, <3>6
  <2> QED BY <2>1, <2>2, <2>3
<1> QED BY <1>7, <1>8, <1>10, <1>11

(* The registry gets a copy: it knows what the object before it knew.      *)
LEMMA FaithReplace ==
  ASSUME FaithInv, Replace
  PROVE  Objects' /\ Judging' /\ Reference' /\ HistoryFaithful'
<1> DEFINE o == Len(stored)
<1>1. /\ stored' = Append(stored, Last)
      /\ UNCHANGED <<readings, flying, fetched, judged, kept, crossed, astray, excused>>
  BY DEF Replace, history, Last
<1>2. /\ stored \in Seq(Nat) /\ o \in Nat \ {0} /\ Last \in Nat /\ Last \in kept \cup {0}
      /\ \A n \in flying : fetched[n] \in 1..o
  BY DEF FaithInv, Objects, Last
<1>3. /\ stored' \in Seq(Nat) /\ Len(stored') = o + 1 /\ stored'[o + 1] = Last
      /\ \A i \in 1..o : stored'[i] = stored[i]
  BY <1>1, <1>2
<1>4. Last' = Last
  BY <1>3 DEF Last
<1>5. Objects'
  <2>1. \A i \in 1..(o + 1) : stored'[i] \in kept \cup {0}
    BY <1>2, <1>3 DEF FaithInv, Objects
  <2>2. \A n \in flying : fetched[n] \in 1..(o + 1)
    BY <1>2
  <2> QED BY <1>1, <1>2, <1>3, <2>1, <2>2 DEF FaithInv, Objects
<1>6. Judging' /\ HistoryFaithful'
  BY <1>1 DEF FaithInv, Judging, HistoryFaithful, Explains, Near, LastBefore
<1>7. Reference'
  <2>1. \A n \in flying : stored'[fetched[n]] = stored[fetched[n]]
    BY <1>2, <1>3
  <2>2. \A n : Overtaking(n)' = Overtaking(n)
    BY <1>1 DEF Overtaking
  <2> QED BY <1>1, <1>4, <2>1, <2>2 DEF FaithInv, Reference
<1> QED BY <1>5, <1>6, <1>7

(* A flush leaves all of this alone. *)
LEMMA FaithOther ==
  ASSUME FaithInv,
         UNCHANGED <<readings, flying, fetched, stored, judged, kept, crossed, astray, excused>>
  PROVE  Objects' /\ Judging' /\ Reference' /\ HistoryFaithful'
BY DEF FaithInv, Objects, Judging, Reference, Last, Overtaking, HistoryFaithful, Explains, Near,
       LastBefore

(* After a restart the registry knows no sample, and nothing is under way. *)
LEMMA FaithForget ==
  ASSUME FaithInv, NEW saved, Forget(saved)
  PROVE  Objects' /\ Judging' /\ Reference' /\ HistoryFaithful'
<1>1. /\ flying' = {} /\ stored' = <<0>> /\ astray' = FALSE
      /\ fetched' = [n \in DOMAIN fetched |-> 0]
      /\ UNCHANGED <<readings, judged, kept, crossed, excused>>
  BY DEF Forget
<1>2. fetched \in Seq(Nat) /\ Len(fetched) = Len(readings)
  BY DEF FaithInv, Objects
<1>3. fetched' \in Seq(Nat) /\ Len(fetched') = Len(readings)
  BY <1>1, <1>2
<1>4. stored' \in Seq(Nat) /\ Len(stored') = 1 /\ stored'[1] = 0
  BY <1>1
<1>5. Objects'
  BY <1>1, <1>3, <1>4 DEF Objects
<1>6. Judging' /\ HistoryFaithful'
  BY <1>1 DEF FaithInv, Judging, HistoryFaithful, Explains, Near, LastBefore
<1>7. Reference'
  BY <1>1, <1>4 DEF Reference, Last
<1> QED BY <1>5, <1>6, <1>7

LEMMA FaithStep == FaithInv /\ [Next]_vars => FaithInv'
<1> SUFFICES ASSUME FaithInv, [Next]_vars PROVE FaithInv'
  OBVIOUS
<1>1. RecorderInv'
  BY RecorderStep DEF FaithInv
<1>2. CASE StartFlush \/ EndFlush \/ FailFlush \/ UNCHANGED vars
  BY <1>1, <1>2, FaithOther
     DEF FaithInv, StartFlush, EndFlush, FailFlush, vars, mem, history
<1>3. CASE Crash \/ Stop
  BY <1>1, <1>3, FaithForget DEF FaithInv, Crash, Stop
<1> QED BY <1>1, <1>2, <1>3, FaithHandle, FaithStore, FaithReplace DEF FaithInv, Next

(* The samples kept give back every reading within the deadband and        *)
(* max_interval_s, and the last one before it does so unless the reading   *)
(* was excused: what a handler does out of order, or on an object that     *)
(* Registry.replace took out of the registry, does not outlast the next    *)
(* sample, over any number of replacements, failed flushes and restarts    *)
(* (handle, should_store, replace).                                        *)
THEOREM HistoryFaithfulHolds == Spec => []HistoryFaithful
<1>1. FaithInv => HistoryFaithful
  BY DEF FaithInv
<1> QED BY FaithInit, FaithStep, <1>1, PTL DEF Spec

-----------------------------------------------------------------------------
(* Where the last reading is: being published, in a buffer, in the batch   *)
(* of a flush or in point_latest, unless an older one was buffered after   *)
(* it or a restart lost it (handle, flush, write_samples).                 *)
LatestHeld ==
  LET n == Len(readings)
  IN n = 0 \/ crossed \/ n \in flying \cup lost \/ n \in {buffer.latest, batch.latest, db.latest}

(* What is held was judged, and the buffer is not older than the batch.    *)
Pending ==
  /\ {buffer.latest, batch.latest} \subseteq judged \cup {0}
  /\ ~batch.open => batch.latest = 0
  /\ ~crossed /\ buffer.latest > 0 => batch.latest <= buffer.latest

LatestInv == FaithInv /\ Pending /\ LatestHeld

LEMMA LatestTypes ==
  ASSUME LatestInv
  PROVE  /\ Len(readings) \in Nat
         /\ buffer.latest \in 0..Len(readings) /\ batch.latest \in 0..Len(readings)
         /\ db.latest \in 0..Len(readings) /\ flying \subseteq 1..Len(readings)
         /\ judged \subseteq 1..Len(readings) /\ crossed \in BOOLEAN
<1>1. Types /\ Taken /\ Judging
  BY DEF LatestInv, FaithInv, RecorderInv
<1>2. Len(readings) \in Nat /\ buffer.latest \in Nat /\ batch.latest \in Nat /\ db.latest \in Nat
  BY <1>1 DEF Types
<1> QED BY <1>1, <1>2 DEF Taken, Judging

LEMMA LatestInit == Init => LatestInv
<1> SUFFICES ASSUME Init PROVE Pending /\ LatestHeld
  BY FaithInit DEF LatestInv
<1>1. buffer.latest = 0 /\ batch.latest = 0 /\ Len(readings) = 0
  BY DEF Init, Empty, NoBatch
<1> QED BY <1>1 DEF Pending, LatestHeld

LEMMA LatestHandle ==
  ASSUME LatestInv, NEW value \in Values, Handle(value)
  PROVE  Pending' /\ LatestHeld'
<1>1. readings \in Seq(Int) /\ value \in Int
  BY RecorderAssumption DEF LatestInv, FaithInv, RecorderInv, Types
<1>2. Len(readings') = Len(readings) + 1 /\ flying' = flying \cup {Len(readings')}
  BY <1>1 DEF Handle
<1>3. UNCHANGED <<buffer, batch, judged, crossed>>
  BY DEF Handle, mem, history
<1> QED BY <1>2, <1>3 DEF LatestInv, Pending, LatestHeld

(* A reading that replaces the last one in the buffer is older: crossed.   *)
LEMMA LatestStore ==
  ASSUME LatestInv, NEW n \in flying, Store(n)
  PROVE  Pending' /\ LatestHeld'
<1> DEFINE l == Len(readings)
<1>1. /\ l \in Nat /\ buffer.latest \in 0..l /\ batch.latest \in 0..l /\ db.latest \in 0..l
      /\ judged \subseteq 1..l /\ n \in 1..l
  BY LatestTypes
<1>2. /\ readings' = readings /\ flying' = flying \ {n} /\ judged' = judged \cup {n}
      /\ crossed' = (crossed \/ Overtaking(n) # {})
      /\ UNCHANGED <<batch, db, lost>>
  BY DEF Store
<1>3. buffer'.latest = n
  <2>1. buffer \in [samples : Seq(Nat), latest : Nat]
    BY DEF LatestInv, FaithInv, RecorderInv, Types
  <2> QED BY <2>1 DEF Store
<1>4. ~crossed' => ~crossed /\ \A k \in judged : k <= n
  <2>1. ~crossed' => ~crossed /\ \A k \in judged : ~(k > n)
    <3>1. ~crossed' => ~crossed /\ Overtaking(n) = {}
      BY <1>2, Zenon
    <3> QED BY <3>1 DEF Overtaking
  <2> QED BY <1>1, <2>1
<1>5. buffer.latest \in judged \cup {0} /\ batch.latest \in judged \cup {0}
      /\ (~batch.open => batch.latest = 0)
  BY DEF LatestInv, Pending
<1>6. Pending'
  <2>1. {buffer'.latest, batch'.latest} \subseteq judged' \cup {0}
    BY <1>2, <1>3, <1>5
  <2>2. ~crossed' => batch'.latest <= buffer'.latest
    BY <1>1, <1>2, <1>3, <1>4, <1>5
  <2> QED BY <1>2, <1>5, <2>1, <2>2 DEF Pending
<1>7. LatestHeld'
  <2> SUFFICES ASSUME ~crossed', l # 0
               PROVE  l \in flying' \cup lost' \/ l \in {buffer'.latest, batch'.latest, db'.latest}
    BY <1>2 DEF LatestHeld
  <2>1. l \in flying \cup lost \/ l \in {buffer.latest, batch.latest, db.latest}
    BY <1>4 DEF LatestInv, LatestHeld
  <2>2. CASE l = n
    BY <1>3, <2>2
  <2>3. CASE l # n
    <3>1. l # buffer.latest
      BY <1>1, <1>4, <1>5, <2>3
    <3> QED BY <1>2, <2>1, <2>3, <3>1
  <2> QED BY <2>2, <2>3
<1> QED BY <1>6, <1>7

LEMMA LatestStartFlush ==
  ASSUME LatestInv, StartFlush
  PROVE  Pending' /\ LatestHeld'
<1>1. /\ batch.latest = 0 /\ buffer'.latest = 0 /\ batch'.latest = buffer.latest /\ batch'.open
      /\ UNCHANGED <<readings, flying, judged, crossed, lost, db>>
  BY DEF StartFlush, history, Empty, LatestInv, Pending
<1>2. Pending'
  BY <1>1 DEF LatestInv, Pending
<1>3. LatestHeld'
  BY <1>1 DEF LatestInv, LatestHeld
<1> QED BY <1>2, <1>3

(* A write of the last reading leaves point_latest with it.                *)
LEMMA LatestWrittenLast ==
  ASSUME LatestInv, NEW n \in 0..Len(readings)
  PROVE  /\ LatestWritten(n) \in 0..Len(readings) /\ LatestWritten(n) >= n
         /\ Len(readings) \in {n, db.latest} => LatestWritten(n) = Len(readings)
<1>1. Len(readings) \in Nat /\ db.latest \in 0..Len(readings)
  BY LatestTypes
<1> QED BY <1>1 DEF LatestWritten, Newest

LEMMA LatestEndFlush ==
  ASSUME LatestInv, EndFlush
  PROVE  Pending' /\ LatestHeld'
<1>1. /\ buffer' = buffer /\ batch'.latest = 0 /\ db'.latest = LatestWritten(batch.latest)
      /\ UNCHANGED <<readings, flying, judged, crossed, lost>>
  BY DEF EndFlush, mem, history, NoBatch, Written
<1>2. buffer.latest \in 0..Len(readings) /\ batch.latest \in 0..Len(readings)
  BY LatestTypes
<1>3. Len(readings) \in {batch.latest, db.latest} => db'.latest = Len(readings)
  BY <1>1, <1>2, LatestWrittenLast
<1>4. Pending'
  BY <1>1, <1>2 DEF LatestInv, Pending
<1>5. LatestHeld'
  BY <1>1, <1>3 DEF LatestInv, LatestHeld
<1> QED BY <1>4, <1>5

LEMMA LatestFailFlush ==
  ASSUME LatestInv, FailFlush
  PROVE  Pending' /\ LatestHeld'
<1>1. /\ batch'.latest = 0 /\ buffer'.latest = LatestRestored
      /\ db'.latest \in {db.latest, LatestWritten(batch.latest)}
      /\ UNCHANGED <<readings, flying, judged, crossed>> /\ lost \subseteq lost'
  <2>1. db' \in {db, Written(batch.samples, batch.latest)}
    BY DEF FailFlush
  <2>2. db'.latest \in {db.latest, LatestWritten(batch.latest)}
    BY <2>1 DEF Written
  <2> QED BY <2>2 DEF FailFlush, NoBatch
<1>2. /\ buffer.latest \in 0..Len(readings) /\ batch.latest \in 0..Len(readings)
      /\ Len(readings) \in Nat
  BY LatestTypes
<1>3. db.latest = Len(readings) => db'.latest = Len(readings)
  BY <1>1, <1>2, LatestWrittenLast
<1>4. Pending'
  <2>1. LatestRestored \in judged \cup {0} /\ LatestRestored \in Nat
    BY <1>2 DEF LatestRestored, LatestInv, Pending
  <2> QED BY <1>1, <2>1 DEF Pending
<1>5. LatestHeld'
  <2> SUFFICES ASSUME ~crossed, Len(readings) \in {buffer.latest, batch.latest}, Len(readings) # 0
               PROVE  LatestRestored = Len(readings)
    BY <1>1, <1>3 DEF LatestInv, LatestHeld
  <2>1. buffer.latest > 0 => batch.latest <= buffer.latest
    BY DEF LatestInv, Pending
  <2> QED BY <1>2, <2>1 DEF LatestRestored
<1> QED BY <1>4, <1>5

(* What a restart forgets of the last reading is counted as lost.          *)
LEMMA LatestForget ==
  ASSUME LatestInv, Forget(db'), db'.latest \in 0..Len(readings),
         db.latest = Len(readings) => db'.latest = Len(readings)
  PROVE  Pending' /\ LatestHeld'
<1>1. /\ buffer'.latest = 0 /\ batch'.latest = 0
      /\ lost \cup flying \cup {n \in {buffer.latest, batch.latest} : n > db'.latest} \subseteq lost'
      /\ UNCHANGED <<readings, judged, crossed>>
  BY DEF Forget, Empty, NoBatch
<1>2. Len(readings) \in Nat
  BY LatestTypes
<1>3. Len(readings) \in {buffer.latest, batch.latest} =>
        Len(readings) \in lost' \/ Len(readings) = db'.latest
  BY <1>1, <1>2
<1>4. Pending'
  BY <1>1 DEF Pending
<1>5. LatestHeld'
  BY <1>1, <1>3 DEF LatestInv, LatestHeld
<1> QED BY <1>4, <1>5

LEMMA LatestStep == LatestInv /\ [Next]_vars => LatestInv'
<1> SUFFICES ASSUME LatestInv, [Next]_vars PROVE Pending' /\ LatestHeld'
  BY FaithStep DEF LatestInv
<1>1. CASE Crash
  <2>1. Forget(db') /\ db'.latest = db.latest
    BY <1>1 DEF Crash, Forget
  <2>2. db.latest \in 0..Len(readings)
    BY LatestTypes
  <2> QED BY <2>1, <2>2, LatestForget
<1>2. CASE Stop
  <2>1. Forget(db') /\ db'.latest = LatestWritten(buffer.latest)
    BY <1>2 DEF Stop, Forget, Written
  <2>2. buffer.latest \in 0..Len(readings)
    BY LatestTypes
  <2> QED BY <2>1, <2>2, LatestForget, LatestWrittenLast
<1>3. CASE UNCHANGED vars \/ Replace
  BY <1>3 DEF LatestInv, Pending, LatestHeld, vars, mem, history, Replace
<1> QED BY <1>1, <1>2, <1>3, LatestHandle, LatestStore, LatestStartFlush, LatestEndFlush,
           LatestFailFlush DEF Next

(* The last reading of a point is never forgotten on its way to            *)
(* point_latest: through the buffer, a flush that fails or whose answer is *)
(* lost and the rows that come meanwhile, unless readings were judged out  *)
(* of order or a restart lost it (handle, flush and its setdefault).       *)
THEOREM LatestHeldHolds == Spec => []LatestHeld
<1>1. LatestInv => LatestHeld
  BY DEF LatestInv
<1> QED BY LatestInit, LatestStep, <1>1, PTL DEF Spec

(* Once nothing is being published, buffered or flushed, the database is   *)
(* what LatestSettles awaits: the safety part of it, whatever failed       *)
(* before (flush, write_samples).                                          *)
Quiet == flying = {} /\ buffer = Empty /\ ~batch.open

QuietSettled == Quiet => Settled

THEOREM QuietSettledHolds == Spec => []QuietSettled
<1>1. LatestInv => QuietSettled
  <2> SUFFICES ASSUME LatestInv, Quiet PROVE Settled
    BY DEF QuietSettled
  <2>1. /\ buffer.samples = <<>> /\ batch.samples = <<>>
        /\ buffer.latest = 0 /\ batch.latest = 0
    BY DEF Quiet, Empty, LatestInv, FaithInv, RecorderInv, Closed, Pending
  <2>2. Elements(buffer.samples) = {} /\ Elements(batch.samples) = {}
    BY <2>1, ElementsEmpty
  <2>3. kept \ lost \subseteq db.samples
    BY <2>2 DEF LatestInv, FaithInv, RecorderInv, SamplesHeld
  <2>4. db.latest \in 0..Len(readings) /\ Len(readings) \in Nat
    BY LatestTypes
  <2>5. crossed \/ Len(readings) \in lost \/ db.latest = Len(readings)
    BY <2>1, <2>4 DEF Quiet, LatestInv, LatestHeld
  <2> QED BY <2>3, <2>5 DEF Settled
<1> QED BY LatestInit, LatestStep, <1>1, PTL DEF Spec

=============================================================================
