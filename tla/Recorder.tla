------------------------------- MODULE Recorder -------------------------------
(***************************************************************************)
(* The recorder and one point (backend/app/collector/recorder.py with      *)
(* DbStore.write_samples and the stop of main.py).  handle publishes a     *)
(* reading, an await, then judges and buffers it: readings of a poll, of a *)
(* COV notification and after a write are in it together.  Meanwhile       *)
(* Registry.replace may put a copy in the place of the PointState that     *)
(* handle fetched, and works on.  A reading is its rank in the order of    *)
(* timestamps; its value is readings[rank].                                *)
(***************************************************************************)
EXTENDS Integers, Sequences, FiniteSets

CONSTANTS
  Values,        \* the values of readings; another status, or no value, is
                 \* a value further than Deadband from the others
  Deadband,      \* deadband
  MaxInterval,   \* max_interval_s
  MaxBuffered,   \* MAX_BUFFERED_ROWS
  MaxReadings,   \* bound on the readings
  MaxFlying,     \* bound on the handlers that publish at the same time
  MaxReplaced,   \* bound on the objects replaced since a start
  MaxEvents      \* bound on failed transactions, crashes, stops and discoveries

ASSUME RecorderAssumption ==
  /\ Values \subseteq Int /\ Deadband \in Nat
  /\ MaxInterval \in Nat \ {0} /\ MaxBuffered \in Nat \ {0}
  /\ MaxReadings \in Nat /\ MaxFlying \in Nat /\ MaxReplaced \in Nat /\ MaxEvents \in Nat

VARIABLES
  readings,   \* the values read so far
  flying,     \* readings being published
  fetched,    \* the number of the PointState that the handler of each of them
              \* fetched, 0 for other readings
  stored,     \* stored_* of each PointState, the last one in the registry:
              \* the last reading kept, 0 if none
  buffer,     \* _samples and _latest: [samples, latest]
  batch,      \* what the flush under way writes: [samples, latest, open]
  db,         \* tables sample and point_latest: [samples, latest]
  events,
  (* history *)
  judged,     \* readings that went through should_store
  kept,       \* those it kept
  lost,       \* readings dropped by the limit, a crash or a stop
  crossed,    \* has an older reading been buffered after a newer one?
  astray,     \* was the last sample kept out of order or on a replaced object?
  excused     \* readings that crossed, or were judged while astray

mem == <<fetched, stored, buffer>>
history == <<judged, kept, lost, crossed, astray, excused>>
vars == <<readings, flying, mem, batch, db, events, history>>

Empty == [samples |-> <<>>, latest |-> 0]
NoBatch == [samples |-> <<>>, latest |-> 0, open |-> FALSE]
Elements(s) == {s[i] : i \in 1..Len(s)}
Newest(m, n) == IF m >= n THEN m ELSE n

Init ==
  /\ readings = <<>>
  /\ flying = {}
  /\ fetched = <<>>
  /\ stored = <<0>>
  /\ buffer = Empty
  /\ batch = NoBatch
  /\ db = [samples |-> {}, latest |-> 0]
  /\ events = 0
  /\ judged = {} /\ kept = {} /\ lost = {}
  /\ crossed = FALSE /\ astray = FALSE /\ excused = {}

Event == events < MaxEvents /\ events' = events + 1

(* handle, up to the publication (a failure of Redis is only logged).      *)
Handle(value) ==
  /\ Len(readings) < MaxReadings /\ Cardinality(flying) < MaxFlying
  /\ readings' = Append(readings, value)
  /\ flying' = flying \cup {Len(readings) + 1}
  /\ fetched' = Append(fetched, Len(stored))
  /\ UNCHANGED <<stored, buffer, batch, db, events, history>>

(* Registry.replace copies stored_* of the object it replaces (discovery). *)
Replace ==
  /\ Len(stored) <= MaxReplaced /\ Event
  /\ stored' = Append(stored, stored[Len(stored)])
  /\ UNCHANGED <<readings, flying, fetched, buffer, batch, db, history>>

(* Two readings within the deadband. *)
Near(m, n) == readings[m] - readings[n] \in -Deadband..Deadband

(* Mutant of ShouldStore: compared with the reading before. *)
ShouldStoreStep(n) ==
  \/ stored[fetched[n]] = 0
  \/ n > 1 /\ ~Near(n - 1, n)
  \/ n - stored[fetched[n]] >= MaxInterval

ShouldStore(n) ==
  LET last == stored[fetched[n]]
  IN last = 0 \/ ~Near(last, n) \/ n - last >= MaxInterval

(* Readings newer than n that were judged before it. *)
Overtaking(n) == {m \in judged : m > n}

Excused(n) ==
  (IF astray \/ Overtaking(n) # {} THEN {n} ELSE {})
    \cup (IF ShouldStore(n) THEN Overtaking(n) ELSE {})

(* handle, after the publication, on the object it fetched before. *)
Store(n) ==
  /\ n \in flying
  /\ flying' = flying \ {n}
  /\ fetched' = [fetched EXCEPT ![n] = 0]
  /\ IF ShouldStore(n)
     THEN /\ stored' = [stored EXCEPT ![fetched[n]] = n]
          /\ buffer' = [samples |-> Append(buffer.samples, n), latest |-> n]
          /\ kept' = kept \cup {n}
          /\ astray' = (Overtaking(n) # {} \/ fetched[n] # Len(stored))
     ELSE /\ buffer' = [buffer EXCEPT !.latest = n]
          /\ UNCHANGED <<stored, kept, astray>>
  /\ excused' = excused \cup Excused(n)
  /\ judged' = judged \cup {n}
  /\ crossed' = (crossed \/ Overtaking(n) # {})
  /\ UNCHANGED <<readings, batch, db, events, lost>>

-----------------------------------------------------------------------------
(* flush: the buffers are taken under the lock. *)
StartFlush ==
  /\ ~batch.open
  /\ buffer /= Empty
  /\ batch' = [samples |-> buffer.samples, latest |-> buffer.latest, open |-> TRUE]
  /\ buffer' = Empty
  /\ UNCHANGED <<readings, flying, fetched, stored, db, events, history>>

(* Mutant of LatestWritten: the row is overwritten. *)
LatestWrittenAlways(n) == IF n > 0 THEN n ELSE db.latest

(* on_conflict_do_update where the row is not newer. *)
LatestWritten(n) == Newest(db.latest, n)

(* write_samples, in one transaction. *)
Written(samples, n) ==
  [samples |-> db.samples \cup Elements(samples), latest |-> LatestWritten(n)]

EndFlush ==
  /\ batch.open
  /\ db' = Written(batch.samples, batch.latest)
  /\ batch' = NoBatch
  /\ UNCHANGED <<readings, flying, mem, events, history>>

LastOf(s) == SubSeq(s, Len(s) - MaxBuffered + 1, Len(s))

(* Mutant of Restored: what came during the flush replaces the batch. *)
RestoredLost == IF buffer.samples = <<>> THEN batch.samples ELSE buffer.samples

(* The samples of the failed batch go back before the others; the oldest   *)
(* are given up beyond MaxBuffered.                                        *)
Restored ==
  LET all == batch.samples \o buffer.samples
  IN IF Len(all) > MaxBuffered THEN LastOf(all) ELSE all

(* Mutant of LatestRestored: the row of the failed batch comes back. *)
LatestRestoredOld == batch.latest

(* _latest.setdefault *)
LatestRestored == IF buffer.latest > 0 THEN buffer.latest ELSE batch.latest

(* The transaction fails, or only the answer to its commit is lost. *)
FailFlush ==
  /\ batch.open /\ Event
  /\ db' \in {db, Written(batch.samples, batch.latest)}
  /\ buffer' = [samples |-> Restored, latest |-> LatestRestored]
  /\ batch' = NoBatch
  /\ lost' = IF Len(batch.samples) + Len(buffer.samples) > MaxBuffered
             THEN lost \cup ((Elements(batch.samples) \cup Elements(buffer.samples))
                               \ Elements(LastOf(batch.samples \o buffer.samples)))
             ELSE lost
  /\ UNCHANGED <<readings, flying, fetched, stored, judged, kept, crossed, astray, excused>>

-----------------------------------------------------------------------------
(* The service restarts with nothing in memory. *)
Forget(saved) ==
  /\ flying' = {}
  /\ fetched' = [n \in DOMAIN fetched |-> 0]
  /\ stored' = <<0>>
  /\ buffer' = Empty
  /\ batch' = NoBatch
  /\ lost' = lost \cup flying \cup (kept \ saved.samples)
              \cup {n \in {buffer.latest, batch.latest} : n > saved.latest}
  /\ astray' = FALSE
  /\ UNCHANGED <<readings, judged, kept, crossed, excused>>

Crash ==
  /\ Event
  /\ UNCHANGED db
  /\ Forget(db)

(* A stop cancels the flush under way: the transaction is rolled back, and *)
(* its batch is not put back (CancelledError is not an Exception); then a  *)
(* last flush.                                                             *)
Stop ==
  /\ Event
  /\ db' = Written(buffer.samples, buffer.latest)
  /\ Forget(db')

Next ==
  \/ \E value \in Values : Handle(value)
  \/ \E n \in flying : Store(n)
  \/ Replace
  \/ StartFlush \/ EndFlush \/ FailFlush
  \/ Crash \/ Stop

Spec == Init /\ [][Next]_vars

(* Every handler resumes, run() flushes every flush_s. *)
Fairness ==
  /\ WF_vars(\E n \in flying : Store(n))
  /\ WF_vars(StartFlush) /\ WF_vars(EndFlush)

FairSpec == Spec /\ Fairness

-----------------------------------------------------------------------------
(* The recorder keeps what the database promises of a point: see           *)
(* PointValues (handle, flush, write_samples).                             *)
Promised == INSTANCE PointValues WITH
  taken <- Len(readings), latest <- db.latest, samples <- db.samples

Implements == Promised!Spec

(* The history gives back every reading: a sample within the deadband and  *)
(* less than max_interval_s before it, and the last one before it, over    *)
(* failed flushes, restarts and replacements of the registry.  A reading   *)
(* kept out of order, or on an object that was replaced, leaves the next   *)
(* ones judged against another sample than the last (excused), until one   *)
(* of them is kept (handle, should_store, Registry.replace).               *)
Explains(m, n) == Near(m, n) /\ n - m < MaxInterval
LastBefore(m, n) == m <= n /\ \A k \in kept : k <= n => k <= m

HistoryFaithful ==
  \A n \in judged : \E m \in kept :
    Explains(m, n) /\ (n \in excused \/ LastBefore(m, n))

(* A sample that was kept is in the database, in the buffer or in the      *)
(* batch, unless a restart or the limit of the buffer lost it (flush).     *)
SamplesHeld ==
  kept \subseteq db.samples \cup Elements(buffer.samples) \cup Elements(batch.samples) \cup lost

(* Once the flushes succeed, the samples that were not lost are in the     *)
(* database and point_latest has the last reading, unless an older one was *)
(* buffered after it or a restart lost it (flush, write_samples).          *)
Settled ==
  /\ kept \ lost \subseteq db.samples
  /\ crossed \/ Len(readings) \in lost \/ db.latest = Len(readings)

LatestSettles == <>[]Settled
=============================================================================
