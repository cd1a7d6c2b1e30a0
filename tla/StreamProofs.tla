----------------------------- MODULE StreamProofs -----------------------------
(***************************************************************************)
(* What the consumer group guarantees for any number of readings, any      *)
(* batch size and any trimming of the stream: readings are scored in order *)
(* and once, and none is acknowledged unhandled.  Then what the Detection  *)
(* Agent makes of the readings: the loop over the sorted buffer yields the *)
(* documented chain, and the buffer holds all that chain needs.            *)
(***************************************************************************)
EXTENDS SensorStream, FiniteSetTheorems, TLAPS

-----------------------------------------------------------------------------
(* The inductive invariant *)

StreamTypes ==
  /\ now \in 0..MaxTime
  /\ entries \in Seq(Reading)
  /\ first \in Nat \ {0}
  /\ delivered \in 0..Len(entries)
  /\ batch \in Seq(1..delivered)
  /\ scored \in Seq(1..delivered)
  /\ step \in {"read", "score", "persist", "ack"}
  /\ step # "read" => batch # <<>>

\* The batch holds consecutive work: entries in stream order.
BatchInOrder == \A m, n \in 1..Len(batch) : m < n => batch[m] < batch[n]

\* What is in hand comes after all that was scored; only the head may itself
\* be scored, and is when its incident is being persisted.
InHandIsAhead ==
  /\ step = "score" => \A m \in 1..Len(scored) : scored[m] < batch[1]
  /\ step \in {"persist", "ack"} => \A m \in 1..Len(scored) : scored[m] <= batch[1]

\* What is about to be acknowledged was scored or given up.
HeadIsHandled ==
  /\ step = "persist" => batch[1] \in ToSet(scored)
  /\ step = "ack" => batch[1] \in ToSet(scored) \cup dropped

StreamInv ==
  /\ StreamTypes
  /\ BatchInOrder
  /\ InHandIsAhead
  /\ HeadIsHandled
  /\ ScoredOnceInOrder
  /\ NothingAcknowledgedUnhandled

-----------------------------------------------------------------------------
(* Lemmas on sequences and on what is read *)

\* Appending adds one element to the set of a sequence.
LEMMA ToSetAppend ==
  ASSUME NEW S, NEW s \in Seq(S), NEW x \in S
  PROVE  ToSet(Append(s, x)) = ToSet(s) \cup {x}
<1>1. /\ Len(Append(s, x)) = Len(s) + 1
      /\ Append(s, x)[Len(s) + 1] = x
      /\ \A i \in 1..Len(s) : Append(s, x)[i] = s[i]
  OBVIOUS
<1>2. DOMAIN Append(s, x) = 1..(Len(s) + 1) /\ DOMAIN s = 1..Len(s)
  OBVIOUS
<1> QED
  BY <1>1, <1>2, SMT DEF ToSet

\* What XREADGROUP takes is an interval of the stream that starts past the
\* group's cursor and past what was trimmed (consume_forever, ">").
LEMMA TakenIsAnInterval ==
  ASSUME StreamAssumption, StreamTypes, unread_from <= Len(entries)
  PROVE  \E n \in Nat \ {0} :
           /\ n <= ReadCount
           /\ unread_from \in Nat \ {0}
           /\ unread_from > delivered
           /\ unread_from >= first
           /\ unread_from + n - 1 <= Len(entries)
           /\ taken = [k \in 1..n |-> unread_from + k - 1]
           /\ taken \in Seq(1..(unread_from + n - 1))
           /\ Len(taken) = n
           /\ Last(taken) = unread_from + n - 1
           /\ unread_from = first \/ unread_from = delivered + 1
<1> DEFINE n == IF Len(entries) - unread_from + 1 < ReadCount
                  THEN Len(entries) - unread_from + 1 ELSE ReadCount
<1>1. Len(entries) \in Nat /\ delivered \in Nat /\ first \in Nat \ {0} /\ ReadCount \in Nat \ {0}
  BY DEF StreamTypes, StreamAssumption
<1>2. /\ unread_from \in Nat \ {0} /\ unread_from > delivered /\ unread_from >= first
      /\ unread_from = first \/ unread_from = delivered + 1
  BY <1>1 DEF unread_from
<1>3. n \in Nat \ {0} /\ n <= ReadCount /\ unread_from + n - 1 <= Len(entries)
  BY <1>1, <1>2
<1>4. taken = [k \in 1..n |-> unread_from + k - 1]
  BY DEF taken
<1> HIDE DEF n
<1>5. taken \in Seq(1..(unread_from + n - 1)) /\ Len(taken) = n
  BY <1>2, <1>3, <1>4
<1>6. Last(taken) = unread_from + n - 1
  BY <1>2, <1>3, <1>4, <1>5 DEF Last
<1> QED
  BY <1>2, <1>3, <1>4, <1>5, <1>6

-----------------------------------------------------------------------------
(* Every step preserves the invariant *)

\* Nothing has been added, read or scored at the start.
LEMMA StreamInit ==
  ASSUME StreamAssumption, Init
  PROVE  StreamInv
<1>1. StreamTypes
  BY DEF Init, StreamTypes, StreamAssumption
<1>2. BatchInOrder /\ InHandIsAhead /\ HeadIsHandled /\ ScoredOnceInOrder
  BY DEF Init, BatchInOrder, InHandIsAhead, HeadIsHandled, ScoredOnceInOrder
<1>3. NothingAcknowledgedUnhandled
  BY DEF Init, NothingAcknowledgedUnhandled
<1> QED
  BY <1>1, <1>2, <1>3 DEF StreamInv

\* The producer touches only the two ends of the stream.
LEMMA ProducerKeepsStreamInv ==
  ASSUME StreamAssumption, StreamInv, emit_all_sensors
  PROVE  StreamInv'
<1>1. PICK t \in {u \in 0..now : now - u <= EmitDelay}, bad \in SUBSET Sensor :
        entries' = entries \o [k \in 1..Len(Registry) |->
          [sensor |-> Registry[k], at |-> t, anomalous |-> Registry[k] \in bad]]
  BY DEF emit_all_sensors
<1> DEFINE new == [k \in 1..Len(Registry) |->
          [sensor |-> Registry[k], at |-> t, anomalous |-> Registry[k] \in bad]]
<1>2. Len(Registry) \in Nat /\ \A k \in 1..Len(Registry) : Registry[k] \in Sensor
  BY DEF StreamAssumption
<1>3. t \in 0..MaxTime
  BY <1>1 DEF StreamInv, StreamTypes, StreamAssumption
<1>4. new \in Seq(Reading) /\ Len(new) \in Nat
  BY <1>2, <1>3 DEF Reading
<1> HIDE DEF new
<1>5. entries' \in Seq(Reading) /\ Len(entries') \in Nat /\ Len(entries') >= Len(entries)
  BY <1>1, <1>4 DEF StreamInv, StreamTypes, new
<1>6. first' \in Nat \ {0} /\ first' >= first
  BY <1>2 DEF emit_all_sensors, StreamInv, StreamTypes
<1>7. UNCHANGED <<now, delivered, pel, batch, step, scored, dropped>>
  BY DEF emit_all_sensors
<1>8. StreamTypes'
  BY <1>5, <1>6, <1>7 DEF StreamInv, StreamTypes
<1>9. NothingAcknowledgedUnhandled'
  BY <1>6, <1>7 DEF StreamInv, StreamTypes, NothingAcknowledgedUnhandled
<1>10. (BatchInOrder /\ InHandIsAhead /\ HeadIsHandled /\ ScoredOnceInOrder)'
  BY <1>7 DEF StreamInv, BatchInOrder, InHandIsAhead, HeadIsHandled, ScoredOnceInOrder
<1> QED
  BY <1>8, <1>9, <1>10 DEF StreamInv

\* Serving the group moves the cursor over an interval that becomes pending.
LEMMA ServingKeepsHands ==
  ASSUME StreamAssumption, StreamInv, serve_group,
         UNCHANGED <<entries, first, scored, dropped>>
  PROVE  /\ delivered' \in 0..Len(entries)
         /\ delivered' >= delivered
         /\ taken \in Seq(1..delivered')
         /\ taken # <<>>
         /\ \A m, n \in 1..Len(taken) : m < n => taken[m] < taken[n]
         /\ \A m \in 1..Len(taken) : taken[m] > delivered
         /\ NothingAcknowledgedUnhandled'
<1>1. unread_from <= Len(entries) /\ StreamTypes
  BY DEF serve_group, StreamInv
<1>2. PICK n \in Nat \ {0} :
           /\ n <= ReadCount
           /\ unread_from \in Nat \ {0}
           /\ unread_from > delivered
           /\ unread_from >= first
           /\ unread_from + n - 1 <= Len(entries)
           /\ taken = [k \in 1..n |-> unread_from + k - 1]
           /\ taken \in Seq(1..(unread_from + n - 1))
           /\ Len(taken) = n
           /\ Last(taken) = unread_from + n - 1
           /\ unread_from = first \/ unread_from = delivered + 1
  BY <1>1, TakenIsAnInterval
<1>3. delivered' = unread_from + n - 1 /\ pel' = pel \cup ToSet(taken)
  BY <1>2 DEF serve_group
<1>4. ToSet(taken) = unread_from..delivered'
  <2>1. DOMAIN taken = 1..n
    BY <1>2
  <2>2. \A i \in unread_from..delivered' : i - unread_from + 1 \in 1..n /\ taken[i - unread_from + 1] = i
    BY <1>2, <1>3
  <2>3. \A k \in 1..n : taken[k] \in unread_from..delivered'
    BY <1>2, <1>3
  <2> QED
    BY <2>1, <2>2, <2>3 DEF ToSet
<1>5. NothingAcknowledgedUnhandled'
  <2> SUFFICES ASSUME NEW i \in (first..delivered)'
               PROVE  i \in (pel \cup ToSet(scored) \cup dropped)'
    BY DEF NothingAcknowledgedUnhandled
  <2>1. CASE i \in first..delivered
    BY <2>1, <1>3 DEF StreamInv, NothingAcknowledgedUnhandled
  <2>2. CASE i \in unread_from..delivered'
    BY <2>2, <1>3, <1>4
  <2>3. delivered \in Nat /\ first \in Nat
    BY <1>1 DEF StreamTypes
  <2> QED
    BY <2>1, <2>2, <2>3, <1>2, <1>3
<1>6. delivered \in Nat /\ Len(entries) \in Nat
  BY <1>1 DEF StreamTypes
<1> QED
  BY <1>2, <1>3, <1>5, <1>6

\* Reading a batch: everything in it is past what was scored.
LEMMA ReadKeepsStreamInv ==
  ASSUME StreamAssumption, StreamInv, xreadgroup
  PROVE  StreamInv'
<1>1. UNCHANGED <<now, entries, first, scored, dropped>> /\ batch' = taken /\ step' = "score"
  BY DEF xreadgroup
<1>2. /\ delivered' \in 0..Len(entries)
      /\ delivered' >= delivered
      /\ taken \in Seq(1..delivered')
      /\ taken # <<>>
      /\ \A m, n \in 1..Len(taken) : m < n => taken[m] < taken[n]
      /\ \A m \in 1..Len(taken) : taken[m] > delivered
      /\ NothingAcknowledgedUnhandled'
  BY <1>1, ServingKeepsHands DEF xreadgroup
<1>3. delivered \in Nat /\ scored \in Seq(1..delivered) /\ Len(taken) >= 1
  BY <1>2 DEF StreamInv, StreamTypes
<1>4. scored \in Seq(1..delivered')
  BY <1>2, <1>3
<1>5. StreamTypes'
  BY <1>1, <1>2, <1>4 DEF StreamInv, StreamTypes
<1>6. InHandIsAhead'
  BY <1>1, <1>2, <1>3 DEF InHandIsAhead
<1>7. (BatchInOrder /\ HeadIsHandled /\ ScoredOnceInOrder)'
  BY <1>1, <1>2 DEF StreamInv, BatchInOrder, HeadIsHandled, ScoredOnceInOrder
<1> QED
  BY <1>2, <1>5, <1>6, <1>7 DEF StreamInv

\* A lost answer leaves entries pending that no one holds.
LEMMA LostReadKeepsStreamInv ==
  ASSUME StreamAssumption, StreamInv, xreadgroup_fails
  PROVE  StreamInv'
<1>1. UNCHANGED <<now, entries, first, batch, step, scored, dropped>>
  BY DEF xreadgroup_fails
<1>2. delivered' \in 0..Len(entries) /\ delivered' >= delivered /\ NothingAcknowledgedUnhandled'
  BY <1>1, ServingKeepsHands DEF xreadgroup_fails
<1>3. delivered \in Nat /\ scored \in Seq(1..delivered) /\ batch \in Seq(1..delivered)
  BY DEF StreamInv, StreamTypes
<1>4. scored \in Seq(1..delivered') /\ batch \in Seq(1..delivered')
  BY <1>2, <1>3
<1>5. StreamTypes'
  BY <1>1, <1>2, <1>4 DEF StreamInv, StreamTypes
<1>6. (BatchInOrder /\ InHandIsAhead /\ HeadIsHandled /\ ScoredOnceInOrder)'
  BY <1>1 DEF StreamInv, BatchInOrder, InHandIsAhead, HeadIsHandled, ScoredOnceInOrder
<1> QED
  BY <1>2, <1>5, <1>6 DEF StreamInv

\* Scoring appends the head, which is past everything scored so far.
LEMMA ScoringKeepsStreamInv ==
  ASSUME StreamInv, process_reading
  PROVE  StreamInv'
<1>1. /\ UNCHANGED <<now, entries, first, delivered, pel, batch, dropped>>
      /\ step = "score" /\ step' \in {"persist", "ack"}
      /\ scored' = Append(scored, Head(batch))
  BY DEF process_reading, transportVars
<1>2. StreamTypes /\ batch # <<>>
  BY <1>1 DEF StreamInv, StreamTypes
<1>3. /\ Head(batch) = batch[1] /\ batch[1] \in 1..delivered /\ delivered \in Nat
      /\ scored \in Seq(1..delivered)
  BY <1>2 DEF StreamTypes
<1>4. /\ scored' \in Seq(1..delivered)
      /\ Len(scored') = Len(scored) + 1
      /\ scored'[Len(scored) + 1] = batch[1]
      /\ \A m \in 1..Len(scored) : scored'[m] = scored[m]
      /\ Len(scored) \in Nat
  BY <1>1, <1>3
<1>5. ToSet(scored') = ToSet(scored) \cup {batch[1]}
  BY <1>1, <1>3, ToSetAppend
<1>6. \A m \in 1..Len(scored) : scored[m] < batch[1]
  BY <1>1 DEF StreamInv, InHandIsAhead
<1>7. StreamTypes'
  BY <1>1, <1>2, <1>4 DEF StreamTypes
<1>8. (BatchInOrder /\ HeadIsHandled)'
  <2>1. BatchInOrder'
    BY <1>1 DEF StreamInv, BatchInOrder
  <2>2. batch'[1] \in ToSet(scored)'
    BY <1>1, <1>5
  <2> QED
    BY <2>1, <2>2 DEF HeadIsHandled
<1>9. \A m \in 1..Len(scored) : scored[m] \in Nat
  BY <1>3
<1>10. InHandIsAhead'
  BY <1>1, <1>3, <1>4, <1>6, <1>9 DEF InHandIsAhead
<1>11. ScoredOnceInOrder'
  <2> SUFFICES ASSUME NEW m \in 1..(Len(scored) + 1), NEW n \in 1..(Len(scored) + 1), m < n
               PROVE  scored'[m] < scored'[n]
    BY <1>4 DEF ScoredOnceInOrder
  <2>1. m \in 1..Len(scored)
    BY <1>4
  <2>2. CASE n \in 1..Len(scored)
    BY <2>1, <2>2, <1>4 DEF StreamInv, ScoredOnceInOrder
  <2>3. CASE n = Len(scored) + 1
    BY <2>1, <2>3, <1>4, <1>6
  <2> QED
    BY <2>2, <2>3, <1>4
<1>12. NothingAcknowledgedUnhandled'
  BY <1>1, <1>5 DEF StreamInv, NothingAcknowledgedUnhandled
<1> QED
  BY <1>7, <1>8, <1>10, <1>11, <1>12 DEF StreamInv

\* A handler that raises gives the head up, unscored.
LEMMA RaisingKeepsStreamInv ==
  ASSUME StreamInv, process_raises
  PROVE  StreamInv'
<1>1. /\ UNCHANGED <<now, entries, first, delivered, pel, batch, scored>>
      /\ step = "score" /\ step' = "ack"
      /\ dropped' = dropped \cup {Head(batch)}
  BY DEF process_raises, transportVars
<1>2. StreamTypes /\ batch # <<>>
  BY <1>1 DEF StreamInv, StreamTypes
<1>3. /\ Head(batch) = batch[1] /\ batch[1] \in 1..delivered /\ delivered \in Nat
      /\ \A m \in 1..Len(scored) : scored[m] \in Nat
  BY <1>2 DEF StreamTypes
<1>4. StreamTypes'
  BY <1>1, <1>2 DEF StreamTypes
<1>5. (BatchInOrder /\ ScoredOnceInOrder)'
  BY <1>1 DEF StreamInv, BatchInOrder, ScoredOnceInOrder
<1>6. (HeadIsHandled /\ NothingAcknowledgedUnhandled)'
  BY <1>1, <1>3 DEF StreamInv, HeadIsHandled, NothingAcknowledgedUnhandled
<1>7. InHandIsAhead'
  <2>1. \A m \in 1..Len(scored) : scored[m] < batch[1]
    BY <1>1 DEF StreamInv, InHandIsAhead
  <2>2. batch[1] \in Nat
    BY <1>3
  <2> QED
    BY <1>1, <1>3, <2>1, <2>2 DEF InHandIsAhead
<1> QED
  BY <1>4, <1>5, <1>6, <1>7 DEF StreamInv

\* Persisting changes nothing the invariant speaks of but the step.
LEMMA PersistingKeepsStreamInv ==
  ASSUME StreamInv, persist_incident
  PROVE  StreamInv'
<1>1. /\ UNCHANGED <<now, entries, first, delivered, pel, batch, scored, dropped>>
      /\ step = "persist" /\ step' = "ack"
  BY DEF persist_incident, transportVars
<1>2. StreamTypes'
  BY <1>1 DEF StreamInv, StreamTypes
<1>3. (BatchInOrder /\ InHandIsAhead /\ HeadIsHandled)'
  BY <1>1 DEF StreamInv, BatchInOrder, InHandIsAhead, HeadIsHandled
<1>4. (ScoredOnceInOrder /\ NothingAcknowledgedUnhandled)'
  BY <1>1 DEF StreamInv, ScoredOnceInOrder, NothingAcknowledgedUnhandled
<1> QED
  BY <1>2, <1>3, <1>4 DEF StreamInv

\* Whether the acknowledgement arrives or not, the handled head is left and
\* the next one is past everything scored.
LEMMA AckKeepsStreamInv ==
  ASSUME StreamInv, xack \/ xack_fails
  PROVE  StreamInv'
<1>1. /\ UNCHANGED <<now, entries, first, delivered, scored, dropped>>
      /\ step = "ack"
      /\ batch' = Tail(batch)
      /\ step' = IF Tail(batch) = <<>> THEN "read" ELSE "score"
      /\ pel' = pel \/ pel' = pel \ {Head(batch)}
  BY DEF xack, xack_fails, NextMessage, transportVars
<1>2. StreamTypes /\ batch # <<>>
  BY <1>1 DEF StreamInv, StreamTypes
<1>3. /\ Head(batch) = batch[1] /\ batch[1] \in 1..delivered /\ delivered \in Nat
      /\ batch \in Seq(1..delivered) /\ Len(batch) \in Nat \ {0}
      /\ \A m \in 1..Len(scored) : scored[m] \in Nat
  BY <1>2 DEF StreamTypes
<1>4. /\ batch' \in Seq(1..delivered)
      /\ Len(batch') = Len(batch) - 1
      /\ \A m \in 1..Len(batch') : batch'[m] = batch[m + 1]
  BY <1>1, <1>3
<1>5. StreamTypes'
  BY <1>1, <1>2, <1>4 DEF StreamTypes
<1>6. BatchInOrder'
  <2> SUFFICES ASSUME NEW m \in 1..Len(batch'), NEW n \in 1..Len(batch'), m < n
               PROVE  batch'[m] < batch'[n]
    BY DEF BatchInOrder
  <2>1. m + 1 \in 1..Len(batch) /\ n + 1 \in 1..Len(batch) /\ m + 1 < n + 1
    BY <1>3, <1>4
  <2> QED
    BY <2>1, <1>4 DEF StreamInv, BatchInOrder
<1>7. InHandIsAhead'
  <2> SUFFICES ASSUME step' = "score", NEW m \in 1..Len(scored)
               PROVE  scored[m] < batch'[1]
    BY <1>1 DEF InHandIsAhead
  <2>1. Len(batch) >= 2
    BY <1>1, <1>3, <1>4
  <2>2. batch'[1] = batch[2] /\ batch[1] < batch[2] /\ batch[2] \in Nat
    BY <2>1, <1>3, <1>4 DEF StreamInv, BatchInOrder
  <2>3. scored[m] <= batch[1]
    BY <1>1 DEF StreamInv, InHandIsAhead
  <2> QED
    BY <2>2, <2>3, <1>3
<1>8. (HeadIsHandled /\ ScoredOnceInOrder)'
  BY <1>1 DEF StreamInv, HeadIsHandled, ScoredOnceInOrder
<1>9. NothingAcknowledgedUnhandled'
  BY <1>1, <1>3 DEF StreamInv, HeadIsHandled, NothingAcknowledgedUnhandled
<1> QED
  BY <1>5, <1>6, <1>7, <1>8, <1>9 DEF StreamInv

\* A new process has nothing in hand; what the old one held stays pending,
\* or, after a cancellation, was scored or given up.
LEMMA RestartKeepsStreamInv ==
  ASSUME StreamInv, crash \/ shutdown
  PROVE  StreamInv'
<1>1. /\ UNCHANGED <<now, entries, first, delivered, scored>>
      /\ batch' = <<>> /\ step' = "read"
  BY DEF crash, shutdown, Restarted, transportVars
<1>2. StreamTypes'
  BY <1>1 DEF StreamInv, StreamTypes
<1>3. (BatchInOrder /\ InHandIsAhead /\ HeadIsHandled /\ ScoredOnceInOrder)'
  BY <1>1 DEF StreamInv, BatchInOrder, InHandIsAhead, HeadIsHandled, ScoredOnceInOrder
<1>4. NothingAcknowledgedUnhandled'
  <2>1. CASE crash
    BY <2>1, <1>1 DEF crash, StreamInv, NothingAcknowledgedUnhandled
  <2>2. CASE shutdown
    <3>1. pel' = pel \ {Head(batch)} /\ step \in {"score", "persist"}
      BY <2>2 DEF shutdown
    <3>2. Head(batch) = batch[1]
      <4>1. batch \in Seq(1..delivered) /\ batch # <<>>
        BY <3>1 DEF StreamInv, StreamTypes
      <4>2. \A S : batch \in Seq(S) /\ batch # <<>> => Head(batch) = batch[1]
        OBVIOUS
      <4> QED
        BY <4>1, <4>2
    <3>3. Head(batch) \in ToSet(scored) \cup dropped' /\ dropped \subseteq dropped'
      BY <2>2, <3>2 DEF shutdown, StreamInv, HeadIsHandled
    <3> QED
      BY <3>1, <3>3, <1>1 DEF StreamInv, NothingAcknowledgedUnhandled
  <2> QED
    BY <2>1, <2>2
<1> QED
  BY <1>2, <1>3, <1>4 DEF StreamInv

-----------------------------------------------------------------------------
(* Correlation *)

\* The loop over the observations, and what module FoldProofs says of it.
Linking == INSTANCE FoldProofs WITH turn <- link, base <- <<>>

\* Every entry has a time on the clock.
LEMMA EntriesHaveTimes ==
  ASSUME StreamAssumption, entries \in Seq(Reading)
  PROVE  /\ Len(entries) \in Nat /\ MaxTime \in Nat
         /\ \A i \in 1..Len(entries) : entries[i] \in Reading /\ at(i) \in 0..MaxTime
<1>1. Len(entries) \in Nat /\ MaxTime \in Nat
  BY DEF StreamAssumption
<1>2. ASSUME NEW i \in 1..Len(entries)
      PROVE  entries[i] \in Reading
  OBVIOUS
<1>3. \A r \in Reading : r.at \in 0..MaxTime
  BY DEF Reading
<1> QED
  BY <1>1, <1>2, <1>3 DEF at

\* sorted: of some entries one is the last.
LEMMA OneIsLast ==
  ASSUME StreamAssumption, entries \in Seq(Reading),
         NEW S \in SUBSET (1..Len(entries)), S # {}
  PROVE  \E m \in S : \A k \in S \ {m} : before(k, m)
<1>1. /\ Len(entries) \in Nat /\ MaxTime \in Nat
      /\ \A i \in S : at(i) \in 0..MaxTime /\ i \in 1..Len(entries)
  BY EntriesHaveTimes
<1> DEFINE ages == {MaxTime - at(i) : i \in S}
<1>2. PICK i \in S : \A k \in S : at(k) <= at(i)
  <2>1. ages \in SUBSET Nat /\ ages # {}
    <3>1. \A i \in S : MaxTime - at(i) \in Nat
      BY <1>1
    <3> QED
      BY <3>1
  <2>2. PICK a \in ages : \A c \in ages : a <= c
    <3> HIDE DEF ages
    <3> QED
      BY <2>1, Linking!LeastNumber
  <2>3. PICK i \in S : a = MaxTime - at(i)
    BY <2>2
  <2>4. \A k \in S : MaxTime - at(i) <= MaxTime - at(k)
    BY <2>2, <2>3
  <2> QED
    BY <1>1, <2>4
<1> DEFINE back == {Len(entries) - k : k \in {j \in S : at(j) = at(i)}}
<1>3. PICK m \in S : at(m) = at(i) /\ \A k \in S : at(k) = at(i) => k <= m
  <2>1. back \in SUBSET Nat /\ back # {}
    BY <1>1, <1>2
  <2>2. PICK a \in back : \A c \in back : a <= c
    <3> HIDE DEF back
    <3> QED
      BY <2>1, Linking!LeastNumber
  <2>3. PICK m \in S : at(m) = at(i) /\ a = Len(entries) - m
    BY <2>2
  <2>4. \A k \in S : at(k) = at(i) => Len(entries) - m <= Len(entries) - k
    BY <2>2, <2>3
  <2>5. \A k \in S : at(k) = at(i) => k <= m
    BY <1>1, <2>4
  <2> QED
    BY <2>3, <2>5
<1>4. \A k \in S \ {m} : before(k, m)
  <2> SUFFICES ASSUME NEW k \in S \ {m} PROVE before(k, m)
    OBVIOUS
  <2>1. at(k) <= at(m) /\ at(k) \in Int /\ at(m) \in Int /\ k \in Int /\ m \in Int
    BY <1>1, <1>2, <1>3
  <2>2. at(k) = at(m) => k < m
    BY <1>3, <2>1
  <2> QED
    BY <2>1, <2>2 DEF before
<1> QED
  BY <1>4

InOrder(s) == \A m, n \in DOMAIN s : m < n => before(s[m], s[n])

\* sorted: any entries can be put in order.
LEMMA SortingExists ==
  ASSUME StreamAssumption, entries \in Seq(Reading)
  PROVE  \A S \in SUBSET (1..Len(entries)) : \E s \in [1..Cardinality(S) -> S] : InOrder(s)
<1> DEFINE Sortable(S) == \E s \in [1..Cardinality(S) -> S] : InOrder(s)
           sizes == {Cardinality(S) : S \in {R \in SUBSET (1..Len(entries)) : ~ Sortable(R)}}
<1>1. \A S \in SUBSET (1..Len(entries)) : IsFiniteSet(S) /\ Cardinality(S) \in Nat
  <2>1. IsFiniteSet(1..Len(entries))
    BY FS_Interval, EntriesHaveTimes
  <2> QED
    BY <2>1, FS_Subset, FS_CardinalityType
<1> SUFFICES ASSUME sizes # {} PROVE FALSE
  OBVIOUS
<1>2. PICK n \in sizes : \A k \in sizes : n <= k
  <2>1. sizes \in SUBSET Nat
    BY <1>1
  <2> HIDE DEF sizes
  <2> QED
    BY <2>1, Linking!LeastNumber
<1>3. PICK S \in SUBSET (1..Len(entries)) : n = Cardinality(S) /\ ~ Sortable(S)
  BY <1>2
<1>4. S # {}
  <2> SUFFICES ASSUME S = {} PROVE FALSE
    OBVIOUS
  <2>1. n = 0
    BY <1>3, FS_EmptySet
  <2>2. \E s \in [1..0 -> S] : InOrder(s)
    <3> DEFINE s == [k \in 1..0 |-> 0]
    <3>1. s \in [1..0 -> S] /\ DOMAIN s = {}
      OBVIOUS
    <3>2. InOrder(s)
      BY <3>1 DEF InOrder
    <3> QED
      BY <3>1, <3>2
  <2> QED
    BY <1>3, <2>1, <2>2
<1>5. PICK m \in S : \A k \in S \ {m} : before(k, m)
  BY <1>4, OneIsLast
<1>6. Cardinality(S \ {m}) = n - 1 /\ n \in Nat \ {0}
  <2>1. Cardinality(S \ {m}) = n - 1
    BY <1>1, <1>3, FS_RemoveElement
  <2>2. n \in Nat /\ Cardinality(S \ {m}) \in Nat
    BY <1>1, <1>3
  <2> QED
    BY <2>1, <2>2
<1>7. PICK s \in [1..(n - 1) -> S \ {m}] : InOrder(s)
  <2>1. S \ {m} \in SUBSET (1..Len(entries)) /\ n - 1 \notin sizes
    BY <1>2, <1>6
  <2>2. Sortable(S \ {m})
    BY <1>6, <2>1
  <2> QED
    BY <1>6, <2>2
<1> DEFINE t == [k \in 1..n |-> IF k = n THEN m ELSE s[k]]
<1>8. t \in [1..n -> S]
  BY <1>5, <1>6, <1>7
<1>9. InOrder(t)
  <2> SUFFICES ASSUME NEW j \in 1..n, NEW k \in 1..n, j < k PROVE before(t[j], t[k])
    BY DEF InOrder
  <2>1. j \in 1..(n - 1) /\ t[j] = s[j] /\ s[j] \in S \ {m}
    BY <1>6, <1>7
  <2>2. CASE k = n
    BY <1>5, <2>1, <2>2
  <2>3. CASE k # n
    <3>1. k \in 1..(n - 1) /\ t[k] = s[k]
      BY <1>6, <2>3
    <3> QED
      BY <1>7, <2>1, <3>1 DEF InOrder
  <2> QED
    BY <2>2, <2>3
<1> QED
  BY <1>3, <1>8, <1>9

\* sorted: the observations, each once, by time and then by arrival.
LEMMA ChronologicalSorts ==
  ASSUME StreamAssumption, entries \in Seq(Reading),
         NEW S \in SUBSET (1..Len(entries)), NEW s, s = chronological(S)
  PROVE  \E n \in Nat :
           /\ s \in [1..n -> S] /\ (n = 0 <=> S = {})
           /\ \A i \in S : \E k \in 1..n : s[k] = i
           /\ \A j, k \in 1..n : j < k => at(s[j]) <= at(s[k])
<1> DEFINE n == Cardinality(S)
<1>1. IsFiniteSet(S) /\ n \in Nat /\ (n = 0 <=> S = {})
  <2>1. IsFiniteSet(1..Len(entries))
    BY FS_Interval, EntriesHaveTimes
  <2> QED
    BY <2>1, FS_Subset, FS_CardinalityType, FS_EmptySet
<1>2. s \in [1..n -> S] /\ InOrder(s)
  <2>1. \E t \in [1..n -> S] : InOrder(t)
    BY SortingExists
  <2> QED
    BY <2>1, Zenon DEF chronological, InOrder
<1> HIDE DEF n
<1>3. \A i \in S : at(i) \in Int /\ i \in Int
  BY EntriesHaveTimes
<1>4. ASSUME NEW j \in 1..n, NEW k \in 1..n, j < k
      PROVE  at(s[j]) <= at(s[k]) /\ s[j] # s[k]
  <2>1. before(s[j], s[k])
    BY <1>2, <1>4 DEF InOrder
  <2>2. /\ at(s[j]) \in Int /\ at(s[k]) \in Int
        /\ s[j] \in Int /\ s[k] \in Int
    BY <1>2, <1>3
  <2> QED
    BY <2>1, <2>2 DEF before
<1>5. ASSUME NEW i \in S
      PROVE  \E k \in 1..n : s[k] = i
  <2>1. s \in Injection(1..n, S)
    <3>1. \A j, k \in 1..n : s[j] = s[k] => j = k
      <4> SUFFICES ASSUME NEW j \in 1..n, NEW k \in 1..n, s[j] = s[k], j # k PROVE FALSE
        OBVIOUS
      <4>1. j < k \/ k < j
        BY <1>1
      <4> QED
        BY <1>4, <4>1
    <3> QED
      BY <1>2, <3>1 DEF Injection, IsInjective
  <2>2. Cardinality(1..n) = n /\ n = Cardinality(S)
    <3>1. Cardinality(1..n) = n
      BY <1>1, FS_Interval
    <3> QED
      BY <3>1 DEF n
  <2>3. s \in Surjection(1..n, S)
    BY <1>1, <2>1, <2>2, FS_Injection
  <2> QED
    BY <2>3 DEF Surjection
<1> QED
  BY <1>1, <1>2, <1>4, <1>5

\* correlate_anomalies, the loop: c is the run of observations from b on, with
\* no silence in it and one before it.
IsRun(c, s, b, k) ==
  /\ c = [m \in 1..(k - b + 1) |-> s[b + m - 1]]
  /\ \A m \in b..(k - 1) : at(s[m + 1]) - at(s[m]) <= Window
  /\ b = 1 \/ at(s[b]) - at(s[b - 1]) > Window

\* What is appended is last, and the rest stays.
LEMMA AppendIsLast ==
  ASSUME NEW S, NEW q \in Seq(S), NEW x \in S
  PROVE  /\ Append(q, x) \in Seq(S) /\ Append(q, x) # <<>>
         /\ Last(Append(q, x)) = x /\ Append(q, x)[Len(q) + 1] = x
         /\ Append(q, x) = [m \in 1..(Len(q) + 1) |-> Append(q, x)[m]]
         /\ \A m \in 1..Len(q) : Append(q, x)[m] = q[m]
<1>1. Append(q, x) \in Seq(S) /\ Append(q, x) # <<>> /\ Last(Append(q, x)) = x
  BY DEF Last
<1>2. Append(q, x)[Len(q) + 1] = x /\ \A m \in 1..Len(q) : Append(q, x)[m] = q[m]
  OBVIOUS
<1>3. Append(q, x) = [m \in 1..(Len(q) + 1) |-> Append(q, x)[m]]
  <2>1. PICK a : a = Append(q, x)
    OBVIOUS
  <2>2. a \in Seq(S) /\ Len(a) = Len(q) + 1
    BY <1>1, <2>1
  <2>3. a = [m \in 1..(Len(q) + 1) |-> a[m]]
    BY ONLY <2>2
  <2> QED
    BY ONLY <2>1, <2>3
<1> QED
  BY <1>1, <1>2, <1>3

\* One turn of the loop extends the run or starts the next.
LEMMA LinkExtendsRun ==
  ASSUME StreamAssumption, entries \in Seq(Reading),
         NEW n \in Nat, NEW s \in [1..n -> 1..Len(entries)], NEW k \in 2..n,
         NEW cs \in Seq(Seq(1..Len(entries))), cs # <<>>,
         NEW b \in 1..(k - 1), IsRun(Last(cs), s, b, k - 1)
  PROVE  /\ link(cs, s[k]) \in Seq(Seq(1..Len(entries))) /\ link(cs, s[k]) # <<>>
         /\ \E d \in 1..k : IsRun(Last(link(cs, s[k])), s, d, k)
<1> DEFINE P == 1..Len(entries)
           c == Last(cs)
<1>1. \A m \in 1..n : s[m] \in P /\ at(s[m]) \in Int
  BY EntriesHaveTimes
<1>2. /\ cs \in Seq(Seq(P)) /\ Len(cs) \in Nat \ {0}
      /\ c \in Seq(P) /\ Len(c) = k - b /\ s[k] \in P /\ k \in 1..n
      /\ \A m \in 1..(k - b) : c[m] = s[b + m - 1]
  <2>1. Len(cs) \in Nat \ {0} /\ cs[Len(cs)] \in Seq(P)
    OBVIOUS
  <2> QED
    BY <1>1, <2>1 DEF IsRun, Last
<1>3. Last(c) = s[k - 1]
  BY <1>2 DEF Last
<1> HIDE DEF P, c
<1>4. CASE at(s[k]) - at(Last(c)) <= Window
  <2>1. link(cs, s[k]) = Append(Front(cs), Append(c, s[k]))
    BY <1>4 DEF link, c
  <2>2. Front(cs) \in Seq(Seq(P)) /\ Append(c, s[k]) \in Seq(P)
    BY <1>2 DEF Front
  <2>3. /\ link(cs, s[k]) \in Seq(Seq(P)) /\ link(cs, s[k]) # <<>>
        /\ Last(link(cs, s[k])) = Append(c, s[k])
    <3>1. PICK f, d : f = Front(cs) /\ d = Append(c, s[k])
      OBVIOUS
    <3>2. PICK Run : Run = Seq(P)
      OBVIOUS
    <3>3. f \in Seq(Run) /\ d \in Run
      BY <2>2, <3>1, <3>2
    <3>4. Append(f, d) \in Seq(Run) /\ Append(f, d) # <<>> /\ Last(Append(f, d)) = d
      BY ONLY <3>3, AppendIsLast
    <3> QED
      BY <2>1, <3>1, <3>2, <3>4
  <2>4. IsRun(Append(c, s[k]), s, b, k)
    <3>1. Append(c, s[k]) = [m \in 1..(k - b + 1) |-> s[b + m - 1]]
      <4>1. PICK x : x = s[k]
        OBVIOUS
      <4>2. c \in Seq(P) /\ x \in P /\ Len(c) = k - b /\ k - b \in Nat
        BY <1>2, <4>1
      <4>3. PICK q : q = Append(c, x)
        OBVIOUS
      <4>4. /\ q = [m \in 1..(k - b + 1) |-> q[m]] /\ q[k - b + 1] = x
            /\ \A m \in 1..(k - b) : q[m] = c[m]
        BY ONLY <4>2, <4>3, AppendIsLast
      <4>5. \A m \in 1..(k - b + 1) : m = k - b + 1 \/ m \in 1..(k - b)
        OBVIOUS
      <4>6. b + (k - b + 1) - 1 = k
        OBVIOUS
      <4>7. \A m \in 1..(k - b + 1) : q[m] = s[b + m - 1]
        BY <1>2, <4>1, <4>4, <4>5, <4>6
      <4> QED
        BY ONLY <4>1, <4>3, <4>4, <4>7
    <3>2. \A m \in b..(k - 1) : at(s[m + 1]) - at(s[m]) <= Window
      <4> SUFFICES ASSUME NEW m \in b..(k - 1) PROVE at(s[m + 1]) - at(s[m]) <= Window
        OBVIOUS
      <4>1. CASE m = k - 1
        BY <1>2, <1>3, <1>4, <4>1
      <4>2. CASE m # k - 1
        BY <4>2 DEF IsRun
      <4> QED
        BY <4>1, <4>2
    <3> QED
      BY <3>1, <3>2 DEF IsRun
  <2> QED
    BY <2>3, <2>4 DEF P
<1>5. CASE ~ (at(s[k]) - at(Last(c)) <= Window)
  <2>1. link(cs, s[k]) = Append(cs, <<s[k]>>)
    BY <1>5 DEF link, c
  <2>2. /\ link(cs, s[k]) \in Seq(Seq(P)) /\ link(cs, s[k]) # <<>>
        /\ Last(link(cs, s[k])) = <<s[k]>>
    <3>1. PICK d : d = <<s[k]>>
      OBVIOUS
    <3>2. PICK Run : Run = Seq(P)
      OBVIOUS
    <3>3. cs \in Seq(Run) /\ d \in Run
      BY <1>2, <3>1, <3>2
    <3>4. Append(cs, d) \in Seq(Run) /\ Append(cs, d) # <<>> /\ Last(Append(cs, d)) = d
      BY ONLY <3>3, AppendIsLast
    <3> QED
      BY <2>1, <3>1, <3>2, <3>4
  <2>3. IsRun(<<s[k]>>, s, k, k)
    <3>1. at(s[k]) - at(s[k - 1]) > Window
      <4>1. k - 1 \in 1..n /\ Window \in Int
        BY DEF StreamAssumption
      <4> QED
        BY <1>1, <1>2, <1>3, <1>5, <4>1
    <3>2. <<s[k]>> = [m \in 1..(k - k + 1) |-> s[k + m - 1]]
      BY <1>2
    <3>3. \A m \in k..(k - 1) : at(s[m + 1]) - at(s[m]) <= Window
      OBVIOUS
    <3> QED
      BY <3>1, <3>2, <3>3 DEF IsRun
  <2> QED
    BY <2>2, <2>3 DEF P
<1> QED
  BY <1>4, <1>5

\* correlate_anomalies: the last cluster is a run that ends with the last
\* observation.
LEMMA FreshestIsARun ==
  ASSUME StreamAssumption, entries \in Seq(Reading),
         NEW n \in Nat \ {0}, NEW s \in [1..n -> 1..Len(entries)]
  PROVE  \E b \in 1..n : IsRun(Last(FoldLeft(link, <<>>, s)), s, b, n)
<1>1. PICK p : /\ p[0] = <<>>
               /\ \A k \in 1..n : p[k] = link(p[k - 1], s[k])
               /\ Linking!FoldLeft(link, <<>>, s) = p[n]
  BY Linking!FoldIsALoop
<1>2. FoldLeft(link, <<>>, s) = p[n]
  BY <1>1 DEF FoldLeft, MapThenFoldSet, Max,
     Linking!FoldLeft, Linking!MapThenFoldSet, Linking!Max
<1> DEFINE Good(k) == /\ p[k] \in Seq(Seq(1..Len(entries))) /\ p[k] # <<>>
                      /\ \E b \in 1..k : IsRun(Last(p[k]), s, b, k)
           T == {k \in 1..n : ~ Good(k)}
<1>3. T = {}
  <2> SUFFICES ASSUME T # {} PROVE FALSE
    OBVIOUS
  <2>1. PICK k \in T : \A m \in T : k <= m
    <3>1. T \in SUBSET Nat
      OBVIOUS
    <3> HIDE DEF T
    <3> QED
      BY <3>1, Linking!LeastNumber
  <2>2. k # 1
    <3>1. p[1] = <<<<s[1]>>>>
      <4>1. p[1] = link(<<>>, s[1])
        BY <1>1
      <4>2. link(<<>>, s[1]) = Append(<<>>, <<s[1]>>)
        BY DEF link
      <4> QED
        BY <4>1, <4>2
    <3>2. /\ <<<<s[1]>>>> \in Seq(Seq(1..Len(entries))) /\ <<<<s[1]>>>> # <<>>
          /\ Last(<<<<s[1]>>>>) = <<s[1]>>
      BY DEF Last
    <3>3. IsRun(<<s[1]>>, s, 1, 1)
      BY DEF IsRun
    <3>4. Good(1)
      <4>1. \E b \in 1..1 : IsRun(Last(p[1]), s, b, 1)
        BY <3>1, <3>2, <3>3
      <4>2. p[1] \in Seq(Seq(1..Len(entries))) /\ p[1] # <<>>
        BY ONLY <3>1, <3>2
      <4> QED
        BY <4>1, <4>2
    <3> QED
      BY <2>1, <3>4
  <2>3. k - 1 \in 1..n /\ k \in 2..n /\ Good(k - 1)
    BY <2>1, <2>2
  <2>4. PICK b \in 1..(k - 1) : IsRun(Last(p[k - 1]), s, b, k - 1)
    BY <2>3
  <2>5. /\ link(p[k - 1], s[k]) \in Seq(Seq(1..Len(entries))) /\ link(p[k - 1], s[k]) # <<>>
        /\ \E d \in 1..k : IsRun(Last(link(p[k - 1], s[k])), s, d, k)
    BY <2>3, <2>4, LinkExtendsRun
  <2>6. p[k] = link(p[k - 1], s[k])
    BY <1>1, <2>1
  <2> QED
    BY <2>1, <2>5, <2>6
<1>4. Good(n)
  <2> HIDE DEF Good
  <2>1. n \in 1..n
    OBVIOUS
  <2> QED
    BY <1>3, <2>1
<1> QED
  BY <1>2, <1>4

\* The documented chain of some readings: those from which the newest one is
\* reached without a silence longer than the window.
Chain(mine) ==
  {i \in mine : \A j \in mine : at(j) >= at(i) =>
     \/ \A k \in mine : at(k) <= at(j)
     \/ \E k \in mine : at(k) > at(j) /\ at(k) - at(j) <= Window}

\* A run that ends with the last observation is the chain.
LEMMA RunIsTheChain ==
  ASSUME StreamAssumption, entries \in Seq(Reading), NEW S \in SUBSET (1..Len(entries)),
         NEW n \in Nat \ {0}, NEW s \in [1..n -> S],
         \A i \in S : \E k \in 1..n : s[k] = i,
         \A j, k \in 1..n : j < k => at(s[j]) <= at(s[k]),
         NEW b \in 1..n, NEW c, IsRun(c, s, b, n)
  PROVE  ToSet(c) = Chain(S)
<1>1. \A m \in 1..n : s[m] \in S /\ at(s[m]) \in Int
  <2>1. \A i \in S : at(i) \in Int
    BY EntriesHaveTimes
  <2> QED
    BY <2>1
<1>2. Window \in Int
  BY DEF StreamAssumption
<1>3. ToSet(c) = {s[m] : m \in b..n}
  <2>1. ToSet(c) = {c[m] : m \in 1..(n - b + 1)}
    BY DEF ToSet, IsRun
  <2>2. \A m \in 1..(n - b + 1) : c[m] = s[b + m - 1] /\ b + m - 1 \in b..n
    BY DEF IsRun
  <2>3. \A m \in b..n : m - b + 1 \in 1..(n - b + 1) /\ b + (m - b + 1) - 1 = m
    OBVIOUS
  <2>4. \A m \in b..n : c[m - b + 1] = s[m]
    BY <2>2, <2>3
  <2>5. ToSet(c) \subseteq {s[m] : m \in b..n}
    BY <2>1, <2>2
  <2>6. {s[m] : m \in b..n} \subseteq ToSet(c)
    BY <2>1, <2>3, <2>4
  <2> QED
    BY <2>5, <2>6
<1>4. ASSUME NEW m \in b..n
      PROVE  s[m] \in Chain(S)
  <2> SUFFICES ASSUME NEW j \in S, at(j) >= at(s[m]),
                      NEW q \in S, ~ (at(q) <= at(j))
               PROVE  \E k \in S : at(k) > at(j) /\ at(k) - at(j) <= Window
    <3>1. s[m] \in S
      BY <1>1
    <3> QED
      BY <3>1 DEF Chain
  <2>1. at(j) \in Int /\ at(q) \in Int
    BY EntriesHaveTimes
  <2> DEFINE later == {k \in 1..n : at(s[k]) > at(j)}
  <2>2. PICK h \in later : \A k \in later : h <= k
    <3>1. PICK l \in 1..n : s[l] = q
      OBVIOUS
    <3>2. at(s[l]) > at(j)
      BY <2>1, <3>1
    <3>3. l \in later
      BY ONLY <3>1, <3>2
    <3>4. later \in SUBSET Nat
      BY ONLY n \in Nat
    <3> HIDE DEF later
    <3> QED
      BY <3>3, <3>4, Linking!LeastNumber
  <2>3. h > m
    <3> SUFFICES ASSUME h <= m PROVE FALSE
      OBVIOUS
    <3>1. at(s[h]) <= at(s[m])
      BY <1>1
    <3> QED
      BY <1>1, <2>1, <2>2, <3>1
  <2>4. h - 1 \in b..(n - 1) /\ h - 1 \in 1..n /\ h - 1 \notin later
    BY <2>2, <2>3
  <2>5. at(s[h - 1]) <= at(j)
    BY <1>1, <2>1, <2>4
  <2>6. at(s[h]) - at(s[h - 1]) <= Window
    <3>1. \A r \in b..(n - 1) : at(s[r + 1]) - at(s[r]) <= Window
      BY DEF IsRun
    <3>2. (h - 1) + 1 = h
      BY <2>4
    <3> QED
      BY <2>4, <3>1, <3>2
  <2>7. s[h] \in S /\ at(s[h]) > at(j) /\ at(s[h]) - at(j) <= Window
    BY <1>1, <1>2, <2>1, <2>2, <2>4, <2>5, <2>6
  <2> QED
    BY <2>7
<1>5. ASSUME NEW i \in Chain(S)
      PROVE  \E m \in b..n : i = s[m]
  <2>1. PICK m \in 1..n : i = s[m]
    BY DEF Chain
  <2> SUFFICES ASSUME m < b PROVE FALSE
    BY <2>1
  <2>2. b - 1 \in 1..n /\ at(s[b]) - at(s[b - 1]) > Window
    BY <2>1 DEF IsRun
  <2>3. at(s[b - 1]) >= at(i)
    BY <1>1, <2>1, <2>2
  <2>4. at(s[b]) > at(s[b - 1])
    BY <1>1, <1>2, <2>2 DEF StreamAssumption
  <2>5. PICK k \in S : at(k) > at(s[b - 1]) /\ at(k) - at(s[b - 1]) <= Window
    <3>1. PICK j, l \in S : j = s[b - 1] /\ l = s[b]
      BY <1>1, <2>2
    <3>2. at(l) > at(j) /\ at(j) \in Int /\ at(l) \in Int
      BY <1>1, <2>2, <2>4, <3>1
    <3>3. ~ (at(l) <= at(j)) /\ at(j) >= at(i)
      BY <2>3, <3>1, <3>2
    <3>4. \E k \in S : at(k) > at(j) /\ at(k) - at(j) <= Window
      BY <3>3 DEF Chain
    <3> QED
      BY <3>1, <3>4
  <2>6. PICK q \in 1..n : k = s[q]
    BY <2>5
  <2>7. q >= b
    <3> SUFFICES ASSUME q < b PROVE FALSE
      OBVIOUS
    <3>1. q <= b - 1
      BY <2>2
    <3>2. at(s[q]) <= at(s[b - 1])
      BY <1>1, <2>2, <3>1
    <3> QED
      BY <1>1, <2>2, <2>5, <2>6, <3>2
  <2>8. at(k) >= at(s[b])
    BY <1>1, <2>6, <2>7
  <2>9. /\ at(k) \in Int /\ at(s[b]) \in Int /\ at(s[b - 1]) \in Int
    BY <1>1, <2>2, <2>6
  <2> QED
    BY <1>2, <2>2, <2>5, <2>8, <2>9
<1> QED
  BY <1>3, <1>4, <1>5

\* correlate_anomalies: what is correlated is the chain, and a reading that is
\* no older than the gap sees to it that something is.
LEMMA CorrelatedIsTheChain ==
  ASSUME StreamAssumption, StreamTypes, NEW buf \in SUBSET (1..Len(entries)), NEW e
  PROVE  /\ correlate(buf, e) # {} => correlate(buf, e) = Chain(by_equipment(buf, e))
         /\ \A i \in by_equipment(buf, e) :
              now - at(i) <= MaxGap => correlate(buf, e) = Chain(by_equipment(buf, e))
<1> DEFINE S == by_equipment(buf, e)
           s == chronological(S)
           c == Last(FoldLeft(link, <<>>, s))
<1>1. S \in SUBSET (1..Len(entries)) /\ entries \in Seq(Reading)
  BY DEF by_equipment, StreamTypes
<1>2. PICK n \in Nat :
           /\ s \in [1..n -> S] /\ (n = 0 <=> S = {})
           /\ \A i \in S : \E k \in 1..n : s[k] = i
           /\ \A j, k \in 1..n : j < k => at(s[j]) <= at(s[k])
  <2> HIDE DEF S
  <2> QED
    BY <1>1, ChronologicalSorts
<1>3. correlate(buf, e) = IF s = <<>> THEN {}
                          ELSE IF c # <<>> /\ now - at(Last(c)) <= MaxGap THEN ToSet(c) ELSE {}
  BY DEF correlate, freshest_cluster
<1> HIDE DEF S, s, c
<1>4. CASE S = {}
  <2>1. s = <<>>
    BY <1>2, <1>4
  <2> QED
    BY <1>3, <1>4, <2>1 DEF S
<1>5. CASE S # {}
  <2>1. n \in Nat \ {0} /\ s # <<>>
    BY <1>2, <1>5
  <2>2. PICK b \in 1..n : IsRun(c, s, b, n)
    <3>1. s \in [1..n -> 1..Len(entries)]
      BY <1>1, <1>2
    <3> QED
      BY <1>1, <2>1, <3>1, FreshestIsARun DEF c
  <2>3. ToSet(c) = Chain(S)
    BY <1>1, <1>2, <2>1, <2>2, RunIsTheChain
  <2>4. c # <<>> /\ Last(c) = s[n]
    <3>1. c = [m \in 1..(n - b + 1) |-> s[b + m - 1]]
      BY <2>2 DEF IsRun
    <3>2. Len(c) = n - b + 1 /\ n - b + 1 \in 1..(n - b + 1) /\ b + (n - b + 1) - 1 = n
      BY <2>1, <3>1
    <3>3. c[n - b + 1] = s[n]
      BY <3>1, <3>2
    <3>4. Last(c) = s[n]
      BY <3>2, <3>3 DEF Last
    <3>5. Len(c) # 0
      BY <3>2
    <3> QED
      BY <3>4, <3>5
  <2>5. ASSUME NEW i \in S, now - at(i) <= MaxGap
        PROVE  now - at(Last(c)) <= MaxGap
    <3>1. PICK k \in 1..n : s[k] = i
      BY <1>2
    <3>2. /\ at(i) \in Int /\ at(s[n]) \in Int /\ now \in Int /\ MaxGap \in Int
      <4>1. \A j \in S : at(j) \in Int
        BY <1>1, EntriesHaveTimes
      <4>2. s[n] \in S /\ now \in Int /\ MaxGap \in Int
        BY <1>2, <2>1 DEF StreamTypes, StreamAssumption
      <4> QED
        BY <4>1, <4>2
    <3>3. at(i) <= at(s[n])
      BY <1>2, <2>1, <3>1, <3>2
    <3> QED
      BY <2>4, <2>5, <3>2, <3>3
  <2> QED
    BY <1>3, <2>1, <2>3, <2>4, <2>5 DEF S
<1> QED
  BY <1>4, <1>5

-----------------------------------------------------------------------------
(* What the consumer knows of its readings *)

\* The producer appends whole rounds of the registry.
RoundsAreWhole == \E n \in 0..MaxEmissions : Len(entries) = n * Len(Registry)

\* A timestamp is past when its entry is there, and no entry before it is
\* younger by more than what an emission may take.
StampsAreLate ==
  \A i \in 1..Len(entries) :
    at(i) <= now /\ \A j \in 1..(i - 1) : at(j) <= at(i) + EmitDelay

\* What is pending, given up, in hand or being persisted was delivered, and
\* the step says which.
HandsAreKnown ==
  /\ first \in 1..(Len(entries) + 1)
  /\ pel \subseteq 1..delivered
  /\ dropped \subseteq 1..delivered
  /\ inherited \in 0..Len(scored)
  /\ found \subseteq ToSet(scored)
  /\ step = "read" <=> batch = <<>>
  /\ step = "persist" <=> found # {}

\* _correlation_buffer holds every anomalous reading of this process that
\* the next pruning would keep.
BufferHoldsTheGaps ==
  /\ buffer \subseteq seen
  /\ \A i \in seen : at(i) > now - 3 * MaxGap => i \in buffer

WorkInv ==
  /\ HandsAreKnown
  /\ RoundsAreWhole
  /\ StampsAreLate
  /\ BufferHoldsTheGaps

\* What was scored was delivered, and seen is part of it.
LEMMA SeenWasDelivered ==
  ASSUME StreamTypes
  PROVE  /\ seen \subseteq ToSet(scored) /\ ToSet(scored) \subseteq 1..delivered
         /\ 1..delivered \subseteq 1..Len(entries)
<1>1. seen \subseteq ToSet(scored)
  BY DEF seen, ToSet, StreamTypes
<1>2. ToSet(scored) \subseteq 1..delivered
  BY DEF ToSet, StreamTypes
<1>3. 1..delivered \subseteq 1..Len(entries)
  BY DEF StreamTypes
<1> QED
  BY <1>1, <1>2, <1>3

\* What is seen and its times stay while nothing is scored; the clock only
\* lets readings age.
LEMMA MemoryStays ==
  ASSUME StreamAssumption, StreamTypes, BufferHoldsTheGaps,
         UNCHANGED <<buffer, scored, inherited>>,
         now' \in Int, now' >= now,
         \A i \in 1..Len(entries) : entries'[i] = entries[i]
  PROVE  BufferHoldsTheGaps'
<1>1. \A i \in seen : i \in 1..Len(entries) /\ at(i) \in Int
  BY SeenWasDelivered, EntriesHaveTimes DEF StreamTypes
<1>2. seen' = seen
  <2>1. \A m \in 1..Len(scored) : scored[m] \in 1..Len(entries)
    BY DEF StreamTypes
  <2>2. \A m \in 1..Len(scored) :
          (entries'[scored'[m]].anomalous <=> entries[scored[m]].anomalous) /\ scored'[m] = scored[m]
    BY <2>1
  <2> QED
    BY <2>2 DEF seen
<1>3. \A i \in seen : (at(i))' = at(i)
  BY <1>1 DEF at
<1>4. ASSUME NEW i \in seen, at(i) > now' - 3 * MaxGap
      PROVE  i \in buffer
  <2>1. now \in Int /\ MaxGap \in Int
    BY DEF StreamTypes, StreamAssumption
  <2>2. at(i) > now - 3 * MaxGap
    BY <1>1, <1>4, <2>1
  <2> QED
    BY <2>2 DEF BufferHoldsTheGaps
<1> QED
  BY <1>2, <1>3, <1>4 DEF BufferHoldsTheGaps

\* Nothing is known at the start.
LEMMA WorkInit ==
  ASSUME StreamAssumption, Init
  PROVE  WorkInv
<1>1. HandsAreKnown
  BY DEF Init, HandsAreKnown, ToSet
<1>2. RoundsAreWhole
  <2>1. Len(Registry) \in Nat /\ 0 \in 0..MaxEmissions
    BY DEF StreamAssumption
  <2>2. Len(entries) = 0 * Len(Registry)
    BY <2>1 DEF Init
  <2> QED
    BY <2>1, <2>2 DEF RoundsAreWhole
<1>3. StampsAreLate /\ BufferHoldsTheGaps
  BY DEF Init, StampsAreLate, BufferHoldsTheGaps, seen
<1> QED
  BY <1>1, <1>2, <1>3 DEF WorkInv

\* Time passes.
LEMMA TickKeepsWorkInv ==
  ASSUME StreamAssumption, StreamInv, WorkInv, tick
  PROVE  WorkInv'
<1>1. /\ UNCHANGED <<entries, first, delivered, pel, batch, step, buffer, found, scored, dropped, inherited>>
      /\ now' = now + 1 /\ now \in Int /\ StreamTypes
  BY DEF tick, transportVars, StreamInv, StreamTypes
<1>2. (HandsAreKnown /\ RoundsAreWhole)'
  BY <1>1 DEF WorkInv, HandsAreKnown, RoundsAreWhole
<1>3. StampsAreLate'
  <2>1. \A i \in 1..Len(entries) : at(i) \in Int /\ (at(i))' = at(i)
    BY <1>1, EntriesHaveTimes DEF StreamTypes, at
  <2> QED
    BY <1>1, <2>1 DEF WorkInv, StampsAreLate
<1>4. BufferHoldsTheGaps'
  BY <1>1, MemoryStays DEF WorkInv
<1> QED
  BY <1>2, <1>3, <1>4 DEF WorkInv

\* _emit_all_sensors: one round, with a timestamp that is late by at most the
\* delay.
LEMMA EmitKeepsWorkInv ==
  ASSUME StreamAssumption, StreamInv, WorkInv, emit_all_sensors
  PROVE  WorkInv'
<1>1. PICK t \in {u \in 0..now : now - u <= EmitDelay}, bad \in SUBSET Sensor :
        entries' = entries \o [k \in 1..Len(Registry) |->
          [sensor |-> Registry[k], at |-> t, anomalous |-> Registry[k] \in bad]]
  BY DEF emit_all_sensors
<1> DEFINE new == [k \in 1..Len(Registry) |->
          [sensor |-> Registry[k], at |-> t, anomalous |-> Registry[k] \in bad]]
           R == Len(Registry)
           L == Len(entries)
<1>2. /\ R \in Nat /\ L \in Nat /\ now \in Nat /\ EmitDelay \in Nat /\ MaxEmissions \in Nat
      /\ t \in 0..now /\ now - t <= EmitDelay /\ StreamTypes
  BY <1>1 DEF StreamAssumption, StreamInv, StreamTypes
<1>3. /\ Len(new) = R
      /\ \A k \in 1..R : new[k].at = t
  BY <1>2
<1>4. entries' = entries \o new
  BY <1>1
<1> HIDE DEF new
<1>5. /\ Len(entries') = L + R
      /\ \A i \in 1..L : entries'[i] = entries[i]
      /\ \A i \in (L + 1)..(L + R) : entries'[i] = new[i - L]
  <2>1. PICK S : entries \in Seq(S) /\ new \in Seq(S)
    <3>1. new \in Seq(Reading)
      <4>1. \A k \in 1..R : Registry[k] \in Sensor
        BY DEF StreamAssumption
      <4>2. t \in 0..MaxTime
        BY <1>2 DEF StreamTypes, StreamAssumption
      <4> QED
        BY <1>2, <4>1, <4>2 DEF new, Reading
    <3> QED
      BY <1>2, <3>1 DEF StreamTypes
  <2>2. \A p, q \in Seq(S) :
          /\ Len(p \o q) = Len(p) + Len(q)
          /\ \A i \in 1..Len(p) : (p \o q)[i] = p[i]
          /\ \A i \in (Len(p) + 1)..(Len(p) + Len(q)) : (p \o q)[i] = q[i - Len(p)]
    OBVIOUS
  <2> QED
    BY <1>3, <1>4, <2>1, <2>2
<1>6. UNCHANGED <<now, delivered, pel, batch, step, buffer, found, scored, dropped, inherited>>
  BY DEF emit_all_sensors
<1>7. HandsAreKnown'
  <2>1. first' \in first..(L + R + 1)
    BY DEF emit_all_sensors
  <2> QED
    BY <1>2, <1>5, <1>6, <2>1 DEF WorkInv, HandsAreKnown
<1>8. RoundsAreWhole'
  <2>1. PICK n \in 0..MaxEmissions : L = n * R
    BY DEF WorkInv, RoundsAreWhole
  <2>2. L < MaxEmissions * R
    BY DEF emit_all_sensors
  <2>3. n # MaxEmissions
    BY <2>1, <2>2, <1>2
  <2>4. n + 1 \in 0..MaxEmissions
    BY <1>2, <2>3
  <2>5. (n + 1) * R = n * R + R
    BY <1>2
  <2> QED
    BY <1>5, <2>1, <2>4, <2>5 DEF RoundsAreWhole, StreamAssumption
<1>9. StampsAreLate'
  <2>1. \A i \in 1..L : (at(i))' = at(i) /\ at(i) \in Int /\ at(i) <= now
    BY <1>2, <1>5, EntriesHaveTimes DEF at, StreamTypes, WorkInv, StampsAreLate
  <2>2. \A i \in (L + 1)..(L + R) : (at(i))' = t
    <3>1. \A i \in (L + 1)..(L + R) : i - L \in 1..R
      BY <1>2
    <3> QED
      BY <1>3, <1>5, <3>1 DEF at
  <2> SUFFICES ASSUME NEW i \in 1..(L + R)
               PROVE  (at(i))' <= now /\ \A j \in 1..(i - 1) : (at(j))' <= (at(i))' + EmitDelay
    BY <1>5, <1>6 DEF StampsAreLate
  <2>3. CASE i \in 1..L
    <3>1. \A j \in 1..(i - 1) : j \in 1..L
      BY <2>3, <1>2
    <3> QED
      BY <2>1, <2>3, <3>1 DEF WorkInv, StampsAreLate
  <2>4. CASE i \in (L + 1)..(L + R)
    <3>1. ASSUME NEW j \in 1..(i - 1)
          PROVE  (at(j))' <= t + EmitDelay
      <4>1. j \in 1..L \/ j \in (L + 1)..(L + R)
        BY <1>2
      <4> QED
        BY <1>2, <2>1, <2>2, <4>1
    <3> QED
      BY <1>2, <2>2, <2>4, <3>1
  <2> QED
    BY <1>2, <2>3, <2>4
<1>10. BufferHoldsTheGaps'
  BY <1>2, <1>5, <1>6, MemoryStays DEF WorkInv
<1> QED
  BY <1>7, <1>8, <1>9, <1>10 DEF WorkInv

\* serve_group: entries are delivered and pending; nothing is scored.
LEMMA ServingKeepsWorkInv ==
  ASSUME StreamAssumption, StreamInv, StreamInv', WorkInv, xreadgroup \/ xreadgroup_fails
  PROVE  WorkInv'
<1>1. /\ UNCHANGED <<now, entries, first, buffer, found, scored, dropped, inherited>>
      /\ serve_group /\ step = "read"
      /\ \/ batch' = taken /\ step' = "score"
         \/ UNCHANGED <<batch, step>>
  BY DEF xreadgroup, xreadgroup_fails
<1>2. /\ delivered' \in 0..Len(entries) /\ delivered' >= delivered
      /\ taken \in Seq(1..delivered') /\ taken # <<>>
  BY <1>1, ServingKeepsHands
<1>3. delivered \in Nat /\ StreamTypes
  BY DEF StreamInv, StreamTypes
<1>4. pel' \subseteq 1..delivered' /\ dropped' \subseteq 1..delivered'
  <2>1. pel' = pel \cup ToSet(taken)
    BY <1>1 DEF serve_group
  <2>2. ToSet(taken) \subseteq 1..delivered'
    BY <1>2 DEF ToSet
  <2>3. 1..delivered \subseteq 1..delivered'
    BY <1>2, <1>3
  <2> QED
    BY <1>1, <2>1, <2>2, <2>3 DEF WorkInv, HandsAreKnown
<1>5. HandsAreKnown'
  BY <1>1, <1>2, <1>4 DEF WorkInv, HandsAreKnown, ToSet
<1>6. (RoundsAreWhole /\ StampsAreLate)'
  BY <1>1 DEF WorkInv, RoundsAreWhole, StampsAreLate, at
<1>7. BufferHoldsTheGaps'
  BY <1>1, <1>3, MemoryStays DEF WorkInv, StreamTypes
<1> QED
  BY <1>5, <1>6, <1>7 DEF WorkInv

\* A handler that raises, a persisted incident and an acknowledgement leave
\* the readings and the buffer alone.
LEMMA HandlingKeepsWorkInv ==
  ASSUME StreamAssumption, StreamInv, WorkInv,
         process_raises \/ persist_incident \/ xack \/ xack_fails
  PROVE  WorkInv'
<1>1. UNCHANGED <<now, entries, first, delivered, buffer, scored, inherited>>
  BY DEF process_raises, persist_incident, xack, xack_fails, transportVars
<1>2. StreamTypes /\ now \in Int
  BY DEF StreamInv, StreamTypes
<1>3. HandsAreKnown'
  <2>1. CASE process_raises
    <3>1. /\ UNCHANGED <<pel, batch, found>> /\ step = "score" /\ step' = "ack"
          /\ dropped' = dropped \cup {Head(batch)} /\ batch # <<>>
      BY <2>1, <1>2 DEF process_raises, StreamTypes
    <3>2. Head(batch) \in 1..delivered
      BY <3>1, <1>2 DEF StreamTypes
    <3> QED
      BY <1>1, <3>1, <3>2 DEF WorkInv, HandsAreKnown, ToSet
  <2>2. CASE persist_incident
    <3>1. /\ UNCHANGED <<pel, batch, dropped>> /\ step = "persist" /\ step' = "ack" /\ found' = {}
      BY <2>2 DEF persist_incident
    <3> QED
      BY <1>1, <3>1 DEF WorkInv, HandsAreKnown, ToSet
  <2>3. CASE xack \/ xack_fails
    <3>1. /\ UNCHANGED <<found, dropped>> /\ step = "ack" /\ pel' \subseteq pel
          /\ batch' = Tail(batch)
          /\ step' = IF Tail(batch) = <<>> THEN "read" ELSE "score"
      BY <2>3 DEF xack, xack_fails, NextMessage
    <3> QED
      BY <1>1, <3>1 DEF WorkInv, HandsAreKnown, ToSet
  <2> QED
    BY <2>1, <2>2, <2>3
<1>4. (RoundsAreWhole /\ StampsAreLate)'
  BY <1>1 DEF WorkInv, RoundsAreWhole, StampsAreLate, at
<1>5. BufferHoldsTheGaps'
  BY <1>1, <1>2, MemoryStays DEF WorkInv
<1> QED
  BY <1>3, <1>4, <1>5 DEF WorkInv

\* A new process has seen nothing.
LEMMA RestartKeepsWorkInv ==
  ASSUME StreamAssumption, StreamInv, WorkInv, crash \/ shutdown
  PROVE  WorkInv'
<1>1. /\ UNCHANGED <<now, entries, first, delivered, scored>>
      /\ batch' = <<>> /\ step' = "read" /\ buffer' = {} /\ found' = {}
      /\ inherited' = Len(scored) /\ pel' \subseteq pel
      /\ dropped' = dropped \/ (step = "score" /\ dropped' = dropped \cup {Head(batch)})
  BY DEF crash, shutdown, Restarted, transportVars
<1>2. StreamTypes /\ Len(scored) \in Nat
  BY DEF StreamInv, StreamTypes
<1>3. dropped' \subseteq 1..delivered
  <2>1. step = "score" => Head(batch) \in 1..delivered
    BY <1>2 DEF StreamTypes
  <2> QED
    BY <1>1, <2>1 DEF WorkInv, HandsAreKnown
<1>4. HandsAreKnown'
  BY <1>1, <1>2, <1>3 DEF WorkInv, HandsAreKnown, ToSet
<1>5. (RoundsAreWhole /\ StampsAreLate)'
  BY <1>1 DEF WorkInv, RoundsAreWhole, StampsAreLate, at
<1>6. seen' = {}
  BY <1>1, <1>2 DEF seen
<1> QED
  BY <1>1, <1>4, <1>5, <1>6 DEF WorkInv, BufferHoldsTheGaps

\* _process_reading: the reading is scored; an anomalous one is seen, the
\* buffer is what is seen of the last three gaps, and the anomaly is what is
\* correlated there.
LEMMA ReadingIsRemembered ==
  ASSUME StreamAssumption, StreamInv, WorkInv, process_reading,
         NEW i, i = Head(batch)
  PROVE  /\ UNCHANGED <<now, entries, first, delivered, pel, batch, dropped, inherited>>
         /\ i \in 1..delivered /\ ToSet(scored') = ToSet(scored) \cup {i}
         /\ Len(scored') = Len(scored) + 1
         /\ \A j \in ToSet(scored) : j < i
         /\ IF entries[i].anomalous
              THEN /\ seen' = seen \cup {i}
                   /\ buffer' = {j \in seen' : at(j) > now - 3 * MaxGap}
                   /\ found' = correlate(buffer', equipment(i))
              ELSE UNCHANGED <<seen, buffer, found>>
<1>1. /\ UNCHANGED <<now, entries, first, delivered, pel, batch, dropped, inherited>>
      /\ scored' = Append(scored, i) /\ step = "score"
      /\ IF entries[i].anomalous
           THEN buffer' = prune(buffer \cup {i}) /\ found' = correlate(buffer', equipment(i))
           ELSE UNCHANGED <<buffer, found>>
  BY DEF process_reading, transportVars
<1>2. StreamTypes /\ batch # <<>>
  BY <1>1 DEF StreamInv, StreamTypes
<1>3. i = batch[1] /\ i \in 1..delivered /\ scored \in Seq(1..delivered) /\ delivered \in Nat
  BY <1>2 DEF StreamTypes
<1>4. ToSet(scored') = ToSet(scored) \cup {i}
  BY <1>1, <1>3, ToSetAppend
<1>5. \A j \in ToSet(scored) : j < i
  <2>1. \A m \in 1..Len(scored) : scored[m] < i
    BY <1>1, <1>3 DEF StreamInv, InHandIsAhead
  <2>2. DOMAIN scored = 1..Len(scored)
    BY <1>3
  <2> QED
    BY <2>1, <2>2 DEF ToSet
<1>6. /\ Len(scored') = Len(scored) + 1 /\ Len(scored) \in Nat
      /\ scored'[Len(scored) + 1] = i
      /\ \A m \in 1..Len(scored) : scored'[m] = scored[m]
  BY <1>1, <1>3
<1>7. seen' = IF entries[i].anomalous THEN seen \cup {i} ELSE seen
  <2> DEFINE N == Len(scored)
             A(m) == m > inherited /\ entries[scored[m]].anomalous
  <2>1. seen' = {scored'[n] : n \in {m \in 1..(N + 1) : m > inherited /\ entries[scored'[m]].anomalous}}
    BY <1>1, <1>6 DEF seen
  <2>2. seen = {scored[n] : n \in {m \in 1..N : A(m)}}
    BY DEF seen
  <2>3. \A m \in 1..(N + 1) : m \in 1..N \/ m = N + 1
    BY <1>6
  <2>4. N + 1 > inherited /\ N + 1 \in 1..(N + 1) /\ \A m \in 1..N : m \in 1..(N + 1)
    BY <1>6 DEF WorkInv, HandsAreKnown
  <2>5. ASSUME NEW j \in seen'
        PROVE  j \in seen \/ (entries[i].anomalous /\ j = i)
    <3>1. PICK n \in 1..(N + 1) : j = scored'[n] /\ n > inherited /\ entries[scored'[n]].anomalous
      BY <2>1
    <3>2. CASE n \in 1..N
      BY <1>6, <2>2, <3>1, <3>2
    <3>3. CASE n = N + 1
      BY <1>6, <3>1, <3>3
    <3> QED
      BY <2>3, <3>2, <3>3
  <2>6. seen \subseteq seen'
    <3>1. \A m \in 1..N : A(m) => scored'[m] = scored[m] /\ m \in 1..(N + 1)
      BY <1>6, <2>4
    <3> QED
      BY <2>1, <2>2, <3>1
  <2>7. entries[i].anomalous => i \in seen'
    BY <1>6, <2>1, <2>4
  <2> QED
    BY <2>5, <2>6, <2>7
<1>8. ASSUME entries[i].anomalous
      PROVE  buffer' = {j \in seen' : at(j) > now - 3 * MaxGap}
  <2>1. buffer' = {j \in buffer \cup {i} : at(j) > now - 3 * MaxGap}
    BY <1>1, <1>8 DEF prune
  <2> QED
    BY <1>7, <1>8, <2>1 DEF WorkInv, BufferHoldsTheGaps
<1> QED
  BY <1>1, <1>3, <1>4, <1>5, <1>6, <1>7, <1>8

\* A scored reading that is no anomaly, or is one and is remembered.
LEMMA ScoringKeepsWorkInv ==
  ASSUME StreamAssumption, StreamInv, StreamInv', WorkInv, process_reading
  PROVE  WorkInv'
<1> DEFINE i == Head(batch)
<1>1. /\ UNCHANGED <<now, entries, first, delivered, pel, batch, dropped, inherited>>
      /\ i \in 1..delivered /\ ToSet(scored') = ToSet(scored) \cup {i}
      /\ Len(scored') = Len(scored) + 1
      /\ IF entries[i].anomalous
           THEN /\ seen' = seen \cup {i}
                /\ buffer' = {j \in seen' : at(j) > now - 3 * MaxGap}
                /\ found' = correlate(buffer', equipment(i))
           ELSE UNCHANGED <<seen, buffer, found>>
  BY ReadingIsRemembered
<1> HIDE DEF i
<1>2. step = "score" /\ step' = IF found' # {} THEN "persist" ELSE "ack"
  BY DEF process_reading
<1>3. StreamTypes /\ StreamTypes' /\ Len(scored) \in Nat
  BY DEF StreamInv, StreamTypes
<1>4. found' \subseteq ToSet(scored')
  <2>1. CASE entries[i].anomalous
    <3>1. seen' \subseteq ToSet(scored') /\ seen' \subseteq 1..Len(entries)
      BY <1>1, <1>3, <2>1, SeenWasDelivered
    <3>2. buffer' \in SUBSET (1..Len(entries)) /\ buffer' \subseteq ToSet(scored')
      BY <1>1, <2>1, <3>1
    <3>3. found' = {} \/ found' = Chain(by_equipment(buffer', equipment(i)))
      BY <1>1, <1>3, <2>1, <3>2, CorrelatedIsTheChain
    <3> QED
      BY <3>2, <3>3 DEF Chain, by_equipment
  <2>2. CASE ~ entries[i].anomalous
    BY <1>1, <2>2 DEF WorkInv, HandsAreKnown
  <2> QED
    BY <2>1, <2>2
<1>5. HandsAreKnown'
  <2>1. inherited \in 0..Len(scored')
    BY <1>1, <1>3 DEF WorkInv, HandsAreKnown
  <2>2. batch # <<>> /\ step' # "read" /\ (step' = "persist" <=> found' # {})
    BY <1>2, <1>3 DEF StreamTypes
  <2> QED
    BY <1>1, <1>4, <2>1, <2>2 DEF WorkInv, HandsAreKnown
<1>6. (RoundsAreWhole /\ StampsAreLate)'
  BY <1>1 DEF WorkInv, RoundsAreWhole, StampsAreLate, at
<1>7. BufferHoldsTheGaps'
  <2>1. \A j : (at(j))' = at(j)
    BY <1>1 DEF at
  <2>2. CASE entries[i].anomalous
    BY <1>1, <2>1, <2>2 DEF BufferHoldsTheGaps
  <2>3. CASE ~ entries[i].anomalous
    BY <1>1, <2>1, <2>3 DEF WorkInv, BufferHoldsTheGaps
  <2> QED
    BY <2>2, <2>3
<1> QED
  BY <1>5, <1>6, <1>7 DEF WorkInv

-----------------------------------------------------------------------------
(* Theorems *)

\* StreamInv holds in every reachable state of the consumer, whatever fails.
THEOREM StreamInvariant == Spec => []StreamInv
<1> USE StreamAssumption
<1>1. Init => StreamInv
  BY StreamInit
<1>2. StreamInv /\ [Next]_vars => StreamInv'
  <2> SUFFICES ASSUME StreamInv, [Next]_vars PROVE StreamInv'
    OBVIOUS
  <2>1. CASE tick
    <3>1. UNCHANGED <<entries, first, delivered, pel, batch, step, scored, dropped>>
      BY <2>1 DEF tick, transportVars
    <3>2. now' \in 0..MaxTime
      BY <2>1 DEF tick, StreamInv, StreamTypes, StreamAssumption
    <3>3. StreamTypes'
      BY <3>1, <3>2 DEF StreamInv, StreamTypes
    <3> QED
      BY <3>1, <3>3 DEF StreamInv, BatchInOrder, InHandIsAhead, HeadIsHandled,
         ScoredOnceInOrder, NothingAcknowledgedUnhandled
  <2>2. CASE UNCHANGED vars
    BY <2>2 DEF vars, transportVars, StreamInv, StreamTypes, BatchInOrder, InHandIsAhead,
       HeadIsHandled, ScoredOnceInOrder, NothingAcknowledgedUnhandled
  <2> QED
    BY <2>1, <2>2, ProducerKeepsStreamInv, ReadKeepsStreamInv, LostReadKeepsStreamInv,
       ScoringKeepsStreamInv, RaisingKeepsStreamInv, PersistingKeepsStreamInv,
       AckKeepsStreamInv, RestartKeepsStreamInv DEF Next, ConsumerStep
<1> QED
  BY <1>1, <1>2, PTL DEF Spec

\* consume_forever: entries are scored in stream order and none twice, whatever
\* is trimmed, lost or restarted.
THEOREM ScoresOnceInOrder == Spec => []ScoredOnceInOrder
  BY StreamInvariant, PTL DEF StreamInv

\* consume_forever: what the group was given is pending, scored or given up by
\* a handler that raised -- never acknowledged unhandled.
THEOREM AcknowledgesHandled == Spec => []NothingAcknowledgedUnhandled
  BY StreamInvariant, PTL DEF StreamInv

\* WorkInv holds in every reachable state of the consumer.
THEOREM WorkInvariant == Spec => [](StreamInv /\ WorkInv)
<1> USE StreamAssumption
<1>1. Init => WorkInv
  BY WorkInit
<1>2. StreamInv /\ StreamInv' /\ WorkInv /\ [Next]_vars => WorkInv'
  <2> SUFFICES ASSUME StreamInv, StreamInv', WorkInv, [Next]_vars PROVE WorkInv'
    OBVIOUS
  <2>1. CASE UNCHANGED vars
    BY <2>1 DEF vars, transportVars, WorkInv, HandsAreKnown, RoundsAreWhole, StampsAreLate,
       BufferHoldsTheGaps, at, seen
  <2> QED
    BY <2>1, TickKeepsWorkInv, EmitKeepsWorkInv, ServingKeepsWorkInv, ScoringKeepsWorkInv,
       HandlingKeepsWorkInv, RestartKeepsWorkInv DEF Next, ConsumerStep
<1> QED
  BY <1>1, <1>2, StreamInvariant, PTL DEF Spec

\* Type correctness of the stream, the group and the consumer.
THEOREM StreamTypesHold == Spec => []StreamTypeOK
<1>1. StreamInv /\ WorkInv => StreamTypeOK
  <2> SUFFICES ASSUME StreamInv, WorkInv PROVE StreamTypeOK
    OBVIOUS
  <2>1. Len(entries) \in 0..(MaxEmissions * Len(Registry))
    <3>1. PICK n \in 0..MaxEmissions : Len(entries) = n * Len(Registry)
      BY DEF WorkInv, RoundsAreWhole
    <3>2. Len(Registry) \in Nat /\ Len(entries) \in Nat /\ MaxEmissions \in Nat
      BY StreamAssumption DEF StreamAssumption, StreamInv, StreamTypes
    <3>3. \A a, b, c \in Nat : a <= b => a * c <= b * c /\ b * c \in Nat
      OBVIOUS
    <3>4. n \in Nat /\ n <= MaxEmissions
      BY <3>2
    <3>5. n * Len(Registry) <= MaxEmissions * Len(Registry) /\ MaxEmissions * Len(Registry) \in Nat
      BY <3>2, <3>3, <3>4
    <3> QED
      BY <3>1, <3>2, <3>5
  <2>2. buffer \cup found \subseteq ToSet(scored) /\ ToSet(scored) \cup dropped \subseteq 1..delivered
    BY SeenWasDelivered DEF StreamInv, WorkInv, HandsAreKnown, BufferHoldsTheGaps
  <2> QED
    BY <2>1, <2>2 DEF StreamTypeOK, StreamInv, StreamTypes, WorkInv, HandsAreKnown
<1> QED
  BY <1>1, WorkInvariant, PTL

\* What is scored next and what is persisted of it, in the terms of the step.
LEMMA PersistedIsTheLiveChain ==
  ASSUME StreamAssumption, StreamInv, WorkInv, process_reading, NEW i, i = Head(batch),
         entries[i].anomalous
  PROVE  /\ found' # {} => found' = (LiveChain(equipment(Head(batch))))'
         /\ MaxGap # 0 /\ now - at(i) <= MaxGap =>
              /\ i \in by_equipment(buffer', equipment(i))
              /\ found' = Chain(by_equipment(buffer', equipment(i)))
<1>1. /\ UNCHANGED <<now, entries, first, delivered, pel, batch, dropped, inherited>>
      /\ i \in 1..delivered /\ seen' = seen \cup {i}
      /\ buffer' = {j \in seen' : at(j) > now - 3 * MaxGap}
      /\ found' = correlate(buffer', equipment(i))
  BY ReadingIsRemembered
<1>2. StreamTypes
  BY DEF StreamInv
<1>3. buffer' \in SUBSET (1..Len(entries))
  BY <1>1, <1>2, SeenWasDelivered
<1> DEFINE S == by_equipment(buffer', equipment(i))
<1>4. /\ correlate(buffer', equipment(i)) # {} => correlate(buffer', equipment(i)) = Chain(S)
      /\ \A j \in S : now - at(j) <= MaxGap => correlate(buffer', equipment(i)) = Chain(S)
  BY <1>2, <1>3, CorrelatedIsTheChain
<1>5. (LiveChain(equipment(Head(batch))))' = Chain(S)
  <2>1. (equipment(Head(batch)))' = equipment(i) /\ \A j : (at(j))' = at(j) /\ (equipment(j))' = equipment(j)
    BY <1>1 DEF at, equipment
  <2>2. {j \in seen' : equipment(j) = equipment(i) /\ at(j) > now - 3 * MaxGap} = S
    BY <1>1 DEF by_equipment
  <2> QED
    BY <1>1, <2>1, <2>2 DEF LiveChain, Chain
<1>6. MaxGap # 0 /\ now - at(i) <= MaxGap => i \in S
  <2>1. i \in 1..Len(entries)
    BY <1>1, <1>2, SeenWasDelivered
  <2>2. at(i) \in Int /\ now \in Int /\ MaxGap \in Nat
    BY <1>2, <2>1, EntriesHaveTimes DEF StreamTypes, StreamAssumption
  <2>3. MaxGap # 0 /\ now - at(i) <= MaxGap => at(i) > now - 3 * MaxGap
    BY <2>2
  <2> QED
    BY <1>1, <2>3 DEF by_equipment
<1> HIDE DEF S
<1> QED
  BY <1>1, <1>4, <1>5, <1>6 DEF S

\* docs/ingestion-pipeline.md, Correlation window logic: the anomaly that is
\* persisted after a reading is scored is the whole live chain of its
\* equipment, for every window, gap, order of timestamps and restart.
THEOREM PersistsTheWholeChain == Spec => PersistsTheLiveChain
<1> USE StreamAssumption
<1>1. StreamInv /\ WorkInv /\ [Next]_vars =>
        [step = "score" /\ step' = "persist" => (found = LiveChain(equipment(Head(batch))))']_vars
  <2> SUFFICES ASSUME StreamInv, WorkInv, Next, step = "score", step' = "persist"
               PROVE  found' = (LiveChain(equipment(Head(batch))))'
    BY DEF vars
  <2>1. process_reading
    BY DEF Next, tick, emit_all_sensors, ConsumerStep, xreadgroup, xreadgroup_fails,
       process_raises, persist_incident, xack, xack_fails, crash, shutdown, Restarted
  <2>2. found = {} /\ found' # {}
    BY <2>1 DEF process_reading, WorkInv, HandsAreKnown
  <2>3. entries[Head(batch)].anomalous
    BY <2>1, <2>2 DEF process_reading
  <2> QED
    BY <2>1, <2>2, <2>3, PersistedIsTheLiveChain
<1> QED
  BY <1>1, WorkInvariant, PTL DEF Spec, PersistsTheLiveChain

\* _register_anomaly: as long as an emission takes no longer than the window,
\* a reading that is anomalous and no older than the gap when it is scored is
\* in the anomaly that is persisted.
THEOREM FreshIsPersisted ==
  ASSUME EmitDelay <= Window, MaxGap # 0
  PROVE  Spec => FreshAnomalyIsPersisted
<1> USE StreamAssumption
<1>1. StreamInv /\ WorkInv /\ [Next]_vars =>
        [\A i \in ToSet(scored') \ ToSet(scored) :
           entries[i].anomalous /\ now - at(i) <= MaxGap => i \in found']_vars
  <2> SUFFICES ASSUME StreamInv, WorkInv, Next,
                      NEW i \in ToSet(scored') \ ToSet(scored),
                      entries[i].anomalous, now - at(i) <= MaxGap
               PROVE  i \in found'
    BY DEF vars
  <2>1. process_reading
    <3>1. scored' # scored
      OBVIOUS
    <3> QED
      BY <3>1 DEF Next, tick, emit_all_sensors, ConsumerStep, xreadgroup, xreadgroup_fails,
         process_raises, persist_incident, xack, xack_fails, crash, shutdown, Restarted
  <2>2. PICK h : h = Head(batch)
    OBVIOUS
  <2>3. /\ i = h /\ i \in 1..delivered /\ ToSet(scored') = ToSet(scored) \cup {i}
        /\ \A j \in ToSet(scored) : j < i
        /\ seen' = seen \cup {i} /\ buffer' = {j \in seen' : at(j) > now - 3 * MaxGap}
    BY <2>1, <2>2, ReadingIsRemembered
  <2> DEFINE S == by_equipment(buffer', equipment(i))
  <2>4. i \in S /\ found' = Chain(S)
    BY <2>1, <2>2, <2>3, PersistedIsTheLiveChain
  <2>5. /\ \A k \in S : k \in 1..i /\ at(k) \in Int
        /\ i \in 1..Len(entries) /\ at(i) \in Int
    <3>1. S \subseteq seen \cup {i}
      BY <2>3 DEF by_equipment
    <3>2. /\ seen \subseteq ToSet(scored) /\ ToSet(scored) \subseteq 1..delivered
          /\ 1..delivered \subseteq 1..Len(entries)
      BY SeenWasDelivered DEF StreamInv
    <3>3. \A k \in 1..Len(entries) : at(k) \in Int
      BY EntriesHaveTimes DEF StreamInv, StreamTypes
    <3> HIDE DEF S
    <3>4. ASSUME NEW k \in S
          PROVE  k \in 1..i /\ k \in 1..Len(entries)
      <4>1. k \in 1..Len(entries) /\ (k < i \/ k = i) /\ i \in 1..Len(entries)
        BY <2>3, <3>1, <3>2
      <4> QED
        BY <4>1
    <3> QED
      BY <2>3, <3>2, <3>3, <3>4
  <2>6. \A k \in S : at(k) - at(i) <= Window
    <3> HIDE DEF S
    <3> SUFFICES ASSUME NEW k \in S PROVE at(k) - at(i) <= Window
      OBVIOUS
    <3>1. Window \in Nat /\ EmitDelay \in Nat
      BY DEF StreamAssumption
    <3>2. k = i \/ k \in 1..(i - 1)
      BY <2>5
    <3>3. k \in 1..(i - 1) => at(k) <= at(i) + EmitDelay
      BY <2>5 DEF WorkInv, StampsAreLate
    <3> QED
      BY <2>5, <3>1, <3>2, <3>3
  <2>7. ASSUME NEW j \in S, at(j) >= at(i), NEW k \in S, ~ (at(k) <= at(j))
        PROVE  at(k) > at(j) /\ at(k) - at(j) <= Window
    <3>1. at(j) \in Int /\ at(k) \in Int /\ at(i) \in Int /\ Window \in Int
      BY <2>5 DEF StreamAssumption
    <3> QED
      BY <2>6, <2>7, <3>1
  <2> QED
    BY <2>4, <2>7 DEF Chain
<1> QED
  BY <1>1, WorkInvariant, PTL DEF Spec, FreshAnomalyIsPersisted
=============================================================================
