--------------------------- MODULE TelemetryProofs ---------------------------
(* Proofs about Telemetry: what was recorded is never lost, what was stored  *)
(* never changes, the terminal counts bound what is stored and cover the     *)
(* spool, and the epoch is current.  About MlflowOutbox: nothing is          *)
(* projected twice.                                                          *)
EXTENDS Telemetry, MlflowOutbox, FiniteSetTheorems, TLAPS

USE DEF Attempts, Ordinals, Sequences

\* A batch is its parts, and its rows and counter are in range.
LEMMA BatchParts ==
    ASSUME NEW b \in Batches
    PROVE  /\ b[1] \in Attempts /\ b[2] \in Kinds
           /\ b[3] \in Ordinals /\ b[4] \in Sequences /\ b[5] \in Sources /\ b[6] \in Nat
           /\ Size(b[2], b[5]) \in Nat \ {0} /\ b[4] + Size(b[2], b[5]) <= MaxSequence
           /\ SlotsOf(b) \subseteq Slots /\ CounterOf(b) \in Counters
           /\ \A p \in SlotsOf(b) : p[1] = b[1] /\ <<p[1], p[2]>> = CounterOf(b)
  <1> USE TelemetryAssumption
  <1>1. /\ b[1] \in Attempts /\ b[2] \in Kinds
        /\ b[3] \in Ordinals /\ b[4] \in Sequences /\ b[5] \in Sources /\ b[6] \in Nat
        /\ b[4] + Size(b[2], b[5]) <= MaxSequence
    BY DEF Batches
  <1>2. Size(b[2], b[5]) \in Nat \ {0}
    BY <1>1 DEF Size
  <1>3. \A s \in b[4]..(b[4] + Size(b[2], b[5]) - 1) : s \in Sequences
    BY <1>1, <1>2
  <1>4. SlotsOf(b) \subseteq Slots
    BY <1>1, <1>3 DEF SlotsOf, Slots
  <1>5. CounterOf(b) \in Counters /\ \A p \in SlotsOf(b) : p[1] = b[1] /\ <<p[1], p[2]>> = CounterOf(b)
    BY <1>1 DEF CounterOf, Counters, SlotsOf
  <1> QED BY <1>1, <1>2, <1>4, <1>5

\* What the Manager may answer.
LEMMA AnswerRange == \A b : Answer(b) \in Answers
  BY DEF Answer, Answers, Refusals

\* The effect of one request on the Manager's tables: only the rows of the
\* batch can be filled, and only when they were empty or held the same event.
LEMMA IngestEffect ==
    ASSUME TypeOK, NEW b \in Batches, Ingest(b)
    PROVE  /\ stored' \in [Slots -> Ordinals \cup {None}]
           /\ ingested' \subseteq Batches
           /\ epoch' \in 0..MaxEvents
           /\ \A p \in Slots : stored[p] # None => stored'[p] = stored[p]
           /\ \A p \in Slots : stored'[p] # stored[p] => p \in SlotsOf(b) /\ Admitted(b)
           /\ \A c \in ingested' : c \in ingested \/ (c = b /\ Answer(b) = "accepted")
           /\ Answer(b) = "accepted" => \A p \in SlotsOf(b) : stored'[p] = b[3]
  <1> USE TelemetryAssumption
  <1>1. b[3] \in Ordinals /\ SlotsOf(b) \subseteq Slots
    BY BatchParts
  <1>2. CASE Answer(b) = "accepted"
    <2>1. /\ stored' = [p \in Slots |-> IF p \in SlotsOf(b) THEN b[3] ELSE stored[p]]
          /\ ingested' = ingested \cup {b}
          /\ epoch' = ProjectedEpoch(b)
      BY <1>2 DEF Ingest
    <2>2. Admitted(b) /\ \A p \in SlotsOf(b) : stored[p] \in {None, b[3]}
      BY <1>2 DEF Answer
    <2>3. epoch' \in 0..MaxEvents
      BY <1>1, <2>1 DEF ProjectedEpoch, TypeOK
    <2>4. \A p \in Slots : stored'[p] = IF p \in SlotsOf(b) THEN b[3] ELSE stored[p]
      BY <2>1
    <2>5. stored' \in [Slots -> Ordinals \cup {None}]
      BY <1>1, <2>1 DEF TypeOK
    <2>6. ingested' \subseteq Batches
      BY <2>1 DEF TypeOK
    <2> QED BY <1>1, <1>2, <2>1, <2>2, <2>3, <2>4, <2>5, <2>6
  <1>3. CASE Answer(b) # "accepted"
    BY <1>3 DEF Ingest, TypeOK
  <1> QED BY <1>2, <1>3

\* A producer records for the open session and leaves the Manager and the flush alone.
LEMMA RecordFrame ==
    ASSUME TypeOK, NEW k \in Kinds, NEW x \in Sources, Record(k, x)
    PROVE  /\ session \in Attempts /\ session # 0 /\ <<session, k>> \in Counters
           /\ UNCHANGED <<managerVars, session, sealed, dead, flushVars>>
  <1>1. session # 0 /\ Produce(k, x)
    BY DEF Record
  <1>2. session \in 0..MaxAttempts
    BY DEF TypeOK
  <1>3. session \in Attempts
    BY <1>1, <1>2, TelemetryAssumption
  <1>4. <<session, k>> \in Counters
    BY <1>3 DEF Counters
  <1>5. UNCHANGED <<managerVars, session, sealed, dead, flushVars>>
    BY <1>1 DEF Produce
  <1> QED BY <1>1, <1>3, <1>4, <1>5

-----------------------------------------------------------------------------

\* Every variable keeps its type: the counters of a session stay within their bounds.
THEOREM TypeCorrect == Spec => []TypeOK
  <1> USE TelemetryAssumption
  <1>1. Init => TypeOK
    BY DEF Init, TypeOK
  <1>2. TypeOK /\ [Next]_vars => TypeOK'
    <2> SUFFICES ASSUME TypeOK, [Next]_vars PROVE TypeOK'
      OBVIOUS
    <2>1. ASSUME NEW a \in Attempts, Start(a) PROVE TypeOK'
      <3>1. phase' \in [Attempts -> {"none", "active", "expired", "reported", "lost"}]
        BY <2>1 DEF TypeOK, Start
      <3>2. session' \in 0..MaxAttempts /\ pendingEpoch' \in 0..MaxEvents /\ epoch' \in 0..MaxEvents
        BY <2>1 DEF Start
      <3> QED BY <2>1, <3>1, <3>2 DEF TypeOK, Start, spoolVars, flushVars
    <2>2. ASSUME NEW a \in Attempts, Cancel(a) PROVE TypeOK'
      BY <2>2 DEF TypeOK, Cancel, sessionVars, spoolVars, flushVars
    <2>3. ASSUME NEW a \in Attempts, Expire(a) PROVE TypeOK'
      BY <2>3 DEF TypeOK, Expire, sessionVars, spoolVars, flushVars
    <2>4. ASSUME NEW a \in Attempts, Recover(a) PROVE TypeOK'
      BY <2>4 DEF TypeOK, Recover, sessionVars, spoolVars, flushVars
    <2>5. ASSUME NEW k \in Kinds, NEW x \in Sources, Record(k, x) PROVE TypeOK'
      <3> DEFINE c == <<session, k>>
                 n == events[c] + 1
                 b == <<session, k, n, next[c], x, IF x = "system" THEN snapshots[session] ELSE n>>
      <3>1. /\ events[c] < MaxEvents /\ c \in Counters /\ session \in Attempts
            /\ next[c] + Size(k, x) <= MaxSequence
            /\ events' = [events EXCEPT ![c] = n]
            /\ UNCHANGED <<managerVars, session, sealed, dead, flushVars>>
        BY <2>5, RecordFrame DEF Record, Produce
      <3>2. /\ recorded' \in {recorded, recorded \cup {b}}
            /\ pending' \in {pending, pending \cup {b}}
            /\ next' \in {next, [next EXCEPT ![c] = next[c] + Size(k, x)]}
            /\ snapshots' \in {snapshots, [snapshots EXCEPT ![session] = snapshots[session] + 1]}
            /\ pendingEpoch' \in {pendingEpoch, n}
            /\ upsets' \in {upsets, upsets + 1}
        BY <2>5 DEF Record, Produce, Upset
      <3>3. /\ n \in 1..MaxEvents /\ next[c] \in Sequences /\ snapshots[session] \in Nat
            /\ Size(k, x) \in Nat \ {0}
        BY <3>1 DEF TypeOK, Size
      <3>4. next[c] + Size(k, x) \in Sequences /\ snapshots[session] + 1 \in Nat
        BY <3>1, <3>3
      <3>5. b \in Batches
        <4>1. (IF x = "system" THEN snapshots[session] ELSE n) \in Nat
          BY <3>3
        <4> HIDE DEF n
        <4> QED BY <3>1, <3>3, <4>1 DEF Batches
      <3> HIDE DEF c, b, n
      <3>6. events' \in [Counters -> 0..MaxEvents] /\ pendingEpoch' \in 0..MaxEvents /\ upsets' \in Nat
        <4>1. events \in [Counters -> 0..MaxEvents] /\ pendingEpoch \in 0..MaxEvents /\ upsets \in Nat
          BY DEF TypeOK
        <4> QED BY <3>1, <3>2, <3>3, <4>1
      <3>7. [next EXCEPT ![c] = next[c] + Size(k, x)] \in [Counters -> Sequences]
        BY <3>1, <3>4 DEF TypeOK
      <3>8. [snapshots EXCEPT ![session] = snapshots[session] + 1] \in [Attempts -> Nat]
        BY <3>1, <3>4 DEF TypeOK
      <3>9. next' \in [Counters -> Sequences] /\ snapshots' \in [Attempts -> Nat]
        BY <3>2, <3>7, <3>8 DEF TypeOK
      <3>10. recorded' \subseteq Batches /\ pending' \subseteq Batches
        BY <3>2, <3>5 DEF TypeOK
      <3> QED BY <3>1, <3>6, <3>9, <3>10 DEF TypeOK, managerVars, flushVars
    <2>6. CASE Seal
      BY <2>6 DEF TypeOK, Seal, managerVars, spoolVars, flushVars
    <2>7. CASE ReportTerminal
      <3>1. phase' \in [Attempts -> {"none", "active", "expired", "reported", "lost"}]
        BY <2>7 DEF TypeOK, ReportTerminal
      <3>2. watermark' \in [Counters -> Sequences \cup {None}]
        BY <2>7 DEF TypeOK, ReportTerminal, ReportedCount
      <3>3. session' \in 0..MaxAttempts
        BY <2>7 DEF ReportTerminal
      <3> QED BY <2>7, <3>1, <3>2, <3>3 DEF TypeOK, ReportTerminal, spoolVars, flushVars
    <2>8. CASE ReportFailed
      <3>1. session' \in 0..MaxAttempts
        BY <2>8 DEF ReportFailed
      <3> QED BY <2>8, <3>1 DEF TypeOK, ReportFailed, managerVars, spoolVars, flushVars
    <2>9. CASE ReportEpoch
      BY <2>9 DEF TypeOK, ReportEpoch, sessionVars, spoolVars, flushVars
    <2>10. CASE Crash
      BY <2>10 DEF TypeOK, Crash, managerVars, spoolVars
    <2>11. CASE StartFlush
      BY <2>11 DEF TypeOK, StartFlush, managerVars, sessionVars, spoolVars
    <2>12. CASE Receive
      <3>1. wire \in Batches \X Answers /\ wire' = None
        BY <2>12 DEF Receive, TypeOK
      <3>2. wire[2] \in Refusals => wire \in Batches \X Refusals
        BY <3>1
      <3>3. /\ pending' \subseteq pending /\ cursor' \subseteq cursor
            /\ dead' = dead \/ (wire[2] \in Refusals /\ dead' = dead \cup {wire})
            /\ UNCHANGED <<managerVars, sessionVars, recorded, delayed, upsets>>
        BY <2>12 DEF Receive
      <3> QED BY <3>1, <3>2, <3>3 DEF TypeOK, managerVars, sessionVars
    <2>13. CASE Lose
      BY <2>13 DEF TypeOK, Lose, managerVars, sessionVars, spoolVars
    <2>14. ASSUME NEW b \in cursor, TimeOut(b) PROVE TypeOK'
      BY <2>14 DEF TypeOK, TimeOut, Upset, managerVars, sessionVars, spoolVars
    <2>15. ASSUME NEW b \in cursor, Send(b) PROVE TypeOK'
      <3>1. b \in Batches
        BY DEF TypeOK
      <3>2. wire' \in Batches \X Answers
        BY <2>15, <3>1, AnswerRange DEF Send
      <3> QED BY <2>15, <3>1, <3>2, IngestEffect DEF TypeOK, Send, sessionVars, spoolVars
    <2>16. ASSUME NEW b \in delayed, Arrive(b) PROVE TypeOK'
      <3>1. b \in Batches
        BY DEF TypeOK
      <3> QED BY <2>16, <3>1, IngestEffect DEF TypeOK, Arrive, sessionVars, spoolVars
    <2>17. CASE UNCHANGED vars
      BY <2>17 DEF TypeOK, vars, managerVars, sessionVars, spoolVars, flushVars
    <2>18. CASE Revoke
      <3>1. upsets' \in Nat /\ barred' \subseteq {"revoked", "damaged"} /\ cancelling' \subseteq Attempts
        <4>1. upsets \in Nat /\ barred \subseteq {"revoked", "damaged"} /\ cancelling \subseteq Attempts
          BY DEF TypeOK
        <4>2. upsets' = upsets + 1 /\ barred' = barred \cup {"revoked"}
          BY <2>18 DEF Revoke, Upset
        <4>3. cancelling' \subseteq Attempts
          BY <2>18, <4>1 DEF Revoke
        <4> QED BY <4>1, <4>2, <4>3
      <3>2. phase' \in [Attempts -> {"none", "active", "expired", "reported", "lost"}]
        BY <2>18 DEF TypeOK, Revoke
      <3> QED BY <2>18, <3>1, <3>2 DEF TypeOK, Revoke, sessionVars, spoolVars, flushVars
    <2>19. CASE ReEnroll \/ DamageConfig
      <3>1. upsets' \in Nat /\ barred' \subseteq {"revoked", "damaged"}
        <4>1. upsets \in Nat /\ barred \subseteq {"revoked", "damaged"}
          BY DEF TypeOK
        <4>2. upsets' \in {upsets, upsets + 1} /\ barred' \in {barred \cup {"damaged"}, barred \ {"revoked"}}
          BY <2>19 DEF ReEnroll, DamageConfig, Upset
        <4> QED BY <4>1, <4>2
      <3>2. UNCHANGED <<phase, cancelling, watermark, stored, ingested, epoch, sessionVars, spoolVars,
                        flushVars>>
        BY <2>19 DEF ReEnroll, DamageConfig
      <3> QED BY <3>1, <3>2 DEF TypeOK, sessionVars, spoolVars, flushVars
    <2> QED BY <2>1, <2>2, <2>3, <2>4, <2>5, <2>6, <2>7, <2>8, <2>9, <2>10, <2>11,
               <2>12, <2>13, <2>14, <2>15, <2>16, <2>17, <2>18, <2>19 DEF Next
  <1> QED BY <1>1, <1>2, PTL DEF Spec

-----------------------------------------------------------------------------
(* The parts of the inductive invariant.                                   *)

\* What is on its way, being delivered or ingested was recorded; an ordinal is one of
\* the events its session was given.
InFlightRecorded ==
    /\ pending \subseteq recorded /\ cursor \subseteq recorded /\ delayed \subseteq recorded
    /\ wire # None => wire[1] \in recorded

OrdinalsUsed == \A b \in recorded : b[3] <= events[CounterOf(b)]

AllStored(b) == \A p \in SlotsOf(b) : stored[p] = b[3]

\* An ingested batch is in its rows, and so is the one that a good answer is about.
IngestedStored ==
    /\ \A b \in ingested : AllStored(b)
    /\ wire # None /\ wire[2] \in {"accepted", "duplicate"} => AllStored(wire[1])

DeliveryInv ==
    /\ TypeOK
    /\ InFlightRecorded
    /\ OrdinalsUsed
    /\ IngestedStored
    /\ NothingLost

\* A request that the Manager processes, sent just now or long ago, leaves every
\* ingested batch in its rows and takes nothing away.
LEMMA IngestKeepsRecords ==
    ASSUME DeliveryInv, NEW b \in recorded, Ingest(b), UNCHANGED <<recorded, pending, dead>>
    PROVE  /\ NothingLost'
           /\ \A c \in ingested' : AllStored(c)'
           /\ \A c \in Batches : AllStored(c) => AllStored(c)'
  <1> USE TelemetryAssumption
  <1>1. TypeOK /\ recorded \subseteq Batches /\ ingested \subseteq Batches
    BY DEF DeliveryInv, TypeOK
  <1>2. /\ \A p \in Slots : stored[p] # None => stored'[p] = stored[p]
        /\ \A c \in ingested' : c \in ingested \/ (c = b /\ Answer(b) = "accepted")
        /\ Answer(b) = "accepted" => \A p \in SlotsOf(b) : stored'[p] = b[3]
    BY <1>1, IngestEffect
  <1>3. ASSUME NEW c \in Batches, AllStored(c) PROVE AllStored(c)'
    <2>1. c[3] # None /\ SlotsOf(c) \subseteq Slots
      BY BatchParts
    <2> QED BY <1>2, <1>3, <2>1 DEF AllStored
  <1>4. ASSUME NEW c \in ingested' PROVE AllStored(c)'
    BY <1>1, <1>2, <1>3, <1>4 DEF DeliveryInv, IngestedStored, AllStored
  <1>5. NothingLost'
    <2>1. ASSUME NEW c \in recorded PROVE c \in pending \/ (\E d \in dead : d[1] = c) \/ AllStored(c)'
      BY <1>1, <1>3 DEF DeliveryInv, NothingLost, AllStored
    <2> QED BY <2>1 DEF NothingLost, AllStored
  <1> QED BY <1>3, <1>4, <1>5

\* The delivery invariant is preserved by every step.
LEMMA DeliveryStep ==
    ASSUME DeliveryInv, TypeOK', [Next]_vars
    PROVE  DeliveryInv'
  <1> USE TelemetryAssumption
  <1> USE DEF DeliveryInv
  <1>1. CASE UNCHANGED <<stored, ingested, events, recorded, pending, dead, flushVars>>
    BY <1>1 DEF InFlightRecorded, OrdinalsUsed, IngestedStored, AllStored, NothingLost, flushVars
  <1>2. ASSUME NEW k \in Kinds, NEW x \in Sources, Record(k, x) PROVE DeliveryInv'
    <2> DEFINE c == <<session, k>>
               n == events[c] + 1
               b == <<session, k, n, next[c], x, IF x = "system" THEN snapshots[session] ELSE n>>
    <2>1. recorded \subseteq Batches /\ c \in Counters
      BY <1>2, RecordFrame DEF TypeOK
    <2>2. /\ events' = [events EXCEPT ![c] = n]
          /\ UNCHANGED <<managerVars, dead, flushVars>>
          /\ \/ recorded' = recorded \cup {b} /\ pending' = pending \cup {b}
             \/ UNCHANGED <<recorded, pending>>
      BY <1>2 DEF Record, Produce
    <2>3. \A d \in Counters : events[d] \in Nat /\ events'[d] = IF d = c THEN events[d] + 1 ELSE events[d]
      <3>1. events \in [Counters -> 0..MaxEvents]
        BY DEF TypeOK
      <3> HIDE DEF c
      <3> QED BY <2>1, <2>2, <3>1
    <2>4. b[3] = events[c] + 1 /\ CounterOf(b) = c
      BY DEF CounterOf
    <2>5. \A y \in recorded : CounterOf(y) \in Counters /\ y[3] \in Nat
      BY <2>1, BatchParts
    <2> HIDE DEF c, b, n
    <2>6. OrdinalsUsed'
      <3>1. \A y \in recorded : y[3] <= events'[CounterOf(y)]
        BY <2>3, <2>5 DEF OrdinalsUsed
      <3>2. b[3] <= events'[CounterOf(b)]
        BY <2>1, <2>3, <2>4
      <3> QED BY <2>2, <3>1, <3>2 DEF OrdinalsUsed, CounterOf
    <2>7. IngestedStored'
      BY <2>2 DEF IngestedStored, AllStored, managerVars, flushVars
    <2>8. NothingLost'
      BY <2>2 DEF NothingLost, managerVars
    <2>9. InFlightRecorded'
      BY <2>2 DEF InFlightRecorded, flushVars
    <2> QED BY <2>6, <2>7, <2>8, <2>9
  <1>3. CASE Crash
    BY <1>3 DEF InFlightRecorded, OrdinalsUsed, IngestedStored, AllStored, NothingLost, Crash,
         managerVars, spoolVars
  <1>4. CASE StartFlush
    BY <1>4 DEF InFlightRecorded, OrdinalsUsed, IngestedStored, AllStored, NothingLost, StartFlush,
         managerVars, sessionVars, spoolVars
  <1>5. CASE Receive
    <2>1. InFlightRecorded' /\ OrdinalsUsed' /\ IngestedStored'
      BY <1>5 DEF Receive, managerVars, sessionVars, InFlightRecorded, OrdinalsUsed, IngestedStored,
           AllStored
    <2>2. /\ UNCHANGED <<stored, recorded>> /\ dead \subseteq dead'
          /\ \/ pending' = pending
             \/ /\ pending' = pending \ {wire[1]}
                /\ wire \in dead' \/ AllStored(wire[1])
      BY <1>5 DEF Receive, managerVars, IngestedStored
    <2>3. NothingLost'
      <3> SUFFICES ASSUME NEW c \in recorded
                   PROVE  c \in pending' \/ (\E d \in dead' : d[1] = c) \/ AllStored(c)
        BY <2>2 DEF NothingLost, AllStored
      <3>1. c \in pending \/ (\E d \in dead : d[1] = c) \/ AllStored(c)
        BY DEF NothingLost, AllStored
      <3> QED BY <2>2, <3>1
    <2> QED BY <2>1, <2>3
  <1>6. CASE Lose
    BY <1>6 DEF InFlightRecorded, OrdinalsUsed, IngestedStored, AllStored, NothingLost, Lose,
         managerVars, sessionVars, spoolVars
  <1>7. ASSUME NEW b \in cursor, TimeOut(b) PROVE DeliveryInv'
    BY <1>7 DEF InFlightRecorded, OrdinalsUsed, IngestedStored, AllStored, NothingLost, TimeOut,
         managerVars, sessionVars, spoolVars
  <1>8. ASSUME NEW b \in cursor, Send(b) PROVE DeliveryInv'
    <2>1. b \in recorded /\ b \in Batches
      BY DEF TypeOK, InFlightRecorded
    <2>2. /\ Ingest(b) /\ wire' = <<b, Answer(b)>>
          /\ UNCHANGED <<recorded, pending, dead, events, cursor, delayed>>
      BY <1>8 DEF Send, sessionVars, spoolVars
    <2>3. /\ NothingLost'
          /\ \A c \in ingested' : AllStored(c)'
          /\ \A c \in Batches : AllStored(c) => AllStored(c)'
      BY <2>1, <2>2, IngestKeepsRecords
    <2>4. Answer(b) = "accepted" => AllStored(b)'
      BY <2>1, <2>2, IngestEffect DEF AllStored
    <2>5. Answer(b) = "duplicate" => AllStored(b)'
      <3> SUFFICES ASSUME Answer(b) = "duplicate" PROVE AllStored(b)'
        OBVIOUS
      <3>1. b \in ingested
        BY DEF Answer
      <3> QED BY <2>1, <2>3, <3>1 DEF IngestedStored
    <2>6. IngestedStored'
      <3>1. wire'[1] = b /\ wire'[2] = Answer(b)
        BY <2>2
      <3>2. wire'[2] \in {"accepted", "duplicate"} => \A p \in SlotsOf(wire'[1]) : stored'[p] = wire'[1][3]
        BY <2>4, <2>5, <3>1 DEF AllStored
      <3> QED BY <2>3, <3>2 DEF IngestedStored, AllStored
    <2>7. InFlightRecorded' /\ OrdinalsUsed'
      BY <2>1, <2>2 DEF InFlightRecorded, OrdinalsUsed, CounterOf
    <2> QED BY <2>3, <2>6, <2>7
  <1>9. ASSUME NEW b \in delayed, Arrive(b) PROVE DeliveryInv'
    <2>1. b \in recorded
      BY DEF InFlightRecorded
    <2>2. Ingest(b) /\ UNCHANGED <<recorded, pending, dead, events, cursor, wire>>
          /\ delayed' = delayed \ {b}
      BY <1>9 DEF Arrive, sessionVars, spoolVars
    <2>3. /\ NothingLost'
          /\ \A c \in ingested' : AllStored(c)'
          /\ \A c \in Batches : AllStored(c) => AllStored(c)'
      BY <2>1, <2>2, IngestKeepsRecords
    <2>4. wire # None => wire[1] \in Batches
      BY DEF TypeOK, InFlightRecorded
    <2>5. wire # None /\ wire[2] \in {"accepted", "duplicate"} => \A p \in SlotsOf(wire[1]) : stored'[p] = wire[1][3]
      BY <2>3, <2>4 DEF IngestedStored, AllStored
    <2>6. IngestedStored'
      BY <2>2, <2>3, <2>5 DEF IngestedStored, AllStored
    <2>7. InFlightRecorded' /\ OrdinalsUsed'
      BY <2>2 DEF InFlightRecorded, OrdinalsUsed, CounterOf
    <2> QED BY <2>3, <2>6, <2>7
  <1>10. \/ UNCHANGED <<stored, ingested, events, recorded, pending, dead, flushVars>>
         \/ \E k \in Kinds, x \in Sources : Record(k, x)
         \/ Crash \/ StartFlush \/ Receive \/ Lose
         \/ \E b \in cursor : Send(b) \/ TimeOut(b)
         \/ \E b \in delayed : Arrive(b)
    BY DEF Next, vars, managerVars, sessionVars, spoolVars, flushVars, Start, Cancel, Expire,
           Recover, Revoke, ReEnroll, DamageConfig, Seal, ReportTerminal, ReportFailed, ReportEpoch
  <1> QED BY <1>1, <1>2, <1>3, <1>4, <1>5, <1>6, <1>7, <1>8, <1>9, <1>10

\* What ties keys, rows and records together is an invariant of the specification.
THEOREM DeliveryInvariant == Spec => []DeliveryInv
  <1>1. Init /\ TypeOK => DeliveryInv
    BY DEF Init, DeliveryInv, InFlightRecorded, OrdinalsUsed, IngestedStored, NothingLost
  <1>2. DeliveryInv /\ TypeOK' /\ [Next]_vars => DeliveryInv'
    BY DeliveryStep
  <1> QED BY <1>1, <1>2, TypeCorrect, PTL DEF Spec

\* A published record stays pending, becomes a dead letter or is stored by the
\* Manager: TelemetrySpool removes it only on an answer that says it is there.
THEOREM RecordsAreNeverLost == Spec => []NothingLost
  <1>1. DeliveryInv => NothingLost
    BY DEF DeliveryInv
  <1> QED BY <1>1, DeliveryInvariant, PTL

\* ingest_logs and ingest_metrics never overwrite a stored row.
THEOREM StoredRowsAreImmutable == Spec => StoredImmutable
  <1>1. TypeOK /\ [Next]_vars
            => [\A p \in Slots : stored[p] # None => stored'[p] = stored[p]]_vars
    <2> SUFFICES ASSUME TypeOK, Next
                 PROVE  \A p \in Slots : stored[p] # None => stored'[p] = stored[p]
      OBVIOUS
    <2>1. \/ UNCHANGED stored
          \/ \E b \in cursor \cup delayed : Ingest(b)
      <3>1. \A k \in Kinds, x \in Sources : Record(k, x) => UNCHANGED stored
        BY RecordFrame DEF managerVars
      <3> QED BY <3>1 DEF Next, managerVars, Start, Cancel, Expire, Recover, Revoke, ReEnroll,
                 DamageConfig, Seal, ReportTerminal, ReportFailed, ReportEpoch, Crash, StartFlush,
                 Receive, Lose, Send, TimeOut, Arrive
    <2>2. cursor \cup delayed \subseteq Batches
      BY DEF TypeOK
    <2> QED BY <2>1, <2>2, IngestEffect
  <1> QED BY <1>1, TypeCorrect, PTL DEF Spec, StoredImmutable

-----------------------------------------------------------------------------

\* Counts are kept exactly for the attempts whose terminal report was taken.
ReportedHasCounts ==
    \A c \in Counters : watermark[c] # None <=> phase[c[1]] = "reported"

CountsInv == ReportedHasCounts /\ WatermarkCoversStored

\* Ingestion keeps the stored rows below the counts: a batch of a reported
\* attempt is admitted only below them.
LEMMA IngestKeepsCounts ==
    ASSUME TypeOK, CountsInv, NEW b \in Batches, Ingest(b), UNCHANGED <<phase, watermark>>
    PROVE  CountsInv'
  <1> USE TelemetryAssumption
  <1>1. ReportedHasCounts'
    BY DEF CountsInv, ReportedHasCounts
  <1>2. ASSUME NEW p \in Slots, stored'[p] # None, watermark[<<p[1], p[2]>>] # None
        PROVE  p[3] < watermark[<<p[1], p[2]>>]
    <2>1. CASE stored'[p] = stored[p]
      BY <1>2, <2>1 DEF CountsInv, WatermarkCoversStored
    <2>2. CASE stored'[p] # stored[p]
      <3>1. p \in SlotsOf(b) /\ Admitted(b)
        BY <1>2, <2>2, IngestEffect
      <3>2. p[1] = b[1] /\ <<p[1], p[2]>> = CounterOf(b)
        BY <3>1, BatchParts
      <3>3. CounterOf(b) \in Counters /\ CounterOf(b)[1] = b[1]
        BY BatchParts DEF CounterOf
      <3>4. phase[b[1]] = "reported"
        BY <1>2, <3>2, <3>3 DEF CountsInv, ReportedHasCounts
      <3> QED BY <3>1, <3>2, <3>4 DEF Admitted
    <2> QED BY <2>1, <2>2
  <1> QED BY <1>1, <1>2 DEF CountsInv, WatermarkCoversStored

\* What the Manager stores for an attempt stays below the counts of its terminal
\* report (_validate_terminal_telemetry_watermarks, _lock_telemetry_claim).
THEOREM WatermarksAreFinal == Spec => []WatermarkCoversStored
  <1> USE TelemetryAssumption
  <1>1. Init => CountsInv
    BY DEF Init, CountsInv, ReportedHasCounts, WatermarkCoversStored, Counters, Slots
  <1>2. TypeOK /\ CountsInv /\ [Next]_vars => CountsInv'
    <2> SUFFICES ASSUME TypeOK, CountsInv, [Next]_vars PROVE CountsInv'
      OBVIOUS
    <2> USE DEF CountsInv
    <2>1. CASE UNCHANGED <<phase, watermark, stored>>
      BY <2>1 DEF ReportedHasCounts, WatermarkCoversStored
    <2>2. ASSUME NEW a \in Attempts, Start(a) \/ Expire(a) \/ Recover(a) PROVE CountsInv'
      <3>1. /\ UNCHANGED <<watermark, stored>>
            /\ \E x \in {"active", "expired", "lost"} : phase' = [phase EXCEPT ![a] = x]
            /\ phase[a] # "reported"
        BY <2>2 DEF Start, Expire, Recover
      <3>2. \A i \in Attempts : phase'[i] = "reported" <=> phase[i] = "reported"
        BY <3>1 DEF TypeOK
      <3>3. \A c \in Counters : c[1] \in Attempts
        BY DEF Counters
      <3>4. ReportedHasCounts'
        BY <3>1, <3>2, <3>3 DEF ReportedHasCounts
      <3> QED BY <3>1, <3>4 DEF WatermarkCoversStored
    <2>3. CASE ReportTerminal
      <3>1. /\ session \in Attempts /\ IsSealed(session) /\ CountsCover(session)
            /\ phase' = [phase EXCEPT ![session] = "reported"]
            /\ watermark' = [c \in Counters |->
                                IF c[1] = session THEN sealed[c] ELSE watermark[c]]
            /\ UNCHANGED stored
        BY <2>3 DEF ReportTerminal, ReportedCount, TypeOK
      <3>2. \A c \in Counters : c[1] \in Attempts /\ c[2] \in Kinds /\ c = <<c[1], c[2]>>
        BY DEF Counters
      <3>3. \A c \in Counters : c[1] = session => sealed[c] # None
        BY <3>1, <3>2 DEF IsSealed
      <3>4. \A i \in Attempts : phase'[i] = IF i = session THEN "reported" ELSE phase[i]
        BY <3>1 DEF TypeOK
      <3>5. ReportedHasCounts'
        BY <3>1, <3>2, <3>3, <3>4 DEF ReportedHasCounts
      <3>6. ASSUME NEW p \in Slots, stored[p] # None, watermark'[<<p[1], p[2]>>] # None
            PROVE  p[3] < watermark'[<<p[1], p[2]>>]
        <4>1. <<p[1], p[2]>> \in Counters
          BY DEF Slots, Counters
        <4>2. watermark'[<<p[1], p[2]>>] =
                IF p[1] = session THEN sealed[<<p[1], p[2]>>] ELSE watermark[<<p[1], p[2]>>]
          BY <3>1, <4>1
        <4>3. CASE p[1] = session
          BY <3>1, <3>6, <4>2, <4>3 DEF CountsCover
        <4>4. CASE p[1] # session
          BY <3>6, <4>2, <4>4 DEF WatermarkCoversStored
        <4> QED BY <4>3, <4>4
      <3> QED BY <3>1, <3>5, <3>6 DEF WatermarkCoversStored
    <2>4. ASSUME NEW b \in cursor \cup delayed, Ingest(b), UNCHANGED <<phase, watermark>>
          PROVE  CountsInv'
      BY <2>4, IngestKeepsCounts DEF TypeOK
    <2>5. CASE Revoke
      <3>1. /\ UNCHANGED <<watermark, stored>>
            /\ \A i \in Attempts : phase'[i] = IF phase[i] \in {"active", "expired"} THEN "lost" ELSE phase[i]
        BY <2>5 DEF Revoke
      <3>2. \A c \in Counters : c[1] \in Attempts
        BY DEF Counters
      <3>3. ReportedHasCounts'
        BY <3>1, <3>2 DEF ReportedHasCounts
      <3> QED BY <3>1, <3>3 DEF WatermarkCoversStored
    <2>6. \/ UNCHANGED <<phase, watermark, stored>>
          \/ \E a \in Attempts : Start(a) \/ Expire(a) \/ Recover(a)
          \/ ReportTerminal \/ Revoke
          \/ \E b \in cursor \cup delayed : Ingest(b) /\ UNCHANGED <<phase, watermark>>
      <3>1. \A k \in Kinds, x \in Sources : Record(k, x) => UNCHANGED <<phase, watermark, stored>>
        BY RecordFrame DEF managerVars
      <3>2. CASE UNCHANGED vars
        BY <3>2 DEF vars, managerVars
      <3>3. CASE \E a \in Attempts : Cancel(a)
        BY <3>3 DEF Cancel
      <3>4. CASE ReEnroll \/ DamageConfig \/ Seal \/ ReportFailed \/ ReportEpoch \/ Crash
        BY <3>4 DEF ReEnroll, DamageConfig, Seal, ReportFailed, ReportEpoch, Crash, managerVars
      <3>5. CASE StartFlush \/ Receive \/ Lose \/ \E b \in cursor : TimeOut(b)
        BY <3>5 DEF StartFlush, Receive, Lose, TimeOut, managerVars
      <3>6. ASSUME NEW b \in cursor, Send(b) PROVE Ingest(b) /\ UNCHANGED <<phase, watermark>>
        BY <3>6 DEF Send
      <3>7. ASSUME NEW b \in delayed, Arrive(b) PROVE Ingest(b) /\ UNCHANGED <<phase, watermark>>
        BY <3>7 DEF Arrive
      <3> QED BY <3>1, <3>2, <3>3, <3>4, <3>5, <3>6, <3>7 DEF Next
    <2> QED BY <2>1, <2>2, <2>3, <2>4, <2>5, <2>6
  <1>3. CountsInv => WatermarkCoversStored
    BY DEF CountsInv
  <1> QED BY <1>1, <1>2, <1>3, TypeCorrect, PTL DEF Spec

-----------------------------------------------------------------------------
(* The counts of a session are taken once, and for good.                   *)

\* A record lies at the next sequence of its counter at most: beyond the recorded
\* ones only when its write failed after it was published.
RecordsBelowNext == \A b \in recorded : b[4] <= next[CounterOf(b)]

\* All counts of a session are taken at once, and no counter moves afterwards.
SealedTogether ==
    \A c, d \in Counters : c[1] = d[1] /\ sealed[c] # None => sealed[d] # None
SealedAtNext == \A c \in Counters : sealed[c] # None => sealed[c] = next[c]

SealInv == RecordsBelowNext /\ SealedTogether /\ SealedAtNext

LEMMA SealStep ==
    ASSUME TypeOK, SealInv, [Next]_vars
    PROVE  SealInv'
  <1> USE TelemetryAssumption
  <1> USE DEF SealInv
  <1>1. TypeOK /\ recorded \subseteq Batches
    BY DEF TypeOK
  <1>2. \A x \in recorded : CounterOf(x) \in Counters /\ x[4] \in Nat
    BY <1>1, BatchParts
  <1>3. \A d \in Counters : next[d] \in Nat /\ d[1] \in Attempts /\ d[2] \in Kinds /\ d = <<d[1], d[2]>>
    BY <1>1 DEF TypeOK, Counters
  <1>4. CASE UNCHANGED <<next, sealed, recorded>>
    BY <1>4 DEF RecordsBelowNext, SealedTogether, SealedAtNext, CounterOf
  <1>5. ASSUME NEW k \in Kinds, NEW x \in Sources, Record(k, x) PROVE SealInv'
    <2> DEFINE c == <<session, k>>
               n == events[c] + 1
               b == <<session, k, n, next[c], x, IF x = "system" THEN snapshots[session] ELSE n>>
    <2>1. c \in Counters /\ c[1] = session /\ CounterOf(b) = c /\ b[4] = next[c]
      BY <1>1, <1>5 DEF Record, TypeOK, Counters, CounterOf
    <2>2. /\ UNCHANGED sealed
          /\ recorded' \in {recorded, recorded \cup {b}}
          /\ next' \in {next, [next EXCEPT ![c] = next[c] + Size(k, x)]}
          /\ Size(k, x) \in Nat
      BY <1>5 DEF Record, Produce, Size
    <2>3. sealed[c] = None
      <3>1. PICK l \in Kinds : sealed[<<session, l>>] = None
        BY <1>5 DEF Record, IsSealed
      <3>2. <<session, l>> \in Counters /\ <<session, l>>[1] = session
        BY <2>1 DEF Counters
      <3> QED BY <2>1, <3>1, <3>2 DEF SealedTogether
    <2> HIDE DEF c, b, n
    <2>4. \A d \in Counters : /\ next'[d] \in Nat /\ next[d] <= next'[d]
                              /\ d # c => next'[d] = next[d]
      <3>1. next \in [Counters -> Sequences]
        BY DEF TypeOK
      <3>2. next' = next \/ next' = [next EXCEPT ![c] = next[c] + Size(k, x)]
        BY <2>2
      <3> QED BY <1>3, <2>1, <2>2, <3>1, <3>2
    <2>5. RecordsBelowNext'
      <3>1. ASSUME NEW y \in recorded' PROVE y[4] <= next'[CounterOf(y)]
        <4>1. CASE y \in recorded
          BY <1>2, <1>3, <2>4, <4>1 DEF RecordsBelowNext
        <4>2. CASE y = b
          BY <1>3, <2>1, <2>4, <4>2
        <4> QED BY <2>2, <4>1, <4>2
      <3> QED BY <3>1 DEF RecordsBelowNext, CounterOf
    <2>6. SealedAtNext'
      BY <2>2, <2>3, <2>4 DEF SealedAtNext
    <2>7. SealedTogether'
      BY <2>2 DEF SealedTogether
    <2> QED BY <2>5, <2>6, <2>7
  <1>6. CASE Seal
    <2>1. /\ UNCHANGED <<next, recorded>>
          /\ \A d \in Counters : sealed'[d] = IF d[1] = session THEN next[d] ELSE sealed[d]
      BY <1>6 DEF Seal, spoolVars
    <2>2. \A d \in Counters : next[d] # None
      BY <1>3
    <2> QED BY <2>1, <2>2 DEF RecordsBelowNext, SealedTogether, SealedAtNext, CounterOf
  <1>7. \/ UNCHANGED <<next, sealed, recorded>>
        \/ \E k \in Kinds, x \in Sources : Record(k, x)
        \/ Seal
    BY DEF Next, vars, managerVars, sessionVars, spoolVars, flushVars, Start, Cancel, Expire,
           Recover, Revoke, ReEnroll, DamageConfig, ReportTerminal, ReportFailed, ReportEpoch, Crash, StartFlush, Receive, Lose,
           Send, TimeOut, Arrive
  <1> QED BY <1>4, <1>5, <1>6, <1>7

\* The watermarks that a session reports cover everything in its spool: no producer gets
\* behind the seal (watermarks and the producers of TelemetrySession share one lock).
THEOREM SealsCoverTheSpool == Spec => []SealCoversSpool
  <1> USE TelemetryAssumption
  <1>1. Init => SealInv
    BY DEF Init, SealInv, RecordsBelowNext, SealedTogether, SealedAtNext
  <1>2. TypeOK /\ SealInv /\ [Next]_vars => SealInv'
    BY SealStep
  <1>3. TypeOK /\ SealInv => SealCoversSpool
    <2> SUFFICES ASSUME TypeOK, SealInv, NEW b \in recorded, IsSealed(b[1])
                 PROVE  b[4] <= sealed[CounterOf(b)]
      BY DEF SealCoversSpool
    <2>1. b \in Batches
      BY DEF TypeOK
    <2>2. CounterOf(b) \in Counters /\ sealed[CounterOf(b)] # None
      BY <2>1, BatchParts DEF IsSealed, CounterOf
    <2> QED BY <2>2 DEF SealInv, RecordsBelowNext, SealedAtNext
  <1> QED BY <1>1, <1>2, <1>3, TypeCorrect, PTL DEF Spec

-----------------------------------------------------------------------------
(* The epoch of the job is the one of its current attempt.                 *)

\* Attempts follow each other: the ones before a started one have ended.
EarlierEnded ==
    \A a \in Attempts : phase[a] # "none" =>
        \A i \in Attempts : i < a => phase[i] \in {"reported", "lost"}

\* The session's pending epoch is one of its own events.
PendingEpochOwn ==
    session # 0 => /\ phase[session] # "none"
                   /\ \A k \in Kinds \ {"log"} : pendingEpoch <= events[<<session, k>>]

EpochInv == EarlierEnded /\ PendingEpochOwn /\ EpochIsCurrent

\* The active attempt is the latest one that was started.
LEMMA ActiveIsCurrent ==
    ASSUME EarlierEnded, NEW a \in Attempts, phase[a] = "active", NEW i \in Attempts,
           phase[i] # "none", \A j \in (i + 1)..MaxAttempts : phase[j] = "none"
    PROVE  i = a
  <1> USE TelemetryAssumption
  <1>1. ~(a < i)
    BY DEF EarlierEnded
  <1>2. ~(i < a)
    BY DEF EarlierEnded
  <1> QED BY <1>1, <1>2

\* A request that the Manager processes moves the epoch to an event of the current attempt.
LEMMA IngestKeepsEpoch ==
    ASSUME DeliveryInv, EpochInv, NEW b \in recorded, Ingest(b),
           UNCHANGED <<phase, session, pendingEpoch, events>>
    PROVE  EpochInv'
  <1> USE TelemetryAssumption
  <1>1. b \in Batches /\ TypeOK
    BY DEF DeliveryInv, TypeOK
  <1>2. EarlierEnded' /\ PendingEpochOwn'
    BY DEF EpochInv, EarlierEnded, PendingEpochOwn
  <1>3. \/ epoch' = epoch
        \/ epoch' = b[3] /\ b[2] = "metric" /\ phase[b[1]] = "active"
    BY DEF Ingest, ProjectedEpoch
  <1>4. ASSUME NEW a \in Attempts, phase[a] # "none",
               \A j \in (a + 1)..MaxAttempts : phase[j] = "none", NEW k \in Kinds \ {"log"}
        PROVE  epoch' <= events[<<a, k>>]
    <2>1. CASE epoch' = epoch
      BY <1>4, <2>1 DEF EpochInv, EpochIsCurrent
    <2>2. CASE epoch' = b[3] /\ b[2] = "metric" /\ phase[b[1]] = "active"
      <3>1. b[1] \in Attempts
        BY <1>1, BatchParts
      <3>2. a = b[1]
        BY <1>4, <2>2, <3>1, ActiveIsCurrent DEF EpochInv
      <3>3. CounterOf(b) = <<a, k>>
        BY <1>4, <2>2, <3>2 DEF CounterOf
      <3> QED BY <2>2, <3>3 DEF DeliveryInv, OrdinalsUsed
    <2> QED BY <1>3, <2>1, <2>2
  <1>5. EpochIsCurrent'
    BY <1>4 DEF EpochIsCurrent
  <1> QED BY <1>2, <1>5 DEF EpochInv

LEMMA EpochStep ==
    ASSUME DeliveryInv, EpochInv, [Next]_vars
    PROVE  EpochInv'
  <1> USE TelemetryAssumption
  <1>1. TypeOK
    BY DEF DeliveryInv, TypeOK
  <1>2. CASE UNCHANGED <<phase, session, pendingEpoch, events, epoch>>
    BY <1>2 DEF EpochInv, EarlierEnded, PendingEpochOwn, EpochIsCurrent
  <1>3. ASSUME NEW a \in Attempts, Start(a) PROVE EpochInv'
    <2>1. /\ phase[a] = "none" /\ phase' = [phase EXCEPT ![a] = "active"]
          /\ epoch' = 0 /\ pendingEpoch' = 0 /\ session' = a /\ UNCHANGED events
          /\ \A i \in 1..(a - 1) : phase[i] \in {"reported", "lost"}
      BY <1>3 DEF Start
    <2>2. \A c \in Counters : 0 <= events[c]
      BY <1>1 DEF TypeOK
    <2>3. EarlierEnded'
      BY <1>1, <2>1 DEF EpochInv, EarlierEnded, TypeOK
    <2>4. PendingEpochOwn'
      BY <1>1, <2>1, <2>2 DEF PendingEpochOwn, TypeOK, Counters
    <2>5. EpochIsCurrent'
      BY <2>1, <2>2 DEF EpochIsCurrent, Counters
    <2> QED BY <2>3, <2>4, <2>5 DEF EpochInv
  <1>4. ASSUME NEW a \in Attempts, phase[a] \in {"active", "expired"},
               NEW x \in {"expired", "lost", "reported"}, phase' = [phase EXCEPT ![a] = x],
               session' \in {session, 0}, UNCHANGED <<pendingEpoch, events, epoch>>
        PROVE  EpochInv'
    <2>1. \A i \in Attempts : phase'[i] = "none" <=> phase[i] = "none"
      BY <1>1, <1>4 DEF TypeOK
    <2>2. EarlierEnded'
      BY <1>1, <1>4 DEF EpochInv, EarlierEnded, TypeOK
    <2>3. PendingEpochOwn'
      BY <1>1, <1>4, <2>1 DEF EpochInv, PendingEpochOwn, TypeOK
    <2>4. EpochIsCurrent'
      <3> SUFFICES ASSUME NEW i \in Attempts, phase'[i] # "none",
                          \A j \in (i + 1)..MaxAttempts : phase'[j] = "none", NEW l \in Kinds \ {"log"}
                   PROVE  epoch <= events[<<i, l>>]
        BY <1>4 DEF EpochIsCurrent
      <3>1. \A j \in (i + 1)..MaxAttempts : j \in Attempts
        OBVIOUS
      <3>2. phase[i] # "none" /\ \A j \in (i + 1)..MaxAttempts : phase[j] = "none"
        BY <2>1, <3>1
      <3> QED BY <3>2 DEF EpochInv, EpochIsCurrent
    <2> QED BY <2>2, <2>3, <2>4 DEF EpochInv
  <1>5. ASSUME NEW k \in Kinds, NEW x \in Sources, Record(k, x) PROVE EpochInv'
    <2> DEFINE c == <<session, k>>
    <2>1. /\ c \in Counters /\ session # 0 /\ session \in Attempts
          /\ events' = [events EXCEPT ![c] = @ + 1]
          /\ UNCHANGED <<phase, session, epoch>>
          /\ pendingEpoch' = pendingEpoch \/ (k = "metric" /\ pendingEpoch' = events[c] + 1)
      BY <1>1, <1>5, RecordFrame DEF Record, Produce, managerVars
    <2>2. \A d \in Counters : events[d] \in Nat /\ events'[d] = IF d = c THEN events[d] + 1 ELSE events[d]
      <3> HIDE DEF c
      <3> QED BY <1>1, <2>1 DEF TypeOK
    <2>3. EarlierEnded'
      BY <2>1 DEF EpochInv, EarlierEnded
    <2>4. ASSUME NEW l \in Kinds \ {"log"} PROVE pendingEpoch' <= events'[<<session, l>>]
      <3>1. <<session, l>> \in Counters /\ l = "metric"
        BY <2>1 DEF Counters
      <3>2. pendingEpoch <= events[<<session, l>>] /\ pendingEpoch \in Nat
        BY <1>1, <2>1 DEF EpochInv, PendingEpochOwn, TypeOK
      <3>3. k = "metric" => c = <<session, l>>
        BY <3>1
      <3> HIDE DEF c
      <3> QED BY <2>1, <2>2, <3>1, <3>2, <3>3
    <2>5. PendingEpochOwn'
      BY <2>1, <2>4 DEF EpochInv, PendingEpochOwn
    <2>6. \A a \in Attempts, l \in Kinds : <<a, l>> \in Counters
      BY DEF Counters
    <2>7. \A d \in Counters : events[d] <= events'[d] /\ events'[d] \in Nat
      BY <2>2
    <2>8. epoch \in Nat
      BY <1>1 DEF TypeOK
    <2>9. EpochIsCurrent'
      <3> SUFFICES ASSUME NEW a \in Attempts, phase[a] # "none",
                          \A j \in (a + 1)..MaxAttempts : phase[j] = "none", NEW l \in Kinds \ {"log"}
                   PROVE  epoch <= events'[<<a, l>>]
        BY <2>1 DEF EpochIsCurrent
      <3>1. epoch <= events[<<a, l>>]
        BY DEF EpochInv, EpochIsCurrent
      <3>2. <<a, l>> \in Counters
        BY <2>6
      <3> QED BY <2>2, <2>7, <2>8, <3>1, <3>2
    <2> QED BY <2>3, <2>5, <2>9 DEF EpochInv
  <1>6. CASE ReportEpoch
    <2>1. /\ session # 0 /\ session \in Attempts /\ phase[session] = "active"
          /\ epoch' = pendingEpoch
          /\ UNCHANGED <<phase, session, pendingEpoch, events>>
      BY <1>1, <1>6 DEF ReportEpoch, sessionVars, TypeOK
    <2>2. EarlierEnded' /\ PendingEpochOwn'
      BY <2>1 DEF EpochInv, EarlierEnded, PendingEpochOwn
    <2>3. EpochIsCurrent'
      <3> SUFFICES ASSUME NEW a \in Attempts, phase[a] # "none",
                          \A j \in (a + 1)..MaxAttempts : phase[j] = "none", NEW l \in Kinds \ {"log"}
                   PROVE  pendingEpoch <= events[<<a, l>>]
        BY <2>1 DEF EpochIsCurrent
      <3>1. a = session
        BY <2>1, ActiveIsCurrent DEF EpochInv
      <3> QED BY <2>1, <3>1 DEF EpochInv, PendingEpochOwn
    <2> QED BY <2>2, <2>3 DEF EpochInv
  <1>7. CASE session' = 0 /\ UNCHANGED <<phase, pendingEpoch, events, epoch>>
    BY <1>7 DEF EpochInv, EarlierEnded, PendingEpochOwn, EpochIsCurrent
  <1>8. ASSUME NEW b \in cursor \cup delayed, Ingest(b),
               UNCHANGED <<phase, session, pendingEpoch, events>>
        PROVE  EpochInv'
    BY <1>8, IngestKeepsEpoch DEF DeliveryInv, InFlightRecorded
  <1>9. ASSUME NEW a \in Attempts, Expire(a) \/ Recover(a) PROVE EpochInv'
    BY <1>4, <1>9 DEF Expire, Recover, sessionVars
  <1>10. CASE ReportTerminal
    <2>1. session \in Attempts /\ phase[session] = "active"
      BY <1>1, <1>10 DEF ReportTerminal, TypeOK
    <2>2. /\ phase' = [phase EXCEPT ![session] = "reported"]
          /\ session' = 0 /\ UNCHANGED <<pendingEpoch, events, epoch>>
      BY <1>10 DEF ReportTerminal
    <2> QED BY <1>4, <2>1, <2>2
  <1>11. \/ UNCHANGED <<phase, session, pendingEpoch, events, epoch>>
         \/ \E a \in Attempts : Start(a) \/ Expire(a) \/ Recover(a)
         \/ ReportTerminal \/ ReportEpoch \/ Revoke
         \/ \E k \in Kinds, x \in Sources : Record(k, x)
         \/ session' = 0 /\ UNCHANGED <<phase, pendingEpoch, events, epoch>>
         \/ \E b \in cursor \cup delayed :
               Ingest(b) /\ UNCHANGED <<phase, session, pendingEpoch, events>>
    BY DEF Next, vars, managerVars, sessionVars, Cancel, ReEnroll, DamageConfig, Seal, ReportFailed,
           Crash, StartFlush, Receive, Lose, Send, TimeOut, Arrive
  <1>12. CASE Revoke
    <2>1. /\ UNCHANGED <<session, pendingEpoch, events, epoch>>
          /\ \A i \in Attempts : phase'[i] = IF phase[i] \in {"active", "expired"} THEN "lost" ELSE phase[i]
      BY <1>12 DEF Revoke, sessionVars
    <2>2. EarlierEnded'
      BY <2>1 DEF EpochInv, EarlierEnded
    <2>3. PendingEpochOwn'
      <3>1. session # 0 => session \in Attempts
        BY <1>1 DEF TypeOK
      <3> QED BY <2>1, <3>1 DEF EpochInv, PendingEpochOwn
    <2>4. EpochIsCurrent'
      <3>1. \A i \in Attempts : \A j \in (i + 1)..MaxAttempts : j \in Attempts
        OBVIOUS
      <3> QED BY <2>1, <3>1 DEF EpochInv, EpochIsCurrent
    <2> QED BY <2>2, <2>3, <2>4 DEF EpochInv
  <1> QED BY <1>2, <1>3, <1>5, <1>6, <1>7, <1>8, <1>9, <1>10, <1>11, <1>12

\* Late metrics of an earlier attempt, whenever they are processed, never show as the
\* epoch of the job (ingest_metrics, update_job_status).
THEOREM EpochStaysCurrent == Spec => []EpochIsCurrent
  <1> USE TelemetryAssumption
  <1>1. Init => EpochInv
    BY DEF Init, EpochInv, EarlierEnded, PendingEpochOwn, EpochIsCurrent
  <1>2. DeliveryInv /\ EpochInv /\ [Next]_vars => EpochInv'
    BY EpochStep
  <1>3. EpochInv => EpochIsCurrent
    BY DEF EpochInv
  <1> QED BY <1>1, <1>2, <1>3, DeliveryInvariant, PTL DEF Spec

-----------------------------------------------------------------------------
(* The outbox.                                                             *)

\* There is one API process.
Alone == \E p \in Procs : replicas = {p}

RunRecords == [marks : SUBSET Parts, logged : [Parts -> 0..2], again : SUBSET Parts,
               ended : SUBSET Events, extra : BOOLEAN]

\* The projection of an event, and a request for a run, name a run of the job.
AtRun == {"tags", "log", "update", "mark"}
ProcRecords == [at : Labels, event : Events \cup {0}, run : Nat, chunk : Nat]

ProcShape ==
    /\ proc \in [Procs -> ProcRecords] /\ replicas \subseteq Procs
    /\ \A q \in Procs : proc[q].at # "idle" => /\ q \in replicas /\ proc[q].event \in Events
                                               /\ proc[q].chunk \in 1..Chunks[proc[q].event]
    /\ \A q \in Procs : proc[q].at \in AtRun => proc[q].run \in 1..Len(runs)

LateShape ==
    /\ late \subseteq Requests /\ faults \in Nat
    /\ \A q \in late : q.what \in {"log", "update", "mark"} => q.run \in 1..Len(runs)

\* A search finds a run as soon as there is one.
RunsShape ==
    /\ runs \in Seq(RunRecords) /\ found \in Nat
    /\ found <= Len(runs) /\ (found = 0 <=> Len(runs) = 0)

\* The marker of a part is written with its data.
LoggedIsMarked == \A r \in 1..Len(runs), x \in Parts : runs[r].logged[x] > 0 => x \in runs[r].marks

\* What is not the work of overtaken requests is there once.
OnceOnRuns ==
    /\ \A r, s \in 1..Len(runs) : ~runs[r].extra /\ ~runs[s].extra => r = s
    /\ \A r \in 1..Len(runs), x \in Parts : runs[r].logged[x] <= 1

\* A process about to create a run, or to log a part, has not been forestalled by a
\* request that was not overtaken.
NotForestalled ==
    /\ \A q \in Procs : proc[q].at = "create" => \A r \in 1..Len(runs) : runs[r].extra
    /\ \A q \in Procs : proc[q].at = "log" => runs[proc[q].run].logged[Part(q)] = 0

OneWriter == Alone => OnceOnRuns /\ NotForestalled

OutboxInv == ProcShape /\ LateShape /\ RunsShape /\ LoggedIsMarked /\ OneWriter

LEMMA PartInRange ==
    ASSUME NEW q \in Procs, proc[q].event \in Events, proc[q].chunk \in 1..Chunks[proc[q].event]
    PROVE  Part(q) \in Parts
  BY DEF Part, Parts

LEMMA OutgoingIsRequest ==
    ASSUME OutboxInv, NEW p \in Procs, proc[p].at \in Sending
    PROVE  /\ Outgoing(p) \in Requests
           /\ Outgoing(p).what = proc[p].at /\ Outgoing(p).run = proc[p].run
           /\ Outgoing(p).part = Part(p)
           /\ Outgoing(p).what \in {"log", "update", "mark"} => Outgoing(p).run \in 1..Len(runs)
  <1>1. /\ proc[p] \in ProcRecords /\ faults \in Nat
        /\ proc[p].event \in Events /\ proc[p].chunk \in 1..Chunks[proc[p].event]
        /\ proc[p].at \in AtRun => proc[p].run \in 1..Len(runs)
    BY DEF OutboxInv, ProcShape, LateShape, Sending
  <1>2. Part(p) \in Parts
    BY <1>1, PartInRange
  <1> QED BY <1>1, <1>2 DEF Outgoing, Requests, ProcRecords, AtRun

\* Where process p may go: the shape of the projections is kept, runs being only added.
LEMMA ProcMoves ==
    ASSUME OutboxInv, NEW p \in Procs, proc' \in [Procs -> ProcRecords],
           \A q \in Procs \ {p} : proc'[q] = proc[q], UNCHANGED replicas,
           1..Len(runs) \subseteq 1..Len(runs'),
           proc'[p].at # "idle" => /\ p \in replicas /\ proc'[p].event \in Events
                                   /\ proc'[p].chunk \in 1..Chunks[proc'[p].event],
           proc'[p].at \in AtRun => proc'[p].run \in 1..Len(runs')
    PROVE  ProcShape'
  BY DEF OutboxInv, ProcShape

\* Only the requests of processes get late, and they stay in range.
LEMMA LateKeeps ==
    ASSUME OutboxInv, NEW p \in Procs, faults' \in Nat, 1..Len(runs) \subseteq 1..Len(runs'),
           late' \subseteq late \/ (proc[p].at \in Sending /\ late' \subseteq late \cup {Outgoing(p)})
    PROVE  LateShape'
  <1>1. proc[p].at \in Sending => /\ Outgoing(p) \in Requests
                                  /\ Outgoing(p).what \in {"log", "update", "mark"}
                                       => Outgoing(p).run \in 1..Len(runs)
    BY OutgoingIsRequest
  <1> QED BY <1>1 DEF OutboxInv, LateShape

\* A step of a process that changes nothing in MLflow.
LEMMA ProcSteps ==
    ASSUME OutboxInv, NEW p \in Procs, proc' \in [Procs -> ProcRecords],
           \A q \in Procs \ {p} : proc'[q] = proc[q],
           UNCHANGED <<runs, found, replicas>>, faults' \in Nat,
           late' \subseteq late \/ (proc[p].at \in Sending /\ late' \subseteq late \cup {Outgoing(p)}),
           proc'[p].at # "idle" => /\ p \in replicas /\ proc'[p].event \in Events
                                   /\ proc'[p].chunk \in 1..Chunks[proc'[p].event],
           proc'[p].at \in AtRun => proc'[p].run \in 1..Len(runs),
           proc'[p].at = "create" => found = 0,
           proc'[p].at = "log" => <<proc'[p].event, proc'[p].chunk>> \notin runs[proc'[p].run].marks
    PROVE  OutboxInv'
  <1>1. ProcShape' /\ LateShape'
    BY ProcMoves, LateKeeps
  <1>2. RunsShape' /\ LoggedIsMarked'
    BY DEF OutboxInv, RunsShape, LoggedIsMarked
  <1>3. ASSUME Alone PROVE OnceOnRuns' /\ NotForestalled'
    <2>1. OnceOnRuns /\ NotForestalled
      BY <1>3 DEF OutboxInv, OneWriter
    <2>2. OnceOnRuns'
      BY <2>1 DEF OnceOnRuns
    <2>3. ASSUME NEW q \in Procs, proc'[q].at = "create" PROVE \A r \in 1..Len(runs) : runs[r].extra
      <3>1. CASE q = p
        BY <2>3, <3>1 DEF OutboxInv, RunsShape
      <3>2. CASE q # p
        BY <2>1, <2>3, <3>2 DEF NotForestalled
      <3> QED BY <3>1, <3>2
    <2>4. ASSUME NEW q \in Procs, proc'[q].at = "log"
          PROVE  runs[proc'[q].run].logged[<<proc'[q].event, proc'[q].chunk>>] = 0
      <3>1. CASE q = p
        <4> DEFINE r == proc'[p].run
                   x == <<proc'[p].event, proc'[p].chunk>>
        <4>1. r \in 1..Len(runs) /\ x \notin runs[r].marks
          BY <2>4, <3>1 DEF AtRun
        <4>2. x \in Parts
          BY <2>4, <3>1 DEF Parts
        <4>3. runs[r] \in RunRecords
          BY <4>1 DEF OutboxInv, RunsShape
        <4>4. runs[r].logged[x] \in 0..2 /\ ~(runs[r].logged[x] > 0)
          BY <4>1, <4>2, <4>3 DEF OutboxInv, LoggedIsMarked, RunRecords
        <4> QED BY <3>1, <4>4
      <3>2. CASE q # p
        BY <2>1, <2>4, <3>2 DEF NotForestalled, Part
      <3> QED BY <3>1, <3>2
    <2> QED BY <2>2, <2>3, <2>4 DEF NotForestalled, Part
  <1>4. OneWriter'
    BY <1>3 DEF OneWriter, Alone
  <1> QED BY <1>1, <1>2, <1>4 DEF OutboxInv

LEMMA NextPartEffect ==
    ASSUME OutboxInv, NEW p \in Procs, proc[p].at \in AtRun, NextPart(p)
    PROVE  /\ proc' \in [Procs -> ProcRecords]
           /\ \A q \in Procs \ {p} : proc'[q] = proc[q]
           /\ proc'[p].event = proc[p].event /\ proc'[p].run = proc[p].run
           /\ proc'[p].at \in {"tags", "done"}
           /\ proc'[p].chunk \in 1..Chunks[proc[p].event]
  <1>1. /\ proc \in [Procs -> ProcRecords] /\ proc[p].event \in Events
        /\ proc[p].chunk \in 1..Chunks[proc[p].event] /\ Chunks[proc[p].event] \in Nat
    BY OutboxAssumption DEF OutboxInv, ProcShape, AtRun
  <1>2. CASE proc[p].chunk < Chunks[proc[p].event]
    <2>1. proc' = [proc EXCEPT ![p].at = "tags", ![p].chunk = @ + 1]
      BY <1>2 DEF NextPart
    <2>2. proc[p].chunk + 1 \in 1..Chunks[proc[p].event] /\ proc[p].chunk + 1 \in Nat
      BY <1>1, <1>2
    <2> QED BY <1>1, <2>1, <2>2 DEF ProcRecords, Labels
  <1>3. CASE ~(proc[p].chunk < Chunks[proc[p].event])
    <2>1. proc' = [proc EXCEPT ![p].at = "done"]
      BY <1>3 DEF NextPart, GoTo
    <2> QED BY <1>1, <2>1 DEF ProcRecords, Labels
  <1> QED BY <1>2, <1>3

LEMMA GoToEffect ==
    ASSUME OutboxInv, NEW p \in Procs, NEW l \in Labels, GoTo(p, l)
    PROVE  /\ proc' \in [Procs -> ProcRecords] /\ \A q \in Procs \ {p} : proc'[q] = proc[q]
           /\ proc'[p].event = proc[p].event /\ proc'[p].run = proc[p].run
           /\ proc'[p].chunk = proc[p].chunk /\ proc'[p].at = l
  BY DEF GoTo, ProcRecords, OutboxInv, ProcShape

\* A process that goes to another label only, and not to one that looks at a run.
LEMMA GoToKeeps ==
    ASSUME OutboxInv, NEW p \in Procs, proc[p].at # "idle", NEW l \in Labels \ {"create", "log"},
           l \in AtRun => proc[p].at \in AtRun, faults' \in Nat,
           late' \subseteq late \/ (proc[p].at \in Sending /\ late' \subseteq late \cup {Outgoing(p)}),
           GoTo(p, l), UNCHANGED <<runs, found, replicas>>
    PROVE  OutboxInv'
  <1>1. /\ p \in replicas /\ proc[p].event \in Events /\ proc[p].chunk \in 1..Chunks[proc[p].event]
        /\ proc[p].at \in AtRun => proc[p].run \in 1..Len(runs)
    BY DEF OutboxInv, ProcShape
  <1>2. /\ proc' \in [Procs -> ProcRecords] /\ \A q \in Procs \ {p} : proc'[q] = proc[q]
        /\ proc'[p].event = proc[p].event /\ proc'[p].run = proc[p].run
        /\ proc'[p].chunk = proc[p].chunk /\ proc'[p].at = l
    BY GoToEffect
  <1> QED BY <1>1, <1>2, ProcSteps

\* What a request for a run makes of it.
LEMMA OnRunEffect ==
    ASSUME NEW run \in RunRecords, NEW q \in Requests, q.what \in {"log", "update", "mark"},
           NEW b \in BOOLEAN
    PROVE  /\ OnRun(run, q, b) \in RunRecords
           /\ OnRun(run, q, b).extra = run.extra
           /\ run.marks \subseteq OnRun(run, q, b).marks
           /\ q.what = "log" => q.part \in OnRun(run, q, b).marks
           /\ \A x \in Parts : \/ OnRun(run, q, b).logged[x] = run.logged[x]
                               \/ /\ q.what = "log" /\ x = q.part /\ ~b
                                  /\ OnRun(run, q, b).logged[x] <= run.logged[x] + 1
  <1> DEFINE x == q.part
  <1>1. /\ x \in Parts /\ run.marks \in SUBSET Parts /\ run.logged \in [Parts -> 0..2]
        /\ run.again \in SUBSET Parts /\ run.ended \in SUBSET Events /\ run.extra \in BOOLEAN
    BY DEF Requests, RunRecords
  <1>2. CASE q.what = "log"
    <2> DEFINE n == IF run.logged[x] < 2 /\ ~b THEN run.logged[x] + 1 ELSE run.logged[x]
    <2>1. n \in 0..2 /\ n <= run.logged[x] + 1 /\ (b => n = run.logged[x])
      BY <1>1
    <2>2. OnRun(run, q, b) = [run EXCEPT !.marks = run.marks \cup {x},
                                         !.logged = [run.logged EXCEPT ![x] = n],
                                         !.again = IF b THEN run.again \cup {x} ELSE run.again]
      BY <1>1, <1>2 DEF OnRun, WithPart, RunRecords
    <2> HIDE DEF n
    <2>3. [run.logged EXCEPT ![x] = n] \in [Parts -> 0..2]
      BY <1>1, <2>1
    <2>4. (IF b THEN run.again \cup {x} ELSE run.again) \in SUBSET Parts
      BY <1>1
    <2>5. OnRun(run, q, b) \in RunRecords
      <3> DEFINE l == [run.logged EXCEPT ![x] = n]
                 a == IF b THEN run.again \cup {x} ELSE run.again
      <3>1. l \in [Parts -> 0..2] /\ a \in SUBSET Parts /\ run.marks \cup {x} \in SUBSET Parts
        BY <1>1, <2>3, <2>4
      <3>2. OnRun(run, q, b) = [run EXCEPT !.marks = run.marks \cup {x}, !.logged = l, !.again = a]
        BY <2>2
      <3> HIDE DEF l, a, x
      <3> QED BY <1>1, <3>1, <3>2 DEF RunRecords
    <2>6. /\ OnRun(run, q, b).extra = run.extra
          /\ OnRun(run, q, b).marks = run.marks \cup {x}
          /\ OnRun(run, q, b).logged = [run.logged EXCEPT ![x] = n]
      BY <2>2 DEF RunRecords
    <2>7. \A y \in Parts : OnRun(run, q, b).logged[y] = IF y = x THEN n ELSE run.logged[y]
      BY <1>1, <2>6
    <2> QED BY <1>2, <2>1, <2>5, <2>6, <2>7
  <1>3. CASE q.what = "update"
    <2>1. q.part[1] \in Events
      BY <1>1 DEF Parts
    <2>2. OnRun(run, q, b) = [run EXCEPT !.ended = run.ended \cup {q.part[1]}]
      BY <1>3 DEF OnRun, RunRecords
    <2> QED BY <1>1, <1>3, <2>1, <2>2 DEF RunRecords
  <1>4. CASE q.what = "mark"
    <2>1. OnRun(run, q, b) = [run EXCEPT !.marks = run.marks \cup {x}]
      BY <1>4 DEF OnRun, RunRecords
    <2> QED BY <1>1, <1>4, <2>1 DEF RunRecords
  <1> QED BY <1>2, <1>3, <1>4

\* The effect of a request on the runs.  b is whether it was overtaken; if it was not,
\* and there is one process, its run or its part is not there yet.
LEMMA ActsEffect ==
    ASSUME OutboxInv, NEW q \in Requests, NEW b \in BOOLEAN, Acts(q, b), UNCHANGED replicas,
           q.what \in {"log", "update", "mark"} => q.run \in 1..Len(runs),
           Alone /\ ~b /\ q.what = "log" => runs[q.run].logged[q.part] = 0,
           Alone /\ ~b /\ q.what = "create" => \A r \in 1..Len(runs) : runs[r].extra
    PROVE  /\ RunsShape' /\ LoggedIsMarked' /\ (Alone => OnceOnRuns')
           /\ 1..Len(runs) \subseteq 1..Len(runs')
           /\ \A r \in 1..Len(runs) :
                /\ runs'[r].extra = runs[r].extra
                /\ \A x \in Parts : \/ runs'[r].logged[x] = runs[r].logged[x]
                                    \/ q.what = "log" /\ q.run = r /\ q.part = x /\ ~b
           /\ \A r \in 1..Len(runs') : r \in 1..Len(runs) \/ (q.what = "create" /\ runs'[r].extra = b)
  <1>1. /\ runs \in Seq(RunRecords) /\ found \in Nat /\ found <= Len(runs) /\ Len(runs) \in Nat
        /\ found = 0 <=> Len(runs) = 0
        /\ Alone => OnceOnRuns
    BY DEF OutboxInv, RunsShape, OneWriter
  <1>2. CASE UNCHANGED <<runs, found>>
    BY <1>1, <1>2 DEF OutboxInv, RunsShape, LoggedIsMarked, OnceOnRuns
  <1>3. CASE q.what = "create" /\ Created(b)
    <2>1. NewRun(b) \in RunRecords /\ NewRun(b).extra = b /\ \A x \in Parts : NewRun(b).logged[x] = 0
      BY DEF NewRun, RunRecords
    <2>2. /\ runs' \in Seq(RunRecords) /\ Len(runs') = Len(runs) + 1
          /\ \A i \in 1..Len(runs) : runs'[i] = runs[i]
          /\ runs'[Len(runs) + 1] = NewRun(b)
          /\ found' \in Nat /\ found' # 0 /\ found' <= Len(runs) + 1
      BY <1>1, <1>3, <2>1 DEF Created
    <2>3. \A i \in 1..Len(runs') : i \in 1..Len(runs) \/ i = Len(runs) + 1
      BY <1>1, <2>2
    <2>4. RunsShape' /\ 1..Len(runs) \subseteq 1..Len(runs')
      BY <1>1, <2>2 DEF RunsShape
    <2>5. LoggedIsMarked'
      <3> SUFFICES ASSUME NEW i \in 1..Len(runs'), NEW x \in Parts, runs'[i].logged[x] > 0
                   PROVE  x \in runs'[i].marks
        BY DEF LoggedIsMarked
      <3>1. i \in 1..Len(runs)
        BY <2>1, <2>2, <2>3
      <3> QED BY <2>2, <3>1 DEF OutboxInv, LoggedIsMarked
    <2>6. ASSUME Alone PROVE OnceOnRuns'
      <3>1. OnceOnRuns /\ (~b => \A r \in 1..Len(runs) : runs[r].extra)
        BY <1>1, <1>3, <2>6
      <3>2. ASSUME NEW r \in 1..Len(runs'), NEW s \in 1..Len(runs'), ~runs'[r].extra, ~runs'[s].extra
            PROVE  r = s
        BY <2>1, <2>2, <2>3, <3>1, <3>2 DEF OnceOnRuns
      <3>3. ASSUME NEW r \in 1..Len(runs'), NEW x \in Parts PROVE runs'[r].logged[x] <= 1
        BY <2>1, <2>2, <2>3, <3>1 DEF OnceOnRuns
      <3> QED BY <3>2, <3>3 DEF OnceOnRuns
    <2> QED BY <1>3, <2>1, <2>2, <2>3, <2>4, <2>5, <2>6
  <1>4. CASE /\ q.what \in {"log", "update", "mark"} /\ UNCHANGED found
             /\ runs' = [runs EXCEPT ![q.run] = OnRun(runs[q.run], q, b)]
    <2> DEFINE new == OnRun(runs[q.run], q, b)
    <2>1. q.run \in 1..Len(runs) /\ runs[q.run] \in RunRecords
      BY <1>1, <1>4
    <2>2. /\ new \in RunRecords /\ new.extra = runs[q.run].extra
          /\ runs[q.run].marks \subseteq new.marks
          /\ q.what = "log" => q.part \in new.marks
          /\ \A x \in Parts : \/ new.logged[x] = runs[q.run].logged[x]
                              \/ /\ q.what = "log" /\ x = q.part /\ ~b
                                 /\ new.logged[x] <= runs[q.run].logged[x] + 1
      BY <1>4, <2>1, OnRunEffect
    <2> HIDE DEF new
    <2>3. /\ runs' \in Seq(RunRecords) /\ Len(runs') = Len(runs)
          /\ \A i \in 1..Len(runs) : runs'[i] = IF i = q.run THEN new ELSE runs[i]
      BY <1>1, <1>4, <2>1, <2>2 DEF new
    <2>4. RunsShape'
      BY <1>1, <1>4, <2>3 DEF RunsShape
    <2>5. LoggedIsMarked'
      <3> SUFFICES ASSUME NEW i \in 1..Len(runs), NEW x \in Parts, runs'[i].logged[x] > 0
                   PROVE  x \in runs'[i].marks
        BY <2>3 DEF LoggedIsMarked
      <3>1. runs[i].logged[x] > 0 => x \in runs[i].marks
        BY DEF OutboxInv, LoggedIsMarked
      <3> QED BY <2>2, <2>3, <3>1
    <2>6. ASSUME Alone PROVE OnceOnRuns'
      <3>1. OnceOnRuns
        BY <1>1, <2>6
      <3>2. \A r \in 1..Len(runs) : runs'[r].extra = runs[r].extra
        BY <2>2, <2>3
      <3>3. ASSUME NEW r \in 1..Len(runs), NEW x \in Parts PROVE runs'[r].logged[x] <= 1
        <4>1. runs[r].logged[x] <= 1
          BY <3>1 DEF OnceOnRuns
        <4>2. CASE r = q.run
          BY <1>4, <2>2, <2>3, <2>6, <4>1, <4>2
        <4> QED BY <2>3, <4>1, <4>2
      <3> QED BY <2>3, <3>1, <3>2, <3>3 DEF OnceOnRuns
    <2>7. \A r \in 1..Len(runs) :
                /\ runs'[r].extra = runs[r].extra
                /\ \A x \in Parts : \/ runs'[r].logged[x] = runs[r].logged[x]
                                    \/ q.what = "log" /\ q.run = r /\ q.part = x /\ ~b
      BY <2>2, <2>3
    <2> QED BY <2>3, <2>4, <2>5, <2>6, <2>7
  <1> QED BY <1>2, <1>3, <1>4 DEF Acts

\* MLflow acts on the request of a process that still waits for it, answered or not.
LEMMA OwnRequestKeeps ==
    ASSUME OutboxInv, NEW p \in Procs, proc[p].at \in Sending, Acts(Outgoing(p), FALSE),
           UNCHANGED <<late, replicas>>, faults' \in Nat,
           proc' \in [Procs -> ProcRecords], \A q \in Procs \ {p} : proc'[q] = proc[q],
           proc'[p].at \notin {"idle", "create", "log"},
           proc'[p].event = proc[p].event, proc'[p].chunk \in 1..Chunks[proc[p].event],
           proc'[p].at \in AtRun => proc'[p].run \in 1..Len(runs) \/ proc'[p].run \in 1..Len(runs')
    PROVE  OutboxInv'
  <1> DEFINE q == Outgoing(p)
  <1>1. /\ q \in Requests /\ q.what = proc[p].at /\ q.run = proc[p].run /\ q.part = Part(p)
        /\ q.what \in {"log", "update", "mark"} => q.run \in 1..Len(runs)
    BY OutgoingIsRequest
  <1>2. /\ Alone => NotForestalled
        /\ p \in replicas /\ proc[p].event \in Events
    BY DEF OutboxInv, OneWriter, ProcShape, Sending
  <1>3. /\ Alone /\ q.what = "log" => runs[q.run].logged[q.part] = 0
        /\ Alone /\ q.what = "create" => \A r \in 1..Len(runs) : runs[r].extra
    BY <1>1, <1>2 DEF NotForestalled
  <1> HIDE DEF q
  <1>4. Acts(q, FALSE)
    BY DEF q
  <1>5. /\ RunsShape' /\ LoggedIsMarked' /\ (Alone => OnceOnRuns')
        /\ 1..Len(runs) \subseteq 1..Len(runs')
    BY <1>1, <1>3, <1>4, ActsEffect
  <1>6. ProcShape' /\ LateShape'
    BY <1>2, <1>5, ProcMoves, LateKeeps
  <1>7. ASSUME Alone PROVE NotForestalled'
    <2>1. \A o \in Procs : o # p => proc[o].at = "idle"
      BY <1>2, <1>7 DEF OutboxInv, ProcShape, Alone
    <2>2. \A o \in Procs : proc'[o].at \notin {"create", "log"}
      BY <2>1
    <2> QED BY <2>2 DEF NotForestalled
  <1>8. OneWriter'
    BY <1>5, <1>7 DEF OneWriter, Alone
  <1> QED BY <1>5, <1>6, <1>8 DEF OutboxInv

\* MLflow acts on a request that nobody waits for.
LEMMA ActsLateKeeps ==
    ASSUME OutboxInv, NEW q \in late, ActsLate(q)
    PROVE  OutboxInv'
  <1> DEFINE b == Overtaken(q)
  <1>1. /\ q \in Requests
        /\ q.what \in {"log", "update", "mark"} => q.run \in 1..Len(runs)
        /\ b \in BOOLEAN /\ Acts(q, b) /\ UNCHANGED <<proc, replicas, faults>> /\ late' \subseteq late
    BY DEF OutboxInv, LateShape, ActsLate, Overtaken
  <1>2. q.part \in Parts
    BY <1>1 DEF Requests
  <1>3. ~b /\ q.what = "log" => /\ q.part \notin runs[q.run].marks
                                /\ \A o \in Procs : ~(At(o, "log") /\ proc[o].run = q.run /\ Part(o) = q.part)
    BY DEF Overtaken
  <1>4. ~b /\ q.what = "create" => runs = <<>> /\ \A o \in Procs : ~At(o, "create")
    BY DEF Overtaken
  <1>5. ~b /\ q.what = "log" => runs[q.run].logged[q.part] = 0
    <2> SUFFICES ASSUME ~b, q.what = "log" PROVE runs[q.run].logged[q.part] = 0
      OBVIOUS
    <2>1. runs[q.run] \in RunRecords
      BY <1>1 DEF OutboxInv, RunsShape
    <2>2. runs[q.run].logged[q.part] \in 0..2 /\ ~(runs[q.run].logged[q.part] > 0)
      BY <1>1, <1>2, <1>3, <2>1 DEF OutboxInv, LoggedIsMarked, RunRecords
    <2> QED BY <2>2
  <1>6. ~b /\ q.what = "create" => \A r \in 1..Len(runs) : runs[r].extra
    BY <1>4
  <1> HIDE DEF b
  <1>7. /\ RunsShape' /\ LoggedIsMarked' /\ (Alone => OnceOnRuns')
        /\ 1..Len(runs) \subseteq 1..Len(runs')
        /\ \A r \in 1..Len(runs) :
                /\ runs'[r].extra = runs[r].extra
                /\ \A x \in Parts : \/ runs'[r].logged[x] = runs[r].logged[x]
                                    \/ q.what = "log" /\ q.run = r /\ q.part = x /\ ~b
        /\ \A r \in 1..Len(runs') : r \in 1..Len(runs) \/ (q.what = "create" /\ runs'[r].extra = b)
    BY <1>1, <1>5, <1>6, ActsEffect
  <1>8. ProcShape'
    BY <1>1, <1>7 DEF OutboxInv, ProcShape
  <1>9. LateShape'
    BY <1>1, <1>7 DEF OutboxInv, LateShape
  <1>10. ASSUME Alone PROVE NotForestalled'
    <2>1. NotForestalled
      BY <1>10 DEF OutboxInv, OneWriter
    <2>2. ASSUME NEW o \in Procs, proc[o].at = "create", NEW r \in 1..Len(runs') PROVE runs'[r].extra
      <3>1. CASE r \in 1..Len(runs)
        BY <1>7, <2>1, <2>2, <3>1 DEF NotForestalled
      <3>2. CASE r \notin 1..Len(runs)
        BY <1>1, <1>4, <1>7, <2>2, <3>2 DEF At
      <3> QED BY <3>1, <3>2
    <2>3. ASSUME NEW o \in Procs, proc[o].at = "log" PROVE runs'[proc[o].run].logged[Part(o)] = 0
      <3>1. proc[o].run \in 1..Len(runs) /\ Part(o) \in Parts
        BY <2>3, PartInRange DEF OutboxInv, ProcShape, AtRun
      <3>2. runs[proc[o].run].logged[Part(o)] = 0
        BY <2>1, <2>3 DEF NotForestalled
      <3> QED BY <1>3, <1>7, <2>3, <3>1, <3>2 DEF At
    <2>4. \A o \in Procs : Part(o)' = Part(o)
      BY <1>1 DEF Part
    <2> QED BY <1>1, <2>2, <2>3, <2>4 DEF NotForestalled
  <1>11. OneWriter'
    BY <1>1, <1>7, <1>10 DEF OneWriter, Alone
  <1> QED BY <1>7, <1>8, <1>9, <1>11 DEF OutboxInv

\* The five requests that change something in MLflow.
LEMMA RequestKeeps ==
    ASSUME OutboxInv, NEW p \in Procs,
           EnsureExperiment(p) \/ CreateRun(p) \/ LogBatch(p) \/ UpdateRun(p) \/ SetTag(p)
    PROVE  OutboxInv'
  <1>1. /\ proc[p].at \in Sending /\ UNCHANGED replicas
        /\ p \in replicas /\ proc[p].event \in Events /\ proc[p].chunk \in 1..Chunks[proc[p].event]
        /\ proc \in [Procs -> ProcRecords] /\ faults \in Nat /\ runs \in Seq(RunRecords)
        /\ proc[p].at \in AtRun => proc[p].run \in 1..Len(runs)
    BY DEF EnsureExperiment, CreateRun, LogBatch, UpdateRun, SetTag, At, Sending, OutboxInv, ProcShape,
           LateShape, RunsShape
  <1>2. ASSUME NEW l \in {"retry", "refind"}, Failed(p, l), Acts(Outgoing(p), FALSE), UNCHANGED late
        PROVE  OutboxInv'
    <2>1. /\ proc' \in [Procs -> ProcRecords] /\ \A q \in Procs \ {p} : proc'[q] = proc[q]
          /\ proc'[p].event = proc[p].event /\ proc'[p].chunk = proc[p].chunk /\ proc'[p].at = l
      BY <1>2, GoToEffect DEF Failed, Labels
    <2>2. faults' \in Nat
      BY <1>1, <1>2 DEF Failed
    <2> QED BY <1>1, <1>2, <2>1, <2>2, OwnRequestKeeps DEF AtRun
  <1>3. ASSUME NEW l \in {"retry", "refind"}, Failed(p, l), late' = late \cup {Outgoing(p)}, UNCHANGED mlflow
        PROVE  OutboxInv'
    <2>1. faults' \in Nat
      BY <1>1, <1>3 DEF Failed
    <2>2. proc[p].at # "idle" /\ l \in Labels \ {"create", "log"} /\ l \notin AtRun
      BY <1>1 DEF Sending, Labels, AtRun
    <2> QED BY <1>1, <1>3, <2>1, <2>2, GoToKeeps DEF Failed, mlflow
  <1>4. ASSUME (At(p, "experiment") /\ GoTo(p, "find")) \/ (At(p, "update") /\ GoTo(p, "mark")),
               Acts(Outgoing(p), FALSE), UNCHANGED <<late, faults>>
        PROVE  OutboxInv'
    <2>1. PICK l \in {"find", "mark"} : GoTo(p, l) /\ (l = "mark" => proc[p].at \in AtRun)
      BY <1>4 DEF At, AtRun
    <2>2. /\ proc' \in [Procs -> ProcRecords] /\ \A q \in Procs \ {p} : proc'[q] = proc[q]
          /\ proc'[p].event = proc[p].event /\ proc'[p].run = proc[p].run
          /\ proc'[p].chunk = proc[p].chunk /\ proc'[p].at = l
      BY <2>1, GoToEffect DEF Labels
    <2> QED BY <1>1, <1>4, <2>1, <2>2, OwnRequestKeeps DEF AtRun
  <1>5. ASSUME At(p, "log") \/ At(p, "mark"), NextPart(p), Acts(Outgoing(p), FALSE),
               UNCHANGED <<late, faults>>
        PROVE  OutboxInv'
    <2>1. proc[p].at \in AtRun
      BY <1>5 DEF At, AtRun
    <2>2. /\ proc' \in [Procs -> ProcRecords] /\ \A q \in Procs \ {p} : proc'[q] = proc[q]
          /\ proc'[p].event = proc[p].event /\ proc'[p].run = proc[p].run
          /\ proc'[p].at \in {"tags", "done"} /\ proc'[p].chunk \in 1..Chunks[proc[p].event]
      BY <1>5, <2>1, NextPartEffect
    <2> QED BY <1>1, <1>5, <2>1, <2>2, OwnRequestKeeps
  <1>6. ASSUME At(p, "create"), proc' = [proc EXCEPT ![p].at = "tags", ![p].run = Len(runs) + 1],
               Acts(Outgoing(p), FALSE), UNCHANGED <<late, faults>>
        PROVE  OutboxInv'
    <2>1. Outgoing(p).what = "create"
      BY <1>6 DEF Outgoing, At
    <2>2. Created(FALSE)
      BY <1>6, <2>1 DEF Acts
    <2>3. Len(runs) + 1 \in Nat /\ Len(runs) + 1 \in 1..Len(runs')
      BY <1>1, <2>2 DEF Created
    <2>4. /\ proc' \in [Procs -> ProcRecords] /\ \A q \in Procs \ {p} : proc'[q] = proc[q]
          /\ proc'[p].event = proc[p].event /\ proc'[p].run = Len(runs) + 1
          /\ proc'[p].chunk = proc[p].chunk /\ proc'[p].at = "tags"
      BY <1>1, <1>6, <2>3 DEF ProcRecords, Labels
    <2> QED BY <1>1, <1>6, <2>3, <2>4, OwnRequestKeeps
  <1>7. ASSUME ~OutboxInv', NEW l \in {"retry", "refind"}
        PROVE  /\ ~(Failed(p, l) /\ Acts(Outgoing(p), FALSE) /\ UNCHANGED late)
               /\ ~(Failed(p, l) /\ late' = late \cup {Outgoing(p)} /\ UNCHANGED mlflow)
    BY <1>2, <1>3, <1>7
  <1>8. CASE EnsureExperiment(p)
    BY <1>4, <1>7, <1>8 DEF EnsureExperiment, Request
  <1>9. CASE CreateRun(p)
    BY <1>6, <1>7, <1>9 DEF CreateRun, Request
  <1>10. CASE LogBatch(p)
    BY <1>5, <1>7, <1>10 DEF LogBatch, Request
  <1>11. CASE UpdateRun(p)
    BY <1>4, <1>7, <1>11 DEF UpdateRun, Request
  <1>12. CASE SetTag(p)
    BY <1>5, <1>7, <1>12 DEF SetTag, Request
  <1> QED BY <1>8, <1>9, <1>10, <1>11, <1>12

LEMMA OutboxStep ==
    ASSUME OutboxInv, [OutboxNext]_outboxVars
    PROVE  OutboxInv'
  <1> USE OutboxAssumption
  <1>1. ASSUME UNCHANGED <<runs, found, proc, replicas, late>>, faults' \in Nat PROVE OutboxInv'
    <2>1. \A q \in Procs : Part(q)' = Part(q)
      BY <1>1 DEF Part
    <2>2. ProcShape' /\ LateShape' /\ RunsShape' /\ LoggedIsMarked'
      BY <1>1 DEF OutboxInv, ProcShape, LateShape, RunsShape, LoggedIsMarked
    <2>3. OneWriter'
      BY <1>1, <2>1 DEF OutboxInv, OneWriter, OnceOnRuns, NotForestalled, Alone
    <2> QED BY <2>2, <2>3 DEF OutboxInv
  <1>2. ASSUME NEW p \in Procs, NEW e \in Events, p \in replicas, Take(p, e) PROVE OutboxInv'
    <2>1. /\ proc' = [proc EXCEPT ![p] = [at |-> "experiment", event |-> e, run |-> 0, chunk |-> 1]]
          /\ UNCHANGED <<runs, found, replicas, late>> /\ proc \in [Procs -> ProcRecords] /\ faults' \in Nat
      BY <1>2 DEF Take, mlflow, OutboxInv, ProcShape, LateShape
    <2>2. 1 \in 1..Chunks[e]
      OBVIOUS
    <2>3. proc' \in [Procs -> ProcRecords] /\ \A q \in Procs \ {p} : proc'[q] = proc[q]
      BY <2>1 DEF ProcRecords, Labels
    <2>4. proc'[p].at = "experiment" /\ proc'[p].event = e /\ proc'[p].chunk = 1
      BY <2>1
    <2> QED BY <1>2, <2>1, <2>2, <2>3, <2>4, ProcSteps DEF AtRun
  <1>3. ASSUME NEW p \in Procs, proc' = [proc EXCEPT ![p] = Idle], UNCHANGED <<runs, found, replicas>>,
               faults' \in Nat,
               late' \subseteq late \/ (proc[p].at \in Sending /\ late' \subseteq late \cup {Outgoing(p)})
        PROVE  OutboxInv'
    <2>1. proc \in [Procs -> ProcRecords]
      BY DEF OutboxInv, ProcShape
    <2>2. proc' \in [Procs -> ProcRecords] /\ \A q \in Procs \ {p} : proc'[q] = proc[q]
      BY <1>3, <2>1 DEF ProcRecords, Labels, Idle
    <2>3. proc'[p].at = "idle"
      BY <1>3, <2>1 DEF Idle
    <2> QED BY <1>3, <2>2, <2>3, ProcSteps DEF AtRun
  <1>4. ASSUME NEW p \in Procs, FindRun(p) PROVE OutboxInv'
    <2>1. /\ proc[p].at \in {"find", "refind"} /\ UNCHANGED <<runs, found, replicas, late>>
          /\ proc \in [Procs -> ProcRecords] /\ found \in Nat /\ found <= Len(runs) /\ runs \in Seq(RunRecords)
          /\ p \in replicas /\ proc[p].event \in Events /\ proc[p].chunk \in 1..Chunks[proc[p].event]
          /\ faults' \in Nat
      BY <1>4 DEF FindRun, Failed, mlflow, OutboxInv, ProcShape, LateShape, RunsShape
    <2>2. CASE found # 0 /\ proc' = [proc EXCEPT ![p].at = "tags", ![p].run = found]
      <3>1. /\ proc' \in [Procs -> ProcRecords] /\ \A q \in Procs \ {p} : proc'[q] = proc[q]
            /\ proc'[p].event = proc[p].event /\ proc'[p].chunk = proc[p].chunk
            /\ proc'[p].at = "tags" /\ proc'[p].run = found
        BY <2>1, <2>2 DEF ProcRecords, Labels
      <3>2. found \in 1..Len(runs)
        BY <2>1, <2>2
      <3> QED BY <2>1, <3>1, <3>2, ProcSteps
    <2>3. CASE found = 0 /\ GoTo(p, "create")
      <3>1. /\ proc' \in [Procs -> ProcRecords] /\ \A q \in Procs \ {p} : proc'[q] = proc[q]
            /\ proc'[p].event = proc[p].event /\ proc'[p].chunk = proc[p].chunk
            /\ proc'[p].at = "create"
        BY <2>1, <2>3, GoToEffect DEF Labels
      <3> QED BY <2>1, <2>3, <3>1, ProcSteps DEF AtRun
    <2>4. CASE GoTo(p, "retry")
      BY <2>1, <2>4, GoToKeeps DEF Labels, AtRun
    <2> QED BY <1>4, <2>2, <2>3, <2>4 DEF FindRun, Failed
  <1>5. ASSUME NEW p \in Procs, ReadTags(p) PROVE OutboxInv'
    <2>1. /\ proc[p].at = "tags" /\ UNCHANGED <<runs, found, replicas, late>>
          /\ proc \in [Procs -> ProcRecords] /\ proc[p].run \in 1..Len(runs)
          /\ p \in replicas /\ proc[p].event \in Events /\ proc[p].chunk \in 1..Chunks[proc[p].event]
          /\ faults' \in Nat
      BY <1>5 DEF ReadTags, Failed, At, mlflow, OutboxInv, ProcShape, LateShape, AtRun
    <2>2. CASE NextPart(p)
      <3>1. /\ proc' \in [Procs -> ProcRecords] /\ \A q \in Procs \ {p} : proc'[q] = proc[q]
            /\ proc'[p].event = proc[p].event /\ proc'[p].run = proc[p].run
            /\ proc'[p].at \in {"tags", "done"} /\ proc'[p].chunk \in 1..Chunks[proc[p].event]
        BY <2>1, <2>2, NextPartEffect DEF AtRun
      <3> QED BY <2>1, <3>1, ProcSteps DEF AtRun
    <2>3. CASE ~Marked(p) /\ GoTo(p, "log")
      <3>1. /\ proc' \in [Procs -> ProcRecords] /\ \A q \in Procs \ {p} : proc'[q] = proc[q]
            /\ proc'[p].event = proc[p].event /\ proc'[p].run = proc[p].run
            /\ proc'[p].chunk = proc[p].chunk /\ proc'[p].at = "log"
        BY <2>1, <2>3, GoToEffect DEF Labels
      <3> QED BY <2>1, <2>3, <3>1, ProcSteps DEF AtRun, Marked, Part
    <2>4. CASE GoTo(p, "retry") \/ GoTo(p, "update")
      BY <2>1, <2>4, GoToKeeps DEF Labels, AtRun
    <2> QED BY <1>5, <2>2, <2>3, <2>4 DEF ReadTags, Failed
  <1>6. \/ UNCHANGED <<runs, found, proc, replicas, late>> /\ faults' \in Nat
        \/ \E p \in Procs, e \in Events : p \in replicas /\ Take(p, e)
        \/ \E p \in Procs : /\ proc' = [proc EXCEPT ![p] = Idle] /\ UNCHANGED <<runs, found, replicas>>
                            /\ faults' \in Nat
                            /\ late' \subseteq late \/ (proc[p].at \in Sending /\ late' \subseteq late \cup {Outgoing(p)})
        \/ \E p \in Procs : Project(p)
        \/ \E q \in late : ActsLate(q)
    <2>1. faults \in Nat
      BY DEF OutboxInv, LateShape
    <2>2. CASE \/ UNCHANGED outboxVars
               \/ \E e \in Events : Enqueue(e) \/ BackoffEnds(e) \/ ClaimAges(e) \/ SlowProjection(e)
      BY <2>1, <2>2 DEF outboxVars, mlflow, Enqueue, BackoffEnds, ClaimAges, SlowProjection
    <2>3. ASSUME NEW p \in Procs, ClaimOldest(p) \/ \E e \in Events : ClaimNamed(p, e)
          PROVE  \E e \in Events : p \in replicas /\ Take(p, e)
      BY <2>3 DEF ClaimOldest, ClaimNamed, Ready
    <2>4. ASSUME NEW p \in Procs, MarkSynced(p) \/ MarkRetry(p) \/ ProcessDies(p)
          PROVE  /\ proc' = [proc EXCEPT ![p] = Idle] /\ UNCHANGED <<runs, found, replicas>>
                 /\ faults' \in Nat
                 /\ late' \subseteq late \/ (proc[p].at \in Sending /\ late' \subseteq late \cup {Outgoing(p)})
      BY <2>1, <2>4 DEF MarkSynced, MarkRetry, ProcessDies, mlflow
    <2> QED BY <2>2, <2>3, <2>4 DEF OutboxNext
  <1> QED BY <1>1, <1>2, <1>3, <1>4, <1>5, <1>6, RequestKeeps, ActsLateKeeps DEF Project

\* With one API process a batch is logged twice on a run, or a second run created for the
\* job, only by a request that MLflow acts on after a retry has looked in vain for its
\* marker or its run: not by an answer that was lost, and not by a restart (_ensure_run,
\* _log_batch_once).
THEOREM BatchesAreProjectedOnce == OutboxSpec => []ProjectedOnce
  <1> USE OutboxAssumption
  <1>1. OutboxInit => OutboxInv
    <2> SUFFICES ASSUME OutboxInit PROVE OutboxInv
      OBVIOUS
    <2>1. runs \in Seq(RunRecords) /\ Len(runs) = 0 /\ found = 0 /\ late = {} /\ faults = 0
      BY DEF OutboxInit
    <2>2. proc \in [Procs -> ProcRecords] /\ \A q \in Procs : proc[q].at = "idle"
      BY DEF OutboxInit, Idle, ProcRecords, Labels
    <2> QED BY <2>1, <2>2 DEF OutboxInit, OutboxInv, ProcShape, LateShape, RunsShape, LoggedIsMarked,
                              OneWriter, OnceOnRuns, NotForestalled, AtRun
  <1>2. OutboxInv /\ [OutboxNext]_outboxVars => OutboxInv'
    BY OutboxStep
  <1>3. OutboxInv => ProjectedOnce
    <2> SUFFICES ASSUME OutboxInv, Cardinality(replicas) = 1
                 PROVE  /\ \A r, s \in DOMAIN runs : ~runs[r].extra /\ ~runs[s].extra => r = s
                        /\ \A r \in DOMAIN runs : \A x \in Parts : runs[r].logged[x] <= 1
      BY DEF ProjectedOnce
    <2>1. replicas \subseteq Procs /\ IsFiniteSet(replicas)
      BY FS_Subset DEF OutboxInv, ProcShape
    <2>2. Alone
      BY <2>1, FS_Singleton DEF Alone
    <2>3. DOMAIN runs = 1..Len(runs)
      BY DEF OutboxInv, RunsShape
    <2> QED BY <2>2, <2>3 DEF OutboxInv, OneWriter, OnceOnRuns
  <1> QED BY <1>1, <1>2, <1>3, PTL DEF OutboxSpec
=============================================================================
