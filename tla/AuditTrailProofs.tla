-------------------------- MODULE AuditTrailProofs --------------------------
(* The pipeline implements AuditTrail, but for the fairness, which TLC checks: *)
(* every step of Audit is a step of AuditTrail or leaves its state alone.      *)
EXTENDS AuditProofs, SequenceTheorems

Hand(e) == IF e = NoEntry THEN <<>> ELSE <<e>>

LEMMA HandFacts ==
  ASSUME NEW e \in Entries, NEW q \in Seq(Entries)
  PROVE  /\ NoEntry \notin Entries
         /\ Hand(NoEntry) \o q = q
         /\ Hand(e) \o q \in Seq(Entries)
         /\ Len(Hand(e) \o q) = Len(q) + 1
         /\ Hand(e) \o q # <<>>
         /\ Head(Hand(e) \o q) = e
         /\ Tail(Hand(e) \o q) = q
<1>1. NoEntry \notin Entries
  BY DEF Entries, NoEntry
<1>2. Hand(NoEntry) \o q = q
  BY ConcatEmptySeq DEF Hand
<1>3. Hand(e) = <<e>> /\ <<e>> \in Seq(Entries) /\ Len(<<e>>) = 1
  BY <1>1 DEF Hand
<1>4. /\ <<e>> \o q \in Seq(Entries)
      /\ Len(<<e>> \o q) = Len(q) + 1 /\ Len(q) \in Nat
      /\ \A i \in 1 .. Len(q) + 1 :
            (<<e>> \o q)[i] = IF i <= 1 THEN e ELSE q[i - 1]
  BY <1>3, ConcatProperties, SeqFacts
<1>5. <<e>> \o q # <<>> /\ Head(<<e>> \o q) = e
  <2> DEFINE s == <<e>> \o q
  <2>1. s \in Seq(Entries) /\ Len(s) # 0 /\ s[1] = e
    BY <1>4
  <2> HIDE DEF s
  <2>2. s # <<>>
    BY <2>1, EmptyFacts
  <2> QED
    BY <2>1, <2>2, TailFacts DEF s
<1>6. Tail(<<e>> \o q) = q
  <2> DEFINE s == <<e>> \o q
  <2>1. s \in Seq(Entries) /\ s # <<>> /\ Len(s) = Len(q) + 1
    BY <1>4, <1>5
  <2>2. \A i \in 1 .. Len(q) : s[i + 1] = q[i]
    BY <1>4
  <2> HIDE DEF s
  <2>3. Tail(s) \in Seq(Entries) /\ Len(Tail(s)) = Len(q)
        /\ \A i \in 1 .. Len(Tail(s)) : Tail(s)[i] = q[i]
    BY <2>1, <2>2, <1>4, TailFacts
  <2>4. Tail(s) = q
    BY <2>3, SeqEqual
  <2> QED
    BY <2>4 DEF s
<1> QED
  BY <1>1, <1>2, <1>3, <1>4, <1>5, <1>6

LEMMA PendingFacts ==
  ASSUME TypeInv
  PROVE  /\ Pending = Hand(consumer.entry) \o queue
         /\ queue \in Seq(Entries) /\ Len(queue) \in Nat
         /\ Pending \in Seq(Entries)
         /\ consumer.entry \in Entries \cup {NoEntry}
         /\ Len(Pending) = IF consumer.entry = NoEntry THEN Len(queue) ELSE Len(queue) + 1
<1>1. /\ Pending = Hand(consumer.entry) \o queue
      /\ queue \in Seq(Entries)
      /\ consumer.entry \in Entries \cup {NoEntry}
  BY DEF Pending, Hand, TypeInv, TypeOK, Consumer
<1>2. Len(queue) \in Nat
  BY <1>1, SeqFacts
<1>3. CASE consumer.entry = NoEntry
  <2>1. Pending = queue
    BY <1>1, <1>3, ConcatEmptySeq DEF Hand
  <2> QED
    BY <1>1, <1>2, <1>3, <2>1
<1>4. CASE consumer.entry \in Entries
  BY <1>1, <1>2, <1>4, HandFacts
<1> QED
  BY <1>1, <1>2, <1>3, <1>4

\* Log is a Submit while the channel has room and a Refuse when it is full.
LEMMA LogMaps ==
  ASSUME TypeInv, submitted < MaxEntries, phase \in {"running", "stopping"}, Log,
         UNCHANGED <<table, consumer, phase>>
  PROVE  Trail!Submit \/ Trail!Refuse
<1> DEFINE e == submitted + 1
<1>0. Rows' = Rows /\ Len(queue) <= Capacity /\ Capacity \in Nat /\ e \in Entries
  BY LimitsAssumption, NextEntry DEF Rows, TypeInv, TypeOK
<1>1. CASE HasRoom
  <2>1. submitted' = e /\ queue' = Append(queue, e)
    BY <1>1 DEF Log
  <2>2. Len(Pending) <= Capacity
    BY <1>0, <1>1, PendingFacts DEF HasRoom
  <2>3. Pending' = Append(Pending, e)
    <3> DEFINE h == Hand(consumer.entry)
    <3>1. h \in Seq(Entries)
      BY PendingFacts DEF Hand
    <3>2. Pending = h \o queue /\ queue \in Seq(Entries) /\ Pending \in Seq(Entries)
      BY PendingFacts
    <3>3. Pending' = h \o queue'
      BY DEF Pending, Hand
    <3> HIDE DEF h, e
    <3>4. <<e>> \in Seq(Entries)
      BY <1>0
    <3>5. queue' = queue \o <<e>> /\ Append(Pending, e) = Pending \o <<e>>
      BY <1>0, <2>1, <3>2, AppendIsConcat
    <3>6. (h \o queue) \o <<e>> = h \o (queue \o <<e>>)
      BY <3>1, <3>2, <3>4, ConcatAssociative
    <3> QED
      BY <3>2, <3>3, <3>5, <3>6
  <2> QED
    BY <1>0, <2>1, <2>2, <2>3 DEF Trail!Submit
<1>2. CASE ~HasRoom
  <2>1. submitted' = e /\ queue' = queue
    BY <1>2 DEF Log
  <2>2. Pending' = Pending
    BY <2>1 DEF Pending
  <2>3. Len(Pending) >= Capacity
    BY <1>0, <1>2, PendingFacts DEF HasRoom
  <2> QED
    BY <1>0, <2>1, <2>2, <2>3 DEF Trail!Refuse
<1> QED
  BY <1>1, <1>2

LEMMA InitTrail == Init => Trail!Init
<1> SUFFICES ASSUME Init PROVE Trail!Init
  OBVIOUS
<1>1. Rows = <<>>
  BY EmptyFacts DEF Init, Rows
<1>2. Pending = <<>>
  BY HashTypes, EmptyFacts, ConcatEmptySeq DEF Init, Pending
<1> QED
  BY <1>1, <1>2 DEF Init, Trail!Init

\* What dies takes the line with it.
LEMMA DieMaps ==
  ASSUME TypeInv, Die, table' = table, submitted' \in {submitted, submitted + 1}
  PROVE  Trail!Die
<1>1. Rows' = Rows
  BY DEF Rows
<1>2. queue' = <<>> /\ consumer'.entry = NoEntry /\ phase' = "dead"
  BY HashTypes DEF Die
<1>3. Pending' = <<>>
  BY <1>2, ConcatEmptySeq, EmptyFacts DEF Pending
<1> QED
  BY <1>1, <1>2, <1>3 DEF Trail!Die

\* Steps that leave rows and line alone.
LEMMA FrameMaps ==
  ASSUME UNCHANGED <<table, queue>>, consumer'.entry = consumer.entry
  PROVE  Rows' = Rows /\ Pending' = Pending
BY DEF Rows, Pending

LEMMA StepTrail == TypeInv /\ PhaseInv /\ [Next]_vars => [Trail!Next]_(Trail!vars)
<1> SUFFICES ASSUME TypeInv, PhaseInv, [Next]_vars
             PROVE  Trail!Next \/ UNCHANGED Trail!vars
  OBVIOUS
<1> USE HashTypes
<1>1. ASSUME NEW h \in Handlers, HandlerLogs(h)
      PROVE Trail!Next
  <2>1. CASE ChannelClosed
    BY <1>1, <2>1, FrameMaps DEF HandlerLogs, ChannelClosed, Trail!Refuse, Trail!Next
  <2>2. CASE ~ChannelClosed
    <3>1. phase \in {"running", "stopping"}
      BY <1>1, <2>2 DEF HandlerLogs, ChannelClosed, PhaseInv, TypeInv, TypeOK, Phases
    <3> QED
      BY <1>1, <2>2, <3>1, LogMaps DEF HandlerLogs, Trail!Next
  <2> QED
    BY <2>1, <2>2
<1>2. CASE CheckerLogs
  <2>1. CASE ChannelClosed
    BY <1>2, <2>1, DieMaps DEF CheckerLogs, Trail!Next
  <2>2. CASE ~ChannelClosed
    <3>1. phase \in {"running", "stopping"}
      BY <1>2, <2>2 DEF CheckerLogs, ChannelClosed, Alive
    <3> QED
      BY <1>2, <2>2, <3>1, LogMaps DEF CheckerLogs, Trail!Next
  <2> QED
    BY <2>1, <2>2
<1>3. CASE Receive
  <2>1. /\ consumer.entry = NoEntry /\ queue # <<>> /\ queue \in Seq(Entries)
        /\ consumer'.entry = Head(queue) /\ queue' = Tail(queue)
        /\ UNCHANGED <<table, submitted, phase>>
    BY <1>3 DEF Receive, TypeInv, TypeOK, HandOK
  <2>2. Head(queue) \in Entries /\ Tail(queue) \in Seq(Entries) /\ Head(queue) # NoEntry
    BY <2>1, TailFacts, HandFacts
  <2>3. Pending = queue /\ Pending' = <<Head(queue)>> \o Tail(queue)
    BY <2>1, <2>2, ConcatEmptySeq DEF Pending
  <2>4. <<Head(queue)>> \o Tail(queue) = queue
    <3> DEFINE s == <<Head(queue)>> \o Tail(queue)
    <3>1. /\ Hand(Head(queue)) = <<Head(queue)>>
          /\ Head(queue) = queue[1] /\ Len(Tail(queue)) = Len(queue) - 1
          /\ \A i \in 1 .. Len(queue) - 1 : Tail(queue)[i] = queue[i + 1]
      BY <2>1, <2>2, TailFacts DEF Hand
    <3>2. Len(queue) \in Nat
      BY <2>1, SeqFacts
    <3>3. <<Head(queue)>> \in Seq(Entries) /\ Len(<<Head(queue)>>) = 1
      BY <2>2
    <3>4. /\ s \in Seq(Entries) /\ Len(s) = Len(queue)
          /\ \A i \in 1 .. Len(queue) :
                s[i] = IF i <= 1 THEN Head(queue) ELSE Tail(queue)[i - 1]
      BY <2>2, <3>1, <3>2, <3>3, ConcatProperties
    <3> HIDE DEF s
    <3>5. ASSUME NEW i \in 1 .. Len(s)
          PROVE  s[i] = queue[i]
      <4>1. CASE i = 1
        BY <3>1, <3>4, <4>1
      <4>2. CASE i # 1
        <5>1. i - 1 \in 1 .. Len(queue) - 1 /\ (i - 1) + 1 = i /\ ~(i <= 1)
          BY <3>2, <3>4, <4>2
        <5> QED
          BY <3>1, <3>4, <5>1
      <4> QED
        BY <4>1, <4>2
    <3>6. s = queue
      BY <2>1, <3>4, <3>5, SeqEqual
    <3> QED
      BY <3>6 DEF s
  <2> QED
    BY <2>1, <2>3, <2>4 DEF Rows, Trail!vars
<1>4. CASE GetLastHash \/ GetLastHashFails
  <2>1. consumer'.entry = consumer.entry /\ UNCHANGED <<table, queue, submitted, phase>>
    BY <1>4 DEF GetLastHash, GetLastHashFails, TypeInv, TypeOK, Consumer
  <2> QED
    BY <2>1, FrameMaps DEF Trail!vars
<1>5. ASSUME Create \/ CreateFails
      PROVE  /\ consumer.entry \in Entries /\ Pending # <<>>
             /\ Head(Pending) = consumer.entry /\ Pending' = Tail(Pending)
             /\ UNCHANGED <<submitted, phase>>
  <2>1. /\ consumer.entry \in Entries /\ consumer'.entry = NoEntry
        /\ UNCHANGED <<queue, submitted, phase>>
    BY <1>5, PendingFacts DEF Create, CreateFails, TypeInv, HandOK
  <2>2. queue \in Seq(Entries) /\ Pending = Hand(consumer.entry) \o queue
    BY PendingFacts
  <2>3. Pending' = queue
    BY <2>1, <2>2, ConcatEmptySeq DEF Pending
  <2> QED
    BY <2>1, <2>2, <2>3, HandFacts
<1>6. CASE Create
  <2> DEFINE row == BuildAuditLog(consumer.entry, consumer.prev)
  <2>1. table' = Append(table, row) /\ row.entry = consumer.entry
    BY <1>6 DEF Create, BuildAuditLog
  <2>2. row \in AuditLog /\ table \in Seq(AuditLog)
    <3>1. consumer.prev \in Seq(Nat) /\ consumer.entry \in Nat
      BY RowTypes DEF TypeInv, TypeOK, Consumer
    <3> QED
      BY <1>5, <1>6, <3>1, AppendFacts DEF BuildAuditLog, Hash, AuditLog, TypeInv, TypeOK
  <2> HIDE DEF row
  <2>3. /\ DOMAIN table = 1 .. Len(table) /\ Len(table) \in Nat
        /\ DOMAIN table' = 1 .. Len(table) + 1
        /\ \A i \in 1 .. Len(table) : table'[i] = table[i]
        /\ table'[Len(table) + 1] = row
    BY <2>1, <2>2, AppendFacts, SeqFacts
  <2>4. Rows \in Seq(Entries) /\ Len(Rows) = Len(table)
        /\ \A i \in 1 .. Len(table) : Rows[i] = table[i].entry
    <3>1. \A i \in 1 .. Len(table) : table[i].entry \in Entries
      <4>1. \A i \in 1 .. Len(table) : table[i] \in AuditLog
        BY <2>2, <2>3
      <4> QED
        BY <4>1 DEF AuditLog
    <3>2. Rows = [i \in 1 .. Len(table) |-> table[i].entry]
      BY <2>3 DEF Rows
    <3> QED
      BY <2>3, <3>1, <3>2
  <2>5. Rows' \in Seq(Entries) /\ Len(Rows') = Len(table) + 1
        /\ \A i \in 1 .. Len(table) + 1 :
              Rows'[i] = IF i <= Len(table) THEN table[i].entry ELSE consumer.entry
    <3>1. \A i \in 1 .. Len(table) + 1 :
             /\ table'[i].entry \in Entries
             /\ table'[i].entry = IF i <= Len(table) THEN table[i].entry
                                                     ELSE consumer.entry
      <4> SUFFICES ASSUME NEW i \in 1 .. Len(table) + 1
                   PROVE  /\ table'[i].entry \in Entries
                          /\ table'[i].entry = IF i <= Len(table) THEN table[i].entry
                                                                  ELSE consumer.entry
        OBVIOUS
      <4>1. CASE i = Len(table) + 1
        BY <1>5, <1>6, <2>1, <2>3, <4>1
      <4>2. CASE i \in 1 .. Len(table)
        <5>1. table[i] \in AuditLog
          BY <2>2, <2>3, <4>2
        <5> QED
          BY <2>3, <4>2, <5>1 DEF AuditLog
      <4> QED
        BY <2>3, <4>1, <4>2
    <3>2. Rows' = [i \in 1 .. Len(table) + 1 |-> table'[i].entry]
      BY <2>3 DEF Rows
    <3>3. Len(table) + 1 \in Nat
      BY <2>3
    <3> QED
      BY <3>1, <3>2, <3>3
  <2>6. Rows' = Append(Rows, consumer.entry)
    <3> DEFINE t == Append(Rows, consumer.entry)
    <3>1. /\ t \in Seq(Entries) /\ Len(t) = Len(table) + 1
          /\ \A i \in 1 .. Len(table) : t[i] = Rows[i]
          /\ t[Len(table) + 1] = consumer.entry
      BY <1>5, <1>6, <2>4, AppendFacts
    <3> HIDE DEF t
    <3>2. \A i \in 1 .. Len(Rows') : Rows'[i] = t[i]
      <4> SUFFICES ASSUME NEW i \in 1 .. Len(table) + 1 PROVE Rows'[i] = t[i]
        BY <2>5
      <4>1. CASE i \in 1 .. Len(table)
        <5>1. i <= Len(table)
          BY <2>3, <4>1
        <5>2. Rows'[i] = table[i].entry
          BY <2>5, <5>1
        <5> QED
          BY <2>4, <3>1, <4>1, <5>2
      <4>2. CASE i = Len(table) + 1
        <5>1. ~(i <= Len(table))
          BY <2>3, <4>2
        <5>2. Rows'[i] = consumer.entry
          BY <2>5, <5>1
        <5> QED
          BY <3>1, <4>2, <5>2
      <4> QED
        BY <2>3, <4>1, <4>2
    <3>3. Rows' = t
      BY <2>5, <3>1, <3>2, SeqEqual
    <3> QED
      BY <3>3 DEF t
  <2> QED
    BY <1>5, <1>6, <2>6 DEF Trail!Record, Trail!Next
<1>7. CASE CreateFails
  <2>1. Rows' = Rows
    BY <1>7 DEF CreateFails, Rows
  <2> QED
    BY <1>5, <1>7, <2>1 DEF Trail!Discard, Trail!Next
<1>8. CASE LoopEnds
  <2>1. consumer'.entry = consumer.entry /\ UNCHANGED <<table, queue, submitted, phase>>
    BY <1>8 DEF LoopEnds, TypeInv, HandOK
  <2> QED
    BY <2>1, FrameMaps DEF Trail!vars
<1>9. ASSUME NEW h \in Handlers, RequestArrives(h) \/ RequestEnds(h)
      PROVE UNCHANGED Trail!vars
  BY <1>9, FrameMaps DEF RequestArrives, RequestEnds, Trail!vars
<1>10. CASE Signal
  BY <1>10, FrameMaps DEF Signal, Goto, Trail!vars
<1>11. CASE ServerStopped
  BY <1>11, FrameMaps DEF ServerStopped, Goto, Trail!Close, Trail!Next
<1>12. CASE Drained
  BY <1>12, FrameMaps DEF Drained, Exit, Trail!vars
<1>13. CASE Killed
  BY <1>13, DieMaps DEF Killed, Trail!Next
<1>14. CASE Restart
  <2>1. consumer.entry = NoEntry /\ queue = <<>> /\ phase \in {"exited", "dead"}
    BY <1>14 DEF Restart, Alive, PhaseInv, TypeInv, TypeOK, HandOK, Phases
  <2>2. UNCHANGED <<table, queue, submitted>> /\ consumer'.entry = consumer.entry
        /\ phase' = "running"
    BY <1>14, <2>1 DEF Restart
  <2>3. Pending = <<>>
    BY <2>1, ConcatEmptySeq, EmptyFacts DEF Pending
  <2> QED
    BY <2>1, <2>2, <2>3, FrameMaps DEF Trail!Reopen, Trail!Next
<1>15. CASE UNCHANGED vars
  BY <1>15, FrameMaps DEF vars, Trail!vars
<1> QED
  BY <1>1, <1>2, <1>3, <1>4, <1>6, <1>7, <1>8, <1>9, <1>10, <1>11, <1>12, <1>13, <1>14,
     <1>15
  DEF Next, ConsumeLoop

\* Whatever fails, is killed or restarts, and in whatever order the goroutines run,
\* the pipeline takes only steps of AuditTrail.
THEOREM TrailCorrect == Spec => Trail!Steps
BY InitType, StepType, InitPhase, StepPhase, InitTrail, StepTrail, PTL
DEF Spec, Trail!Steps
=============================================================================
