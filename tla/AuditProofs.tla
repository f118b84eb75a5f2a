----------------------------- MODULE AuditProofs -----------------------------
(* Proofs about Audit, for every value of its constants: any number of      *)
(* handlers and entries, any capacity, with and without failures.           *)
EXTENDS Audit, TLAPS, WellFoundedInduction

-----------------------------------------------------------------------------
(* Sequences *)

LEMMA AppendFacts ==
  ASSUME NEW S, NEW s \in Seq(S), NEW e \in S
  PROVE  /\ Append(s, e) \in Seq(S)
         /\ Len(Append(s, e)) = Len(s) + 1
         /\ DOMAIN Append(s, e) = 1 .. Len(s) + 1
         /\ \A i \in 1 .. Len(s) : Append(s, e)[i] = s[i]
         /\ Append(s, e)[Len(s) + 1] = e
OBVIOUS

LEMMA TailFacts ==
  ASSUME NEW S, NEW s \in Seq(S), s # <<>>
  PROVE  /\ Head(s) \in S /\ Head(s) = s[1]
         /\ Tail(s) \in Seq(S)
         /\ Len(Tail(s)) = Len(s) - 1
         /\ DOMAIN Tail(s) = 1 .. Len(s) - 1
         /\ \A i \in 1 .. Len(s) - 1 : Tail(s)[i] = s[i + 1]
OBVIOUS

LEMMA SeqFacts ==
  ASSUME NEW S, NEW s \in Seq(S)
  PROVE  /\ Len(s) \in Nat /\ DOMAIN s = 1 .. Len(s)
         /\ \A i \in DOMAIN s : s[i] \in S
OBVIOUS

LEMMA EmptyFacts ==
  ASSUME NEW S
  PROVE  <<>> \in Seq(S) /\ Len(<<>>) = 0 /\ DOMAIN <<>> = {}
OBVIOUS

LEMMA WiderSeq ==
  ASSUME NEW S, NEW T, S \subseteq T, NEW s \in Seq(S)
  PROVE  s \in Seq(T)
<1>1. \A i \in 1 .. Len(s) : s[i] \in T
  BY SeqFacts
<1> QED
  BY <1>1, SeqFacts

-----------------------------------------------------------------------------
(* Type correctness *)

\* The consumer holds an entry exactly between taking and inserting it.
HandOK == consumer.entry # NoEntry <=> consumer.step \in {"read", "insert"}

TypeInv == TypeOK /\ HandOK

LEMMA HashTypes == /\ Genesis \in Seq(Nat) /\ NoHash \in Seq(Nat) /\ Genesis # NoHash
                   /\ Receiving \in Consumer /\ Returned \in Consumer
                   /\ Receiving.entry = NoEntry /\ Returned.entry = NoEntry
                   /\ Receiving.step = "receive" /\ Returned.step = "closed"
                   /\ Receiving.prev = NoHash /\ Returned.prev = NoHash
<1>1. Genesis \in Seq(Nat) /\ NoHash \in Seq(Nat) /\ Genesis # NoHash
  BY DEF Genesis, NoHash, NoEntry
<1>2. Receiving \in Consumer
  BY <1>1 DEF Receiving, Consumer
<1>3. Returned \in Consumer /\ Returned = [step |-> "closed", entry |-> NoEntry,
                                          prev |-> NoHash]
  BY <1>1 DEF Receiving, Returned, Consumer
<1> QED
  BY <1>1, <1>2, <1>3 DEF Receiving

LEMMA NextEntry ==
  ASSUME TypeOK, submitted < MaxEntries
  PROVE  submitted + 1 \in Entries /\ submitted + 1 \in 0 .. MaxEntries
BY LimitsAssumption DEF TypeOK, Entries

LEMMA InitType == Init => TypeInv
BY HashTypes, EmptyFacts, LimitsAssumption
DEF Init, TypeInv, TypeOK, HandOK, Phases

\* Submitting an entry to the open channel.
LEMMA LogType ==
  ASSUME TypeOK, submitted < MaxEntries, Log
  PROVE  /\ queue' \in Seq(Entries) /\ Len(queue') <= Capacity
         /\ submitted' \in 0 .. MaxEntries
         /\ lost' \subseteq Entries /\ accepted' \subseteq Entries
<1> DEFINE e == submitted + 1
<1>1. e \in Entries /\ e \in 0 .. MaxEntries /\ submitted' = e
  BY NextEntry DEF Log
<1>2. CASE HasRoom
  <2>1. queue' = Append(queue, e) /\ accepted' = accepted \cup {e} /\ lost' = lost
    BY <1>2 DEF Log
  <2> HIDE DEF e
  <2> QED
    BY <1>1, <1>2, <2>1, AppendFacts, SeqFacts, LimitsAssumption DEF HasRoom, TypeOK
<1>3. CASE ~HasRoom
  BY <1>1, <1>3 DEF Log, TypeOK
<1> QED
  BY <1>2, <1>3

LEMMA StepType == TypeInv /\ [Next]_vars => TypeInv'
<1> SUFFICES ASSUME TypeInv, [Next]_vars PROVE TypeInv'
  OBVIOUS
<1> USE HashTypes, LimitsAssumption
<1>1. ASSUME NEW h \in Handlers, HandlerLogs(h)
      PROVE TypeInv'
  <2>1. CASE ChannelClosed
    BY <1>1, <2>1, NextEntry DEF HandlerLogs, TypeInv, TypeOK, HandOK
  <2>2. CASE ~ChannelClosed
    <3>1. Log /\ submitted < MaxEntries
      BY <1>1, <2>2 DEF HandlerLogs
    <3>2. UNCHANGED <<table, consumer, serving, phase, blind>>
      BY <1>1, <2>2 DEF HandlerLogs
    <3> QED
      BY <3>1, <3>2, LogType DEF TypeInv, TypeOK, HandOK
  <2> QED
    BY <2>1, <2>2
<1>2. CASE CheckerLogs
  <2>1. CASE ChannelClosed
    <3>1. InMemory \subseteq Entries
      BY SeqFacts DEF InMemory, Elements, TypeInv, TypeOK, Consumer
    <3>2. /\ submitted' = submitted + 1 /\ Die
          /\ lost' = lost \cup {submitted + 1} \cup InMemory
          /\ UNCHANGED <<table, blind, accepted>> /\ submitted < MaxEntries
      BY <1>2, <2>1 DEF CheckerLogs
    <3> QED
      BY <3>1, <3>2, NextEntry, EmptyFacts DEF Die, TypeInv, TypeOK, HandOK, Phases
  <2>2. CASE ~ChannelClosed
    <3>1. Log /\ submitted < MaxEntries
      BY <1>2, <2>2 DEF CheckerLogs
    <3>2. UNCHANGED <<table, consumer, serving, phase, blind>>
      BY <1>2, <2>2 DEF CheckerLogs
    <3> QED
      BY <3>1, <3>2, LogType DEF TypeInv, TypeOK, HandOK
  <2> QED
    BY <2>1, <2>2
<1>3. CASE Receive
  <2>1. Head(queue) \in Entries /\ Tail(queue) \in Seq(Entries)
        /\ Len(Tail(queue)) <= Capacity
    BY <1>3, TailFacts, SeqFacts DEF Receive, TypeInv, TypeOK
  <2>2. consumer' \in Consumer /\ HandOK'
    BY <1>3, <2>1 DEF Receive, Consumer, HandOK, Entries, NoEntry
  <2> QED
    BY <1>3, <2>1, <2>2 DEF Receive, TypeInv, TypeOK, ghosts
<1>4. CASE GetLastHash
  <2>1. LastHash \in Seq(Nat)
    <3>1. CASE table # <<>>
      <4>1. table[Len(table)] \in AuditLog
        BY <3>1, SeqFacts DEF TypeInv, TypeOK
      <4> QED
        BY <3>1, <4>1 DEF LastHash, AuditLog
    <3> QED
      BY <3>1 DEF LastHash
  <2>2. consumer' \in Consumer /\ HandOK'
    BY <1>4, <2>1 DEF GetLastHash, TypeInv, TypeOK, HandOK, Consumer
  <2> QED
    BY <1>4, <2>2 DEF GetLastHash, TypeInv, TypeOK, ghosts
<1>5. CASE GetLastHashFails
  BY <1>5 DEF GetLastHashFails, TypeInv, TypeOK, HandOK, Consumer, ghosts
<1>6. CASE Create
  <2> DEFINE row == BuildAuditLog(consumer.entry, consumer.prev)
  <2>1. consumer.entry \in Entries /\ consumer.prev \in Seq(Nat)
    BY <1>6 DEF Create, TypeInv, TypeOK, HandOK, Consumer
  <2>2. Append(consumer.prev, consumer.entry) \in Seq(Nat)
    BY <2>1, AppendFacts DEF Entries
  <2>3. row \in AuditLog
    BY <2>1, <2>2 DEF BuildAuditLog, Hash, AuditLog
  <2> HIDE DEF row
  <2>4. table' = Append(table, row)
    BY <1>6 DEF Create, row
  <2>a. table \in Seq(AuditLog)
    BY DEF TypeInv, TypeOK
  <2>b. /\ table' \in Seq(AuditLog) /\ DOMAIN table' = 1 .. Len(table) + 1
        /\ DOMAIN table = 1 .. Len(table) /\ Len(table) \in Nat
    BY <2>3, <2>4, <2>a, AppendFacts, SeqFacts
  <2>5. table' \in Seq(AuditLog) /\ DOMAIN table' = DOMAIN table \cup {Len(table) + 1}
    BY <2>b
  <2> QED
    BY <1>6, <2>5 DEF Create, TypeInv, TypeOK, HandOK
<1>7. CASE CreateFails
  BY <1>7 DEF CreateFails, TypeInv, TypeOK, HandOK, Consumer
<1>8. CASE LoopEnds
  BY <1>8 DEF LoopEnds, TypeInv, TypeOK, HandOK, ghosts
<1>9. ASSUME NEW h \in Handlers, RequestArrives(h) \/ RequestEnds(h)
      PROVE TypeInv'
  BY <1>9 DEF RequestArrives, RequestEnds, TypeInv, TypeOK, HandOK, ghosts
<1>10. CASE Signal \/ ServerStopped
  BY <1>10 DEF Signal, ServerStopped, Goto, TypeInv, TypeOK, HandOK, Phases, ghosts
<1>11. CASE Drained
  BY <1>11 DEF Drained, Exit, TypeInv, TypeOK, HandOK, Phases, ghosts
<1>12. CASE Killed
  <2>1. InMemory \subseteq Entries
    BY SeqFacts DEF InMemory, Elements, TypeInv, TypeOK, Consumer
  <2> QED
    BY <1>12, <2>1, EmptyFacts DEF Killed, Die, TypeInv, TypeOK, HandOK, Phases
<1>13. CASE Restart
  BY <1>13, EmptyFacts DEF Restart, TypeInv, TypeOK, HandOK, Phases, ghosts
<1>14. CASE UNCHANGED vars
  BY <1>14 DEF TypeInv, TypeOK, HandOK, vars, ghosts
<1> QED
  BY <1>1, <1>2, <1>3, <1>4, <1>5, <1>6, <1>7, <1>8, <1>9, <1>10, <1>11, <1>12, <1>13,
     <1>14 DEF Next, ConsumeLoop

\* The channel never holds more than its capacity, and every row, hash and entry
\* has its type.
THEOREM TypeCorrect == Spec => []TypeOK
<1>1. TypeInv => TypeOK
  BY DEF TypeInv
<1> QED
  BY <1>1, InitType, StepType, PTL DEF Spec

-----------------------------------------------------------------------------
(* Shutdown *)

\* The loop returns from an empty channel only, nobody refills a closed one, and
\* main waits for the loop.
PhaseInv ==
    /\ consumer.step = "closed" => queue = <<>> /\ phase \in {"draining", "exited", "dead"}
    /\ phase \in {"exited", "dead"} => consumer.step = "closed" /\ serving = {}

LEMMA InitPhase == Init => PhaseInv
BY HashTypes DEF Init, PhaseInv

LEMMA StepPhase == TypeInv /\ PhaseInv /\ [Next]_vars => PhaseInv'
<1> SUFFICES ASSUME TypeInv, PhaseInv, [Next]_vars PROVE PhaseInv'
  OBVIOUS
<1> USE HashTypes
<1>1. ASSUME NEW h \in Handlers, HandlerLogs(h)
      PROVE PhaseInv'
  BY <1>1 DEF HandlerLogs, Log, ChannelClosed, PhaseInv, TypeInv, TypeOK, Phases
<1>2. CASE CheckerLogs
  BY <1>2 DEF CheckerLogs, Log, Die, Alive, ChannelClosed, PhaseInv, TypeInv, TypeOK, Phases
<1>3. CASE Receive
  BY <1>3 DEF Receive, PhaseInv
<1>4. CASE GetLastHash \/ GetLastHashFails
  BY <1>4 DEF GetLastHash, GetLastHashFails, PhaseInv, TypeInv, TypeOK, Consumer
<1>5. CASE Create \/ CreateFails
  BY <1>5 DEF Create, CreateFails, PhaseInv
<1>6. CASE LoopEnds
  BY <1>6 DEF LoopEnds, ChannelClosed, PhaseInv
<1>7. ASSUME NEW h \in Handlers, RequestArrives(h) \/ RequestEnds(h)
      PROVE PhaseInv'
  BY <1>7 DEF RequestArrives, RequestEnds, PhaseInv
<1>8. CASE Signal \/ ServerStopped
  BY <1>8 DEF Signal, ServerStopped, Goto, PhaseInv
<1>9. CASE Drained
  BY <1>9 DEF Drained, Exit, PhaseInv
<1>10. CASE Killed
  BY <1>10 DEF Killed, Die, PhaseInv
<1>11. CASE Restart
  BY <1>11 DEF Restart, PhaseInv
<1>12. CASE UNCHANGED vars
  BY <1>12 DEF PhaseInv, vars
<1> QED
  BY <1>1, <1>2, <1>3, <1>4, <1>5, <1>6, <1>7, <1>8, <1>9, <1>10, <1>11, <1>12
  DEF Next, ConsumeLoop

\* When main returns, Shutdown has waited until neither the channel nor the consumer
\* holds an entry, whichever handlers and however many entries were under way.
THEOREM DrainedCorrect == Spec => []DrainedAtExit
<1>1. TypeInv /\ PhaseInv => DrainedAtExit
  <2> SUFFICES ASSUME TypeInv, PhaseInv, phase = "exited" PROVE Pending = <<>>
    BY DEF DrainedAtExit
  <2>1. queue = <<>> /\ consumer.entry = NoEntry
    BY DEF PhaseInv, TypeInv, HandOK
  <2> QED
    BY <2>1 DEF Pending
<1> QED
  BY <1>1, InitType, StepType, InitPhase, StepPhase, PTL DEF Spec

-----------------------------------------------------------------------------
(* The hash chain *)

\* Between the two statements of the consumer nobody else inserts, so the hash it
\* read is still the last one; no hash is the empty string.
ChainInv ==
    /\ BreaksAreBlindRows
    /\ \A i \in DOMAIN table : table[i].hash # NoHash
    /\ consumer.step = "insert" => consumer.prev \in {NoHash, LastHash}

LEMMA InitChain == Init => ChainInv
BY HashTypes, EmptyFacts DEF Init, ChainInv, BreaksAreBlindRows

\* Steps that leave the table alone keep the chain.
LEMMA FrameChain ==
  ASSUME ChainInv, UNCHANGED <<table, blind>>,
         consumer' = consumer \/ consumer'.step # "insert"
  PROVE  ChainInv'
BY DEF ChainInv, BreaksAreBlindRows, LastHash

LEMMA StepChain == TypeInv /\ ChainInv /\ [Next]_vars => ChainInv'
<1> SUFFICES ASSUME TypeInv, ChainInv, [Next]_vars PROVE ChainInv'
  OBVIOUS
<1> USE HashTypes
<1>1. ASSUME NEW h \in Handlers,
             HandlerLogs(h) \/ RequestArrives(h) \/ RequestEnds(h)
      PROVE ChainInv'
  BY <1>1, FrameChain DEF HandlerLogs, RequestArrives, RequestEnds, ghosts
<1>2. CASE CheckerLogs
  BY <1>2, FrameChain DEF CheckerLogs, Die
<1>3. CASE Receive
  BY <1>3, FrameChain DEF Receive, ghosts
<1>4. CASE GetLastHash
  <2>1. consumer'.prev = LastHash /\ UNCHANGED <<table, blind>>
    BY <1>4 DEF GetLastHash, TypeInv, TypeOK, Consumer, ghosts
  <2> QED
    BY <2>1 DEF ChainInv, BreaksAreBlindRows, LastHash
<1>5. CASE GetLastHashFails
  <2>1. consumer'.prev = NoHash /\ UNCHANGED <<table, blind>>
    BY <1>5 DEF GetLastHashFails, TypeInv, TypeOK, Consumer, ghosts
  <2> QED
    BY <2>1 DEF ChainInv, BreaksAreBlindRows, LastHash
<1>6. CASE Create
  <2> DEFINE row == BuildAuditLog(consumer.entry, consumer.prev)
             n == Len(table) + 1
  <2>1. table \in Seq(AuditLog) /\ blind \subseteq DOMAIN table
    BY DEF TypeInv, TypeOK
  <2>2. consumer.entry \in Entries /\ consumer.prev \in Seq(Nat)
    BY <1>6 DEF Create, TypeInv, TypeOK, HandOK, Consumer
  <2> DEFINE h == Append(consumer.prev, consumer.entry)
  <2>3. h \in Seq(Nat) /\ h # NoHash
    <3>1. h \in Seq(Nat) /\ Len(h) # 0
      BY <2>2, AppendFacts, SeqFacts DEF Entries
    <3> HIDE DEF h
    <3> QED
      BY <3>1, EmptyFacts DEF NoHash
  <2>a. row = [entry |-> consumer.entry, prev |-> consumer.prev, hash |-> h]
    BY DEF BuildAuditLog, Hash
  <2> HIDE DEF h
  <2>4. row.hash # NoHash /\ row.prev = consumer.prev /\ row \in AuditLog
    <3> HIDE DEF row
    <3> QED
      BY <2>2, <2>3, <2>a DEF AuditLog
  <2>5. /\ table' = Append(table, row)
        /\ blind' = IF consumer.prev = NoHash THEN blind \cup {n} ELSE blind
        /\ consumer'.step = "receive"
        /\ consumer.prev \in {NoHash, LastHash}
    BY <1>6 DEF Create, ChainInv
  <2> HIDE DEF row
  <2>6. /\ DOMAIN table = 1 .. Len(table) /\ DOMAIN table' = 1 .. n
        /\ \A i \in 1 .. Len(table) : table'[i] = table[i]
        /\ table'[n] = row /\ Len(table) \in Nat
    BY <2>1, <2>4, <2>5, AppendFacts, SeqFacts
  <2>7. LastHash = IF n = 1 THEN Genesis ELSE table'[n - 1].hash
    <3>1. CASE table = <<>>
      BY <3>1, EmptyFacts DEF LastHash
    <3>2. CASE table # <<>>
      <4>1. Len(table) # 0
        BY <2>1, <3>2
      <4> QED
        BY <2>6, <3>2, <4>1 DEF LastHash
    <3> QED
      BY <3>1, <3>2
  <2>8. LastHash # NoHash
    <3>1. CASE n = 1
      BY <2>7, <3>1
    <3>2. CASE n # 1
      BY <2>6, <2>7, <3>2 DEF ChainInv
    <3> QED
      BY <3>1, <3>2
  <2>9. ASSUME NEW i \in 1 .. Len(table)
        PROVE /\ table'[i].prev # (IF i = 1 THEN Genesis ELSE table'[i - 1].hash)
                    <=> i \in blind'
              /\ table'[i].hash # NoHash
    <3>1. i # n /\ (i = 1 \/ i - 1 \in 1 .. Len(table))
      BY <2>6
    <3>2. table'[i] = table[i] /\ (i # 1 => table'[i - 1] = table[i - 1])
      BY <2>6, <3>1
    <3>3. i \in blind' <=> i \in blind
      BY <2>5, <3>1
    <3> QED
      BY <2>6, <3>2, <3>3 DEF ChainInv, BreaksAreBlindRows
  <2>10. n \notin blind
    BY <2>1, <2>6
  <2>11. /\ table'[n].prev # (IF n = 1 THEN Genesis ELSE table'[n - 1].hash)
               <=> n \in blind'
         /\ table'[n].hash # NoHash
    BY <2>4, <2>5, <2>6, <2>7, <2>8, <2>10
  <2>12. ASSUME NEW i \in DOMAIN table' PROVE i = n \/ i \in 1 .. Len(table)
    BY <2>6
  <2> QED
    BY <2>5, <2>9, <2>11, <2>12 DEF ChainInv, BreaksAreBlindRows
<1>7. CASE CreateFails
  BY <1>7, FrameChain DEF CreateFails
<1>8. CASE LoopEnds
  BY <1>8, FrameChain DEF LoopEnds, ghosts
<1>9. CASE Signal \/ ServerStopped \/ Drained
  BY <1>9, FrameChain DEF Signal, ServerStopped, Drained, Goto, Exit, ghosts
<1>10. CASE Killed
  BY <1>10, FrameChain DEF Killed, Die
<1>11. CASE Restart
  BY <1>11, FrameChain DEF Restart, ghosts
<1>12. CASE UNCHANGED vars
  BY <1>12, FrameChain DEF vars, ghosts
<1> QED
  BY <1>1, <1>2, <1>3, <1>4, <1>5, <1>6, <1>7, <1>8, <1>9, <1>10, <1>11, <1>12
  DEF Next, ConsumeLoop

\* A row whose prev_hash is not the hash of the row before it is a row built while
\* the last hash could not be read, and every such row breaks the chain: dropped
\* entries, failed inserts, shutdowns and restarts leave it whole.
THEOREM ChainCorrect == Spec => []BreaksAreBlindRows
<1>1. ChainInv => BreaksAreBlindRows
  BY DEF ChainInv
<1> QED
  BY <1>1, InitType, StepType, InitChain, StepChain, PTL DEF Spec

-----------------------------------------------------------------------------
(* Order *)

\* StoredInOrder place by place, with the last number given out above all.
OrderInv ==
    /\ \A i, j \in DOMAIN table : i < j => table[i].entry < table[j].entry
    /\ \A i, j \in DOMAIN queue : i < j => queue[i] < queue[j]
    /\ \A i \in DOMAIN table :
          /\ table[i].entry <= submitted
          /\ consumer.entry # NoEntry => table[i].entry < consumer.entry
          /\ \A j \in DOMAIN queue : table[i].entry < queue[j]
    /\ \A j \in DOMAIN queue : consumer.entry < queue[j] /\ queue[j] <= submitted
    /\ consumer.entry <= submitted

LEMMA InitOrder == Init => OrderInv
BY HashTypes, EmptyFacts DEF Init, OrderInv, NoEntry

LEMMA RowTypes ==
  ASSUME TypeOK
  PROVE  /\ submitted \in Nat /\ consumer.entry \in Nat
         /\ \A i \in DOMAIN table : table[i].entry \in Nat /\ table[i].entry # NoEntry
         /\ \A j \in DOMAIN queue : queue[j] \in Nat /\ queue[j] # NoEntry
<1>1. submitted \in Nat /\ consumer.entry \in Nat
  BY LimitsAssumption DEF TypeOK, Consumer, Entries, NoEntry
<1>2. ASSUME NEW i \in DOMAIN table PROVE table[i].entry \in Entries
  <2>1. table[i] \in AuditLog
    BY SeqFacts DEF TypeOK
  <2> QED
    BY <2>1 DEF AuditLog
<1>3. ASSUME NEW j \in DOMAIN queue PROVE queue[j] \in Entries
  BY <1>3, SeqFacts DEF TypeOK
<1> QED
  BY <1>1, <1>2, <1>3 DEF Entries, NoEntry

\* The new entry goes behind all others, or nowhere.
LEMMA LogOrder ==
  ASSUME TypeOK, OrderInv, submitted < MaxEntries, Log, UNCHANGED <<table, consumer>>
  PROVE  OrderInv'
<1> DEFINE e == submitted + 1
<1>1. submitted' = e /\ e \in Entries /\ submitted \in Nat
  BY NextEntry, RowTypes DEF Log
<1>2. CASE queue' = queue
  BY <1>1, <1>2, RowTypes DEF OrderInv
<1>3. CASE queue' = Append(queue, e)
  <2>1. queue \in Seq(Entries)
    BY DEF TypeOK
  <2> HIDE DEF e
  <2>2. /\ DOMAIN queue = 1 .. Len(queue) /\ Len(queue) \in Nat
        /\ DOMAIN queue' = 1 .. Len(queue) + 1
        /\ \A j \in 1 .. Len(queue) : queue'[j] = queue[j]
        /\ queue'[Len(queue) + 1] = e
    BY <1>1, <1>3, <2>1, AppendFacts, SeqFacts
  <2> USE DEF e
  <2>3. \A j \in DOMAIN queue' : j \in DOMAIN queue \/ j = Len(queue) + 1
    BY <2>2
  <2>4. \A j \in DOMAIN queue : queue[j] \in Nat /\ queue[j] <= submitted
    BY RowTypes DEF OrderInv
  <2>5. \A i, j \in DOMAIN queue' : i < j => queue'[i] < queue'[j]
    BY <1>1, <2>2, <2>3, <2>4 DEF OrderInv
  <2>6. \A j \in DOMAIN queue' : consumer.entry < queue'[j] /\ queue'[j] <= submitted'
    BY <1>1, <2>2, <2>3, <2>4, RowTypes DEF OrderInv
  <2>7. \A i \in DOMAIN table : \A j \in DOMAIN queue' : table[i].entry < queue'[j]
    BY <1>1, <2>2, <2>3, RowTypes DEF OrderInv
  <2> QED
    BY <1>1, <2>5, <2>6, <2>7, RowTypes DEF OrderInv
<1> QED
  BY <1>2, <1>3 DEF Log

\* Steps that take nothing up but may let go of what is in memory.
LEMMA FrameOrder ==
  ASSUME TypeOK, OrderInv, table' = table, queue' \in {queue, <<>>},
         consumer'.entry \in {consumer.entry, NoEntry},
         submitted' \in Nat, submitted <= submitted'
  PROVE  OrderInv'
<1>1. \A j \in DOMAIN queue' : j \in DOMAIN queue /\ queue'[j] = queue[j]
  BY EmptyFacts
<1>2. \A j \in DOMAIN queue : NoEntry < queue[j]
  BY RowTypes DEF NoEntry
<1> QED
  BY <1>1, <1>2, RowTypes DEF OrderInv, NoEntry

LEMMA StepOrder == TypeInv /\ OrderInv /\ [Next]_vars => OrderInv'
<1> SUFFICES ASSUME TypeInv, OrderInv, [Next]_vars PROVE OrderInv'
  OBVIOUS
<1>0. TypeOK /\ submitted \in Nat
  BY RowTypes DEF TypeInv
<1> USE HashTypes
<1>1. ASSUME NEW h \in Handlers, HandlerLogs(h)
      PROVE OrderInv'
  <2>1. CASE ChannelClosed
    BY <1>0, <1>1, <2>1, FrameOrder DEF HandlerLogs
  <2>2. CASE ~ChannelClosed
    BY <1>0, <1>1, <2>2, LogOrder DEF HandlerLogs
  <2> QED
    BY <2>1, <2>2
<1>2. CASE CheckerLogs
  <2>1. CASE ChannelClosed
    BY <1>0, <1>2, <2>1, FrameOrder DEF CheckerLogs, Die
  <2>2. CASE ~ChannelClosed
    BY <1>0, <1>2, <2>2, LogOrder DEF CheckerLogs
  <2> QED
    BY <2>1, <2>2
<1>3. CASE Receive
  <2>1. /\ queue \in Seq(Entries) /\ queue # <<>> /\ queue' = Tail(queue)
        /\ consumer'.entry = Head(queue) /\ UNCHANGED <<table, submitted>>
    BY <1>0, <1>3 DEF Receive, TypeOK
  <2>2. /\ DOMAIN queue = 1 .. Len(queue) /\ Len(queue) \in Nat
        /\ DOMAIN queue' = 1 .. Len(queue) - 1 /\ Head(queue) = queue[1]
        /\ \A j \in 1 .. Len(queue) - 1 : queue'[j] = queue[j + 1]
        /\ Len(queue) # 0
    BY <2>1, TailFacts, SeqFacts
  <2>3. 1 \in DOMAIN queue /\ consumer'.entry = queue[1]
    BY <2>1, <2>2
  <2>4. \A j \in DOMAIN queue' : j + 1 \in DOMAIN queue /\ 1 < j + 1 /\ queue'[j] = queue[j + 1]
    BY <2>2
  <2>5. \A i, j \in DOMAIN queue' : i < j => queue'[i] < queue'[j]
    BY <2>2, <2>4 DEF OrderInv
  <2> QED
    BY <2>1, <2>3, <2>4, <2>5 DEF OrderInv
<1>4. CASE GetLastHash \/ GetLastHashFails
  <2>1. consumer'.entry = consumer.entry /\ UNCHANGED <<table, queue, submitted>>
    BY <1>0, <1>4 DEF GetLastHash, GetLastHashFails, TypeOK, Consumer
  <2> QED
    BY <1>0, <2>1, FrameOrder
<1>5. CASE Create
  <2> DEFINE row == BuildAuditLog(consumer.entry, consumer.prev)
             n == Len(table) + 1
  <2>1. consumer.entry # NoEntry
    BY <1>5 DEF Create, TypeInv, HandOK
  <2>2. table \in Seq(AuditLog) /\ row.entry = consumer.entry
    BY <1>0 DEF TypeOK, BuildAuditLog
  <2>3. /\ table' = Append(table, row) /\ consumer'.entry = NoEntry
        /\ UNCHANGED <<queue, submitted>>
    BY <1>5 DEF Create
  <2>a. table' \in Seq(AuditLog)
    BY <1>5, StepType DEF TypeInv, TypeOK
  <2> HIDE DEF row
  <2>4. /\ DOMAIN table = 1 .. Len(table) /\ DOMAIN table' = 1 .. n
        /\ \A i \in 1 .. Len(table) : table'[i] = table[i]
        /\ table'[n] = row /\ Len(table) \in Nat
    BY <2>2, <2>3, SeqFacts
  <2>b. \A i \in 1 .. n : i = n \/ (i \in 1 .. Len(table) /\ i < n)
    <3>1. Len(table) \in Nat
      BY <2>4
    <3> QED
      BY <3>1
  <2>c. row.entry = consumer.entry
    BY <2>2
  <2> HIDE DEF n
  <2>5. \A i \in DOMAIN table' :
           \/ i \in DOMAIN table /\ table'[i].entry = table[i].entry /\ i < n
           \/ i = n /\ table'[i].entry = consumer.entry
    BY <2>4, <2>b, <2>c
  <2> USE DEF n
  <2>6. \A j \in DOMAIN queue : NoEntry < queue[j]
    BY <1>0, RowTypes DEF NoEntry
  <2>7. ASSUME NEW i \in DOMAIN table', NEW j \in DOMAIN table', i < j
        PROVE  table'[i].entry < table'[j].entry
    <3>1. i \in DOMAIN table /\ table'[i].entry = table[i].entry
      BY <2>4, <2>5, <2>7
    <3>2. CASE j \in DOMAIN table /\ table'[j].entry = table[j].entry
      BY <2>7, <3>1, <3>2 DEF OrderInv
    <3>3. CASE table'[j].entry = consumer.entry
      BY <2>1, <3>1, <3>3 DEF OrderInv
    <3> QED
      BY <2>5, <3>2, <3>3
  <2>8. \A i \in DOMAIN table' :
           /\ table'[i].entry <= submitted
           /\ \A j \in DOMAIN queue : table'[i].entry < queue[j]
    BY <2>1, <2>5 DEF OrderInv
  <2> QED
    BY <1>0, <2>3, <2>6, <2>7, <2>8 DEF OrderInv, NoEntry
<1>6. CASE CreateFails \/ LoopEnds
  BY <1>0, <1>6, FrameOrder DEF CreateFails, LoopEnds
<1>7. ASSUME NEW h \in Handlers, RequestArrives(h) \/ RequestEnds(h)
      PROVE OrderInv'
  BY <1>0, <1>7, FrameOrder DEF RequestArrives, RequestEnds
<1>8. CASE Signal \/ ServerStopped \/ Drained
  BY <1>0, <1>8, FrameOrder DEF Signal, ServerStopped, Drained, Goto, Exit
<1>9. CASE Killed
  BY <1>0, <1>9, FrameOrder DEF Killed, Die
<1>10. CASE Restart
  BY <1>0, <1>10, FrameOrder DEF Restart
<1>11. CASE UNCHANGED vars
  BY <1>0, <1>11, FrameOrder DEF vars
<1> QED
  BY <1>1, <1>2, <1>3, <1>4, <1>5, <1>6, <1>7, <1>8, <1>9, <1>10, <1>11
  DEF Next, ConsumeLoop

\* One sequence after another is increasing if each is and all of the first is
\* below all of the second.
LEMMA IncreasingConcat ==
  ASSUME NEW s \in Seq(Nat), NEW t \in Seq(Nat), Increasing(s), Increasing(t),
         \A i \in DOMAIN s, j \in DOMAIN t : s[i] < t[j]
  PROVE  s \o t \in Seq(Nat) /\ Increasing(s \o t)
<1> DEFINE u == s \o t
<1>1. /\ Len(s) \in Nat /\ Len(t) \in Nat /\ u \in Seq(Nat)
      /\ DOMAIN s = 1 .. Len(s) /\ DOMAIN t = 1 .. Len(t)
      /\ Len(u) = Len(s) + Len(t) /\ DOMAIN u = 1 .. Len(s) + Len(t)
      /\ \A i \in 1 .. Len(s) : u[i] = s[i]
      /\ \A i \in 1 .. Len(t) : u[Len(s) + i] = t[i]
  OBVIOUS
<1>2. \A i \in DOMAIN u :
         \/ i \in DOMAIN s /\ u[i] = s[i]
         \/ /\ i > Len(s) /\ i - Len(s) \in DOMAIN t
            /\ u[i] = t[i - Len(s)]
  <2>1. ASSUME NEW i \in 1 .. Len(s) + Len(t), i > Len(s)
        PROVE i - Len(s) \in 1 .. Len(t) /\ i = Len(s) + (i - Len(s))
    BY <1>1, <2>1
  <2> HIDE DEF u
  <2>2. ASSUME NEW i \in DOMAIN u, ~(i > Len(s)) PROVE i \in DOMAIN s
    BY <1>1, <2>2
  <2> QED
    BY <1>1, <2>1, <2>2
<1> HIDE DEF u
<1>3. ASSUME NEW i \in DOMAIN u, NEW j \in DOMAIN u, i < j
      PROVE u[i] < u[j]
  <2>1. CASE i \in DOMAIN s /\ u[i] = s[i] /\ j \in DOMAIN s /\ u[j] = s[j]
    BY <1>3, <2>1 DEF Increasing
  <2>2. CASE i \in DOMAIN s /\ u[i] = s[i] /\ j > Len(s) /\ j - Len(s) \in DOMAIN t
             /\ u[j] = t[j - Len(s)]
    BY <2>2
  <2>3. CASE /\ i > Len(s) /\ i - Len(s) \in DOMAIN t /\ u[i] = t[i - Len(s)]
             /\ j > Len(s) /\ j - Len(s) \in DOMAIN t /\ u[j] = t[j - Len(s)]
    <3>1. i - Len(s) < j - Len(s)
      BY <1>1, <1>3
    <3> QED
      BY <2>3, <3>1 DEF Increasing
  <2>4. CASE i > Len(s) /\ j \in DOMAIN s
    BY <1>1, <1>3, <2>4
  <2> QED
    BY <1>2, <2>1, <2>2, <2>3, <2>4
<1> QED
  BY <1>1, <1>3 DEF u, Increasing

\* The table holds the entries in the order of the calls of Log, each at most once,
\* and the entries still in memory come after all of them.
THEOREM OrderCorrect == Spec => []StoredInOrder
<1>1. TypeInv /\ OrderInv => StoredInOrder
  <2> SUFFICES ASSUME TypeOK, OrderInv PROVE Increasing(Rows \o Pending)
    BY DEF TypeInv, StoredInOrder
  <2> DEFINE hand == IF consumer.entry = NoEntry THEN <<>> ELSE <<consumer.entry>>
  <2>1. /\ queue \in Seq(Nat) /\ Increasing(queue)
    <3>1. queue \in Seq(Nat)
      <4>1. Entries \subseteq Nat /\ queue \in Seq(Entries)
        BY DEF TypeOK, Entries
      <4> QED
        BY <4>1, WiderSeq
    <3> QED
      BY <3>1 DEF OrderInv, Increasing
  <2>2. /\ hand \in Seq(Nat) /\ Increasing(hand)
        /\ \A i \in DOMAIN hand : hand[i] = consumer.entry /\ consumer.entry # NoEntry
    <3>1. CASE consumer.entry = NoEntry
      BY <3>1, EmptyFacts DEF Increasing
    <3>2. CASE consumer.entry # NoEntry
      <4>1. hand = <<consumer.entry>> /\ consumer.entry \in Nat
        BY <3>2, RowTypes
      <4>2. hand \in Seq(Nat) /\ DOMAIN hand = {1} /\ hand[1] = consumer.entry
        BY <4>1
      <4> QED
        BY <3>2, <4>2 DEF Increasing
    <3> QED
      BY <3>1, <3>2
  <2> HIDE DEF hand
  <2>3. /\ \A i \in DOMAIN hand, j \in DOMAIN queue : hand[i] < queue[j]
    BY <2>2 DEF OrderInv
  <2>4. Pending \in Seq(Nat) /\ Increasing(Pending) /\ Pending = hand \o queue
    BY <2>1, <2>2, <2>3, IncreasingConcat DEF Pending, hand
  <2>5. \A j \in DOMAIN Pending :
           \/ Pending[j] = consumer.entry /\ consumer.entry # NoEntry
           \/ \E k \in DOMAIN queue : Pending[j] = queue[k]
    <3>1. /\ Len(hand) \in Nat /\ Len(queue) \in Nat
          /\ DOMAIN hand = 1 .. Len(hand) /\ DOMAIN queue = 1 .. Len(queue)
          /\ DOMAIN Pending = 1 .. Len(hand) + Len(queue)
          /\ \A i \in 1 .. Len(hand) : Pending[i] = hand[i]
          /\ \A i \in 1 .. Len(queue) : Pending[Len(hand) + i] = queue[i]
      BY <2>1, <2>2, <2>4
    <3>2. ASSUME NEW j \in DOMAIN Pending, ~(j <= Len(hand))
          PROVE j - Len(hand) \in 1 .. Len(queue) /\ j = Len(hand) + (j - Len(hand))
      BY <3>1, <3>2
    <3>3. ASSUME NEW j \in DOMAIN Pending, j <= Len(hand) PROVE j \in 1 .. Len(hand)
      BY <3>1, <3>3
    <3> QED
      BY <2>2, <3>1, <3>2, <3>3
  <2>6. Rows \in Seq(Nat) /\ DOMAIN Rows = DOMAIN table
        /\ \A i \in DOMAIN table : Rows[i] = table[i].entry
    <3>1. DOMAIN table = 1 .. Len(table) /\ Len(table) \in Nat
      BY SeqFacts DEF TypeOK
    <3> QED
      BY <3>1, RowTypes DEF Rows
  <2>7. Increasing(Rows)
    BY <2>6 DEF OrderInv, Increasing
  <2>8. \A i \in DOMAIN Rows, j \in DOMAIN Pending : Rows[i] < Pending[j]
    BY <2>5, <2>6 DEF OrderInv
  <2> QED
    BY <2>4, <2>6, <2>7, <2>8, IncreasingConcat
<1> QED
  BY <1>1, InitType, StepType, InitOrder, StepOrder, PTL DEF Spec

-----------------------------------------------------------------------------
(* What becomes of an entry *)

InTable(e) == \E i \in DOMAIN table : table[i].entry = e
InQueue(e) == \E j \in DOMAIN queue : queue[j] = e
InHand(e) == consumer.entry = e /\ e # NoEntry
OnItsWay(e) == InQueue(e) \/ InHand(e)

\* AcceptedAccounted by places.  An entry is lost only after it got its number, so
\* that a new one is not lost already.
AccountInv ==
    /\ \A e \in accepted : InTable(e) \/ OnItsWay(e) \/ e \in lost
    /\ \A e \in lost : ~InTable(e) /\ ~OnItsWay(e) /\ e <= submitted

LEMMA InitAccount == Init => AccountInv
BY DEF Init, AccountInv

\* Nothing moves.
LEMMA FrameAccount ==
  ASSUME AccountInv, consumer'.entry = consumer.entry,
         UNCHANGED <<table, queue, submitted, lost, accepted>>
  PROVE  AccountInv'
BY DEF AccountInv, InTable, InQueue, InHand, OnItsWay

\* The new entry is in nobody's hands yet: Log puts it into the queue or gives it up.
LEMMA NewEntry ==
  ASSUME TypeOK, OrderInv
  PROVE  LET e == submitted + 1
         IN  ~InTable(e) /\ ~OnItsWay(e) /\ \A d \in lost : d <= submitted => d # e
<1>1. submitted \in Nat /\ consumer.entry \in Nat
  BY RowTypes
<1>2. \A i \in DOMAIN table : table[i].entry \in Nat /\ table[i].entry <= submitted
  BY RowTypes DEF OrderInv
<1>3. \A j \in DOMAIN queue : queue[j] \in Nat /\ queue[j] <= submitted
  BY RowTypes DEF OrderInv
<1>4. consumer.entry <= submitted
  BY DEF OrderInv
<1> QED
  BY <1>1, <1>2, <1>3, <1>4 DEF InTable, InQueue, InHand, OnItsWay

LEMMA LogAccount ==
  ASSUME TypeOK, OrderInv, AccountInv, submitted < MaxEntries, Log,
         UNCHANGED <<table, consumer>>
  PROVE  AccountInv'
<1> DEFINE e == submitted + 1
<1>1. /\ submitted' = e /\ e \in Entries /\ submitted \in Nat
      /\ ~InTable(e) /\ ~OnItsWay(e)
      /\ \A d \in lost : d \in Nat /\ d <= submitted
  BY NextEntry, NewEntry, RowTypes DEF Log, TypeOK, Entries, AccountInv
<1>2. \A d : (InTable(d)' <=> InTable(d)) /\ (InHand(d)' <=> InHand(d))
  BY DEF InTable, InHand
<1>3. CASE HasRoom
  <2>1. queue' = Append(queue, e) /\ accepted' = accepted \cup {e} /\ lost' = lost
    BY <1>3 DEF Log
  <2> HIDE DEF e
  <2>2. /\ DOMAIN queue = 1 .. Len(queue) /\ Len(queue) \in Nat
        /\ DOMAIN queue' = 1 .. Len(queue) + 1
        /\ \A j \in 1 .. Len(queue) : queue'[j] = queue[j]
        /\ queue'[Len(queue) + 1] = e
    BY <1>1, <2>1, AppendFacts, SeqFacts DEF TypeOK
  <2>3. \A d : InQueue(d)' <=> InQueue(d) \/ d = e
    <3>1. \A j \in DOMAIN queue' : j \in DOMAIN queue \/ j = Len(queue) + 1
      BY <2>2
    <3>2. DOMAIN queue \subseteq DOMAIN queue' /\ Len(queue) + 1 \in DOMAIN queue'
      BY <2>2
    <3> QED
      BY <2>2, <3>1, <3>2 DEF InQueue
  <2>4. \A d \in lost : d # e /\ d <= submitted'
    BY <1>1 DEF e
  <2> QED
    BY <1>1, <1>2, <2>1, <2>3, <2>4 DEF AccountInv, OnItsWay
<1>4. CASE ~HasRoom
  <2>1. UNCHANGED <<queue, accepted>> /\ lost' = lost \cup {e}
    BY <1>4 DEF Log
  <2>2. \A d : InQueue(d)' <=> InQueue(d)
    BY <2>1 DEF InQueue
  <2>3. \A d \in lost' : d <= submitted'
    BY <1>1, <2>1
  <2> QED
    BY <1>1, <1>2, <2>1, <2>2, <2>3 DEF AccountInv, OnItsWay
<1> QED
  BY <1>3, <1>4

\* The process dies: what it held is lost, and none of that was in the table.
LEMMA DieAccount ==
  ASSUME TypeOK, OrderInv, AccountInv, Die, UNCHANGED <<table, accepted>>,
         \/ submitted' = submitted /\ lost' = lost \cup InMemory
         \/ /\ submitted' = submitted + 1
            /\ lost' = lost \cup {submitted + 1} \cup InMemory
  PROVE  AccountInv'
<1>1. \A d : (InTable(d)' <=> InTable(d)) /\ ~OnItsWay(d)'
  BY HashTypes, EmptyFacts DEF Die, InTable, InQueue, InHand, OnItsWay
<1>2. \A d : d \in InMemory <=> OnItsWay(d)
  BY DEF InMemory, Elements, OnItsWay, InQueue, InHand
<1>3. ASSUME NEW d, OnItsWay(d) PROVE d \in Nat /\ ~InTable(d) /\ d <= submitted
  <2>1. CASE InQueue(d)
    BY <2>1, RowTypes DEF OrderInv, InQueue, InTable
  <2>2. CASE InHand(d)
    BY <2>2, RowTypes DEF OrderInv, InHand, InTable
  <2> QED
    BY <1>3, <2>1, <2>2 DEF OnItsWay
<1>4. submitted \in Nat /\ \A d \in lost : d \in Nat
  BY RowTypes DEF TypeOK, Entries
<1>5. ~InTable(submitted + 1)
  BY NewEntry
<1>6. \A d : /\ d \in lost \/ OnItsWay(d) => d \in lost'
             /\ d \in lost' => \/ d \in lost
                               \/ OnItsWay(d)
                               \/ (d = submitted + 1 /\ d <= submitted')
  BY <1>2, <1>4
<1>7. \A d \in Nat : d <= submitted => d <= submitted'
  BY <1>4
<1> QED
  BY <1>1, <1>2, <1>3, <1>4, <1>5, <1>6, <1>7 DEF AccountInv

LEMMA StepAccount ==
  TypeInv /\ PhaseInv /\ OrderInv /\ AccountInv /\ [Next]_vars => AccountInv'
<1> SUFFICES ASSUME TypeInv, PhaseInv, OrderInv, AccountInv, [Next]_vars PROVE AccountInv'
  OBVIOUS
<1>0. TypeOK /\ submitted \in Nat /\ \A d \in lost : d \in Nat
  BY RowTypes DEF TypeInv, TypeOK, Entries
<1> USE HashTypes
<1>1. ASSUME NEW h \in Handlers, HandlerLogs(h)
      PROVE AccountInv'
  <2>1. CASE ChannelClosed
    <3>1. /\ submitted' = submitted + 1 /\ lost' = lost \cup {submitted + 1}
          /\ UNCHANGED <<table, queue, consumer, accepted>>
      BY <1>1, <2>1 DEF HandlerLogs
    <3>2. \A d : (InTable(d)' <=> InTable(d)) /\ (OnItsWay(d)' <=> OnItsWay(d))
      BY <3>1 DEF InTable, InQueue, InHand, OnItsWay
    <3>3. ~InTable(submitted + 1) /\ ~OnItsWay(submitted + 1)
      BY <1>0, NewEntry
    <3>4. \A d \in lost : d <= submitted => d <= submitted'
      BY <1>0, <3>1
    <3>5. submitted + 1 <= submitted'
      BY <1>0, <3>1
    <3> QED
      BY <3>1, <3>2, <3>3, <3>4, <3>5 DEF AccountInv
  <2>2. CASE ~ChannelClosed
    BY <1>0, <1>1, <2>2, LogAccount DEF HandlerLogs
  <2> QED
    BY <2>1, <2>2
<1>2. CASE CheckerLogs
  <2>1. CASE ChannelClosed
    <3>1. /\ submitted' = submitted + 1 /\ Die
          /\ lost' = lost \cup {submitted + 1} \cup InMemory
          /\ UNCHANGED <<table, accepted>>
      BY <1>2, <2>1 DEF CheckerLogs
    <3> QED
      BY <1>0, <3>1, DieAccount
  <2>2. CASE ~ChannelClosed
    BY <1>0, <1>2, <2>2, LogAccount DEF CheckerLogs
  <2> QED
    BY <2>1, <2>2
<1>3. CASE Receive
  <2>1. /\ queue \in Seq(Entries) /\ queue # <<>> /\ queue' = Tail(queue)
        /\ consumer'.entry = Head(queue) /\ UNCHANGED <<table, submitted, lost, accepted>>
        /\ consumer.entry = NoEntry
    BY <1>0, <1>3 DEF Receive, TypeInv, TypeOK, HandOK, ghosts
  <2>2. /\ DOMAIN queue = 1 .. Len(queue) /\ Len(queue) \in Nat /\ Len(queue) # 0
        /\ DOMAIN queue' = 1 .. Len(queue) - 1 /\ consumer'.entry = queue[1]
        /\ \A j \in 1 .. Len(queue) - 1 : queue'[j] = queue[j + 1]
    BY <2>1, TailFacts, SeqFacts
  <2>3. 1 \in DOMAIN queue /\ queue[1] # NoEntry
    <3>1. 1 \in DOMAIN queue
      BY <2>2
    <3> QED
      BY <1>0, <3>1, RowTypes
  <2>4. \A j \in DOMAIN queue : j = 1 \/ (j - 1 \in DOMAIN queue' /\ queue'[j - 1] = queue[j])
    BY <2>2
  <2>5. \A j \in DOMAIN queue' : j + 1 \in DOMAIN queue /\ queue'[j] = queue[j + 1]
    BY <2>2
  <2>6. \A d : OnItsWay(d)' <=> OnItsWay(d)
    <3>1. \A d : InHand(d)' <=> d = queue[1]
      BY <2>2, <2>3 DEF InHand
    <3>2. \A d : ~InHand(d)
      BY <2>1 DEF InHand
    <3>3. ASSUME NEW d, InQueue(d) PROVE d = queue[1] \/ InQueue(d)'
      <4>1. PICK j \in DOMAIN queue : queue[j] = d
        BY <3>3 DEF InQueue
      <4> QED
        BY <2>4, <4>1 DEF InQueue
    <3>4. ASSUME NEW d, d = queue[1] \/ InQueue(d)' PROVE InQueue(d)
      BY <2>3, <2>5, <3>4 DEF InQueue
    <3> QED
      BY <3>1, <3>2, <3>3, <3>4 DEF OnItsWay
  <2>7. \A d : InTable(d)' <=> InTable(d)
    BY <2>1 DEF InTable
  <2> QED
    BY <2>1, <2>6, <2>7 DEF AccountInv
<1>4. CASE GetLastHash \/ GetLastHashFails
  <2>1. consumer'.entry = consumer.entry
        /\ UNCHANGED <<table, queue, submitted, lost, accepted>>
    BY <1>0, <1>4 DEF GetLastHash, GetLastHashFails, TypeOK, Consumer, ghosts
  <2> QED
    BY <2>1, FrameAccount
<1>5. CASE Create
  <2> DEFINE row == BuildAuditLog(consumer.entry, consumer.prev)
  <2>1. /\ table \in Seq(AuditLog) /\ row \in AuditLog /\ row.entry = consumer.entry
        /\ consumer.entry # NoEntry
    <3>1. consumer.entry \in Entries /\ consumer.prev \in Seq(Nat)
      BY <1>5 DEF Create, TypeInv, TypeOK, HandOK, Consumer
    <3>2. Hash(consumer.prev, consumer.entry) \in Seq(Nat)
      BY <3>1, AppendFacts DEF Hash, Entries
    <3> QED
      BY <1>0, <1>5, <3>1, <3>2 DEF Create, TypeInv, TypeOK, HandOK, BuildAuditLog, AuditLog
  <2>2. /\ table' = Append(table, row) /\ consumer'.entry = NoEntry
        /\ UNCHANGED <<queue, submitted, lost, accepted>>
    BY <1>5 DEF Create
  <2> HIDE DEF row
  <2>3. /\ DOMAIN table = 1 .. Len(table) /\ Len(table) \in Nat
        /\ DOMAIN table' = 1 .. Len(table) + 1
        /\ \A i \in 1 .. Len(table) : table'[i] = table[i]
        /\ table'[Len(table) + 1] = row
    BY <2>1, <2>2, AppendFacts, SeqFacts
  <2>4. \A d : InTable(d)' <=> InTable(d) \/ d = consumer.entry
    <3>1. \A i \in DOMAIN table' : i \in DOMAIN table \/ i = Len(table) + 1
      BY <2>3
    <3>2. DOMAIN table \subseteq DOMAIN table' /\ Len(table) + 1 \in DOMAIN table'
      BY <2>3
    <3> QED
      BY <2>1, <2>3, <3>1, <3>2 DEF InTable
  <2>5. \A d : /\ InQueue(d)' <=> InQueue(d)
               /\ ~InHand(d)'
               /\ InHand(d) <=> d = consumer.entry
    BY <2>1, <2>2 DEF InQueue, InHand
  <2> QED
    BY <2>2, <2>4, <2>5 DEF AccountInv, OnItsWay
<1>6. CASE CreateFails
  <2>1. /\ consumer.entry # NoEntry /\ consumer'.entry = NoEntry
        /\ lost' = lost \cup {consumer.entry}
        /\ UNCHANGED <<table, queue, submitted, accepted>>
    BY <1>6 DEF CreateFails, TypeInv, HandOK
  <2>2. \A d : /\ InTable(d)' <=> InTable(d)
               /\ InQueue(d)' <=> InQueue(d)
               /\ ~InHand(d)'
               /\ InHand(d) <=> d = consumer.entry
    BY <2>1 DEF InTable, InQueue, InHand
  <2>3. ~InTable(consumer.entry) /\ ~InQueue(consumer.entry) /\ consumer.entry <= submitted
    BY <1>0, <2>1, RowTypes DEF OrderInv, InTable, InQueue
  <2> QED
    BY <2>1, <2>2, <2>3 DEF AccountInv, OnItsWay
<1>7. CASE LoopEnds
  <2>1. consumer.entry = NoEntry
    BY <1>7 DEF LoopEnds, TypeInv, HandOK
  <2> QED
    BY <1>7, <2>1, FrameAccount DEF LoopEnds, ghosts
<1>8. ASSUME NEW h \in Handlers, RequestArrives(h) \/ RequestEnds(h)
      PROVE AccountInv'
  BY <1>8, FrameAccount DEF RequestArrives, RequestEnds, ghosts
<1>9. CASE Signal \/ ServerStopped \/ Drained
  BY <1>9, FrameAccount DEF Signal, ServerStopped, Drained, Goto, Exit, ghosts
<1>10. CASE Killed
  <2>1. /\ submitted' = submitted /\ Die /\ lost' = lost \cup {} \cup InMemory
        /\ UNCHANGED <<table, accepted>>
    BY <1>10 DEF Killed
  <2> QED
    BY <1>0, <2>1, DieAccount
<1>11. CASE Restart
  <2>1. phase \in {"exited", "dead"}
    BY <1>11 DEF Restart, Alive, TypeInv, TypeOK, Phases
  <2>2. queue = <<>> /\ consumer.entry = NoEntry
    BY <2>1 DEF PhaseInv, TypeInv, HandOK
  <2> QED
    BY <1>11, <2>2, FrameAccount DEF Restart, ghosts
<1>12. CASE UNCHANGED vars
  BY <1>12, FrameAccount DEF vars, ghosts
<1> QED
  BY <1>1, <1>2, <1>3, <1>4, <1>5, <1>6, <1>7, <1>8, <1>9, <1>10, <1>11, <1>12
  DEF Next, ConsumeLoop

\* What is in the channel, in the consumer's hands and in the table, as sets.
LEMMA PlacesAsSets ==
  ASSUME TypeOK
  PROVE  /\ \A e : e \in Elements(Rows) <=> InTable(e)
         /\ \A e : e \in Elements(Pending) <=> OnItsWay(e)
<1>1. \A e : e \in Elements(Rows) <=> InTable(e)
  BY DEF Elements, Rows, InTable
<1> DEFINE hand == IF consumer.entry = NoEntry THEN <<>> ELSE <<consumer.entry>>
<1>2. /\ hand \in Seq(Nat) /\ queue \in Seq(Nat)
      /\ \A e : (\E i \in 1 .. Len(hand) : hand[i] = e) <=> InHand(e)
  <2>1. queue \in Seq(Nat)
    <3>1. Entries \subseteq Nat /\ queue \in Seq(Entries)
      BY DEF TypeOK, Entries
    <3> QED
      BY <3>1, WiderSeq
  <2>2. CASE consumer.entry = NoEntry
    BY <2>1, <2>2, EmptyFacts DEF InHand
  <2>3. CASE consumer.entry # NoEntry
    <3>1. hand = <<consumer.entry>> /\ consumer.entry \in Nat
      BY <2>3, RowTypes
    <3>2. hand \in Seq(Nat) /\ 1 .. Len(hand) = {1} /\ hand[1] = consumer.entry
      BY <3>1
    <3> QED
      BY <2>1, <2>3, <3>2 DEF InHand
  <2> QED
    BY <2>2, <2>3
<1>3. Pending = hand \o queue
  BY DEF Pending
<1> HIDE DEF hand
<1>4. /\ Len(hand) \in Nat /\ Len(queue) \in Nat
      /\ DOMAIN queue = 1 .. Len(queue)
      /\ DOMAIN Pending = 1 .. Len(hand) + Len(queue)
      /\ \A i \in 1 .. Len(hand) : Pending[i] = hand[i]
      /\ \A i \in 1 .. Len(queue) : Pending[Len(hand) + i] = queue[i]
  BY <1>2, <1>3
<1>5. ASSUME NEW e, e \in Elements(Pending) PROVE OnItsWay(e)
  <2>1. PICK j \in DOMAIN Pending : Pending[j] = e
    BY <1>5 DEF Elements
  <2>2. CASE j <= Len(hand)
    <3>1. j \in 1 .. Len(hand)
      BY <1>4, <2>2
    <3> QED
      BY <1>2, <1>4, <2>1, <3>1 DEF OnItsWay
  <2>3. CASE ~(j <= Len(hand))
    <3>1. j - Len(hand) \in 1 .. Len(queue) /\ j = Len(hand) + (j - Len(hand))
      BY <1>4, <2>3
    <3>2. Pending[j] = queue[j - Len(hand)]
      BY <1>4, <3>1
    <3> QED
      BY <1>4, <2>1, <3>1, <3>2 DEF OnItsWay, InQueue
  <2> QED
    BY <2>2, <2>3
<1>6. ASSUME NEW e, OnItsWay(e) PROVE e \in Elements(Pending)
  <2>1. CASE InHand(e)
    <3>1. PICK i \in 1 .. Len(hand) : hand[i] = e
      BY <1>2, <2>1
    <3>2. i \in DOMAIN Pending /\ Pending[i] = e
      BY <1>4, <3>1
    <3> QED
      BY <3>2 DEF Elements
  <2>2. CASE InQueue(e)
    <3>1. PICK i \in 1 .. Len(queue) : queue[i] = e
      BY <1>4, <2>2 DEF InQueue
    <3>2. Len(hand) + i \in DOMAIN Pending /\ Pending[Len(hand) + i] = e
      BY <1>4, <3>1
    <3> QED
      BY <3>2 DEF Elements
  <2> QED
    BY <1>6, <2>1, <2>2 DEF OnItsWay
<1> QED
  BY <1>1, <1>5, <1>6

\* Whatever fails, and whenever the process is stopped or dies, an entry the channel
\* took is on its way, a row, or lost, and never two of these.
THEOREM AccountCorrect == Spec => []AcceptedAccounted
<1>1. TypeInv /\ AccountInv => AcceptedAccounted
  BY PlacesAsSets DEF TypeInv, AccountInv, AcceptedAccounted
<1> QED
  BY <1>1, InitType, StepType, InitPhase, StepPhase, InitOrder, StepOrder, InitAccount,
     StepAccount, PTL DEF Spec

-----------------------------------------------------------------------------
(* Verification *)

LEMMA LeastNatural ==
  ASSUME NEW T \in SUBSET Nat, T # {}
  PROVE  \E x \in T : \A y \in T : x <= y
<1>1. PICK x \in T : \A y \in T : <<y, x>> \notin OpToRel(<, Nat)
  BY NatLessThanWellFounded, WFMin
<1>2. \A y \in T : ~(y < x)
  BY <1>1, Zenon DEF OpToRel
<1>3. \A y \in T : x <= y
  BY <1>2
<1> QED
  BY <1>3

\* Over any window of the table, VerifyChain answers with the oldest row that was
\* built blind, and calls the chain intact exactly when there is none.
THEOREM VerifyCorrect == Spec => []VerifyReportsFirstBlind
<1>1. TypeInv /\ BreaksAreBlindRows => VerifyReportsFirstBlind
  <2> SUFFICES ASSUME TypeOK, BreaksAreBlindRows, NEW n \in 0 .. Len(table)
               PROVE  LET suspects == {i \in blind : i > Len(table) - n + 1}
                      IN  IF suspects = {} THEN VerifyChain(n) = 0
                          ELSE /\ VerifyChain(n) \in suspects
                               /\ \A i \in suspects : VerifyChain(n) <= i
    BY DEF TypeInv, VerifyReportsFirstBlind
  <2> DEFINE suspects == {i \in blind : i > Len(table) - n + 1}
             broken == {i \in 2 .. Len(table) : /\ i - 1 > Len(table) - n
                                                /\ table[i].prev # table[i - 1].hash}
  <2>1. Len(table) \in Nat /\ DOMAIN table = 1 .. Len(table) /\ blind \subseteq DOMAIN table
    BY SeqFacts DEF TypeOK
  <2>2. \A i \in 2 .. Len(table) : table[i].prev # table[i - 1].hash <=> i \in blind
    <3>1. \A i \in 2 .. Len(table) : i \in DOMAIN table /\ i # 1
      BY <2>1
    <3> QED
      BY <3>1 DEF BreaksAreBlindRows
  <2>3. \A i \in blind : i > Len(table) - n + 1 <=> /\ i \in 2 .. Len(table)
                                                   /\ i - 1 > Len(table) - n
    BY <2>1
  <2>4. suspects = broken
    BY <2>2, <2>3
  <2>5. VerifyChain(n) = IF broken = {} THEN 0
                         ELSE CHOOSE i \in broken : \A j \in broken : i <= j
    BY DEF VerifyChain
  <2>6. broken \in SUBSET Nat
    BY <2>1
  <2> HIDE DEF broken
  <2>7. ASSUME broken # {}
        PROVE  VerifyChain(n) \in broken /\ \A j \in broken : VerifyChain(n) <= j
    <3>1. \E i \in broken : \A j \in broken : i <= j
      BY <2>6, <2>7, LeastNatural
    <3> QED
      BY <2>5, <2>7, <3>1, Zenon
  <2> QED
    BY <2>4, <2>5, <2>7
<1>2. ChainInv => BreaksAreBlindRows
  BY DEF ChainInv
<1> QED
  BY <1>1, <1>2, InitType, StepType, InitChain, StepChain, PTL DEF Spec

-----------------------------------------------------------------------------
(* What a shutdown keeps *)

\* A send of the SLA checker on the channel that main has closed: the panic that takes
\* the process down.
CheckerPanics == ChannelClosed /\ CheckerLogs

\* What was accepted is not lost, and the process does not die, where nothing fails.
KeptInv == ~FaultsHappen => lost \cap accepted = {} /\ phase # "dead"

\* Log loses no entry it has accepted, and accepts none that was lost.
LEMMA LogKeeps ==
  ASSUME TypeInv, OrderInv, AccountInv, lost \cap accepted = {},
         \/ Log
         \/ lost' = lost \cup {submitted + 1} /\ accepted' = accepted
  PROVE  lost' \cap accepted' = {}
<1>1. submitted \in Nat
  BY RowTypes DEF TypeInv
<1>2. /\ ~InTable(submitted + 1) /\ ~OnItsWay(submitted + 1)
      /\ \A d \in lost : d <= submitted => d # submitted + 1
  BY NewEntry DEF TypeInv
<1>3. submitted + 1 \notin lost
  BY <1>2 DEF AccountInv
<1>4. submitted + 1 \notin accepted
  BY <1>2, <1>3 DEF AccountInv
<1> QED
  BY <1>3, <1>4 DEF Log

LEMMA StepKept ==
  ASSUME TypeInv, OrderInv, AccountInv, KeptInv, [Next]_vars, ~CheckerPanics
  PROVE  KeptInv'
<1> SUFFICES ASSUME ~FaultsHappen, lost \cap accepted = {}, phase # "dead"
             PROVE  lost' \cap accepted' = {} /\ phase' # "dead"
  BY DEF KeptInv
<1>1. ASSUME NEW h \in Handlers, HandlerLogs(h)
      PROVE  lost' \cap accepted' = {} /\ phase' # "dead"
  BY <1>1, LogKeeps DEF HandlerLogs
<1>2. CASE CheckerLogs
  BY <1>2, LogKeeps DEF CheckerLogs, CheckerPanics
<1>3. CASE ConsumeLoop
  BY <1>3 DEF ConsumeLoop, Receive, GetLastHash, GetLastHashFails, Create, CreateFails,
              LoopEnds, ghosts
<1>4. CASE \/ \E h \in Handlers : RequestArrives(h) \/ RequestEnds(h)
           \/ Signal \/ ServerStopped \/ Drained \/ Killed \/ Restart \/ UNCHANGED vars
  BY <1>4 DEF RequestArrives, RequestEnds, Signal, ServerStopped, Goto, Drained, Exit,
              Killed, Restart, vars, ghosts
<1> QED
  BY <1>1, <1>2, <1>3, <1>4 DEF Next

\* The checker's panic is all that makes a graceful shutdown lose entries it was to
\* process (audit_service.go:93): without it, and where no statement fails and nothing
\* kills the process, every entry the channel took is a row when the process has ended.
THEOREM ShutdownCorrect ==
  Spec /\ [][~CheckerPanics]_vars => [](~FaultsHappen => ShutdownKeepsEntries)
<1>1. Init => KeptInv
  BY DEF Init, KeptInv
<1>2. TypeInv /\ OrderInv /\ AccountInv /\ KeptInv /\ [Next]_vars /\ [~CheckerPanics]_vars
         => KeptInv'
  <2>1. KeptInv /\ UNCHANGED vars => KeptInv'
    BY DEF KeptInv, vars, ghosts
  <2> QED
    BY <2>1, StepKept
<1>3. AcceptedAccounted /\ DrainedAtExit /\ KeptInv
         => (~FaultsHappen => ShutdownKeepsEntries)
  <2> SUFFICES ASSUME AcceptedAccounted, DrainedAtExit, KeptInv, ~FaultsHappen,
                      phase \in {"exited", "dead"}
               PROVE  accepted \subseteq Elements(Rows)
    BY DEF ShutdownKeepsEntries
  <2>1. Pending = <<>> /\ lost \cap accepted = {}
    BY DEF DrainedAtExit, KeptInv
  <2>2. Elements(Pending) = {}
    BY <2>1 DEF Elements
  <2> QED
    BY <2>1, <2>2 DEF AcceptedAccounted
<1>4. Spec => [](TypeInv /\ OrderInv /\ AccountInv)
  BY InitType, StepType, InitPhase, StepPhase, InitOrder, StepOrder, InitAccount,
     StepAccount, PTL DEF Spec
<1>5. Spec /\ [][~CheckerPanics]_vars => []KeptInv
  BY <1>1, <1>2, <1>4, PTL DEF Spec
<1> QED
  BY <1>3, <1>5, AccountCorrect, DrainedCorrect, PTL

-----------------------------------------------------------------------------
(* How long a shutdown takes *)

LEMMA StepWorks ==
  LET work == [receive |-> 1, read |-> 3, insert |-> 2, closed |-> 0]
  IN  work["receive"] = 1 /\ work["read"] = 3 /\ work["insert"] = 2 /\ work["closed"] = 0
OBVIOUS

LEMMA WorkType == TypeInv => Len(queue) \in Nat /\ WorkLeft \in Nat
BY SeqFacts, StepWorks DEF TypeInv, TypeOK, Consumer, WorkLeft

LEMMA ConsumeWorks ==
  ASSUME TypeInv, ConsumeLoop
  PROVE  WorkLeft' < WorkLeft
<1>0. Len(queue) \in Nat
  BY WorkType
<1>1. CASE Receive
  <2>1. Len(queue') = Len(queue) - 1
    BY <1>1, TailFacts DEF Receive, TypeInv, TypeOK
  <2>2. consumer.step = "receive" /\ consumer'.step = "read"
    BY <1>1 DEF Receive
  <2> QED
    BY <1>0, <2>1, <2>2, StepWorks DEF WorkLeft
<1>2. CASE GetLastHash \/ GetLastHashFails
  <2>1. consumer.step = "read" /\ consumer'.step = "insert" /\ queue' = queue
    BY <1>2 DEF GetLastHash, GetLastHashFails, TypeInv, TypeOK, Consumer
  <2> QED
    BY <1>0, <2>1, StepWorks DEF WorkLeft
<1>3. CASE Create \/ CreateFails
  <2>1. consumer.step = "insert" /\ consumer'.step = "receive" /\ queue' = queue
    BY <1>3, HashTypes DEF Create, CreateFails
  <2> QED
    BY <1>0, <2>1, StepWorks DEF WorkLeft
<1>4. CASE LoopEnds
  <2>1. consumer.step = "receive" /\ consumer'.step = "closed" /\ queue' = queue
    BY <1>4, HashTypes DEF LoopEnds
  <2> QED
    BY <1>0, <2>1, StepWorks DEF WorkLeft
<1> QED
  BY <1>1, <1>2, <1>3, <1>4 DEF ConsumeLoop

\* Once main has closed the channel the work left to the consumer never grows, and each
\* statement of the consumer takes from it (ShutdownEnds without its fairness).
THEOREM DrainCorrect == Spec => DrainAdvances
<1> DEFINE Advance == ChannelClosed /\ ChannelClosed' =>
                         /\ WorkLeft' <= WorkLeft
                         /\ ConsumeLoop => WorkLeft' < WorkLeft
<1>1. ASSUME TypeInv, [Next]_vars
      PROVE  Advance
  <2>1. WorkLeft \in Nat /\ WorkLeft' \in Nat
    <3>1. TypeInv'
      BY <1>1, StepType
    <3>2. TypeInv' => WorkLeft' \in Nat
      BY SeqFacts, StepWorks DEF TypeInv, TypeOK, Consumer, WorkLeft
    <3> QED
      BY <1>1, <3>1, <3>2, WorkType
  <2>2. ASSUME ChannelClosed, ChannelClosed', ~ConsumeLoop
        PROVE  UNCHANGED <<queue, consumer>>
    <3>1. ASSUME NEW h \in Handlers, HandlerLogs(h)
          PROVE  UNCHANGED <<queue, consumer>>
      BY <2>2, <3>1 DEF HandlerLogs
    <3>2. CASE \/ CheckerLogs \/ Signal \/ ServerStopped \/ Drained \/ Killed \/ Restart
               \/ UNCHANGED vars \/ \E h \in Handlers : RequestArrives(h) \/ RequestEnds(h)
      BY <2>2, <3>2 DEF CheckerLogs, Die, Signal, ServerStopped, Goto, Drained, Exit, Killed,
                 Restart, RequestArrives, RequestEnds, ChannelClosed, Alive, vars
    <3> QED
      BY <1>1, <2>2, <3>1, <3>2 DEF Next
  <2>3. UNCHANGED <<queue, consumer>> => WorkLeft' = WorkLeft
    BY DEF WorkLeft
  <2> QED
    BY <1>1, <2>1, <2>2, <2>3, ConsumeWorks
<1> QED
  BY <1>1, InitType, StepType, PTL DEF Spec, DrainAdvances

\* So a shutdown waits for at most 3 * Capacity + 3 statements of the consumer.
THEOREM DrainBounded == Spec => [](WorkLeft <= 3 * Capacity + 3)
<1>1. TypeInv => WorkLeft <= 3 * Capacity + 3
  BY WorkType, StepWorks, LimitsAssumption DEF TypeInv, TypeOK, Consumer, WorkLeft
<1> QED
  BY <1>1, InitType, StepType, PTL DEF Spec
=============================================================================
