-------------------------------- MODULE Audit --------------------------------
(***************************************************************************)
(* The audit pipeline: handlers and the SLA checker hand entries to        *)
(* AuditService.Log, a buffered channel holds them, one consumer goroutine *)
(* links each to the last row of audit_logs by its hash and inserts it.    *)
(*                                                                         *)
(* The life of the process belongs to it: main stops the HTTP server, its  *)
(* deferred Shutdown closes the channel and waits for the consumer, while  *)
(* the SLA checker runs on.  The table survives, the channel does not.     *)
(*                                                                         *)
(* What the handlers do before they log is modelled in Auth and Alerts and *)
(* is left out here; an entry is the number of the call that submitted it. *)
(***************************************************************************)
EXTENDS Integers, Sequences

CONSTANTS
    Handlers,      \* goroutines that serve HTTP requests
    Capacity,      \* auditChannelSize, 512 in the code
    FaultsHappen,  \* whether statements fail and the process is killed
    MaxEntries     \* bound: calls of Log

ASSUME LimitsAssumption ==
    /\ Capacity \in Nat \ {0}
    /\ MaxEntries \in Nat
    /\ FaultsHappen \in BOOLEAN

VARIABLES
    table,     \* audit_logs in the order of its ids
    queue,     \* the channel's buffer
    consumer,  \* what consumeLoop does next, for which entry, after which hash
    serving,   \* handlers with a request under way
    phase,     \* how far main has come
    submitted, \* calls of Log so far: the number of the last entry
    lost,      \* ghost: entries that will never be rows
    accepted,  \* ghost: entries the channel took
    blind      \* ghost: ids of the rows built without reading the last hash

ghosts == <<lost, accepted, blind>>
vars == <<table, queue, consumer, serving, phase, submitted, ghosts>>

Entries == 1 .. MaxEntries
NoEntry == 0

\* SHA-256 of the previous hash and the entry: equal for equal arguments only.
\* A hash is the sequence of the entries it covers.
Hash(prev, e) == Append(prev, e)
Genesis == <<NoEntry>>          \* sixty-four zeros, the hash of no row
NoHash == <<>>                  \* the empty string

AuditLog == [entry: Entries, prev: Seq(Nat), hash: Seq(Nat)]

\* "closed": the loop has returned and told the wait group.
Consumer == [step: {"receive", "read", "insert", "closed"},
             entry: Entries \cup {NoEntry}, prev: Seq(Nat)]
Receiving == [step |-> "receive", entry |-> NoEntry, prev |-> NoHash]
Returned == [Receiving EXCEPT !.step = "closed"]

\* main: serving, in srv.Shutdown, in auditSvc.Shutdown, returned; or the process
\* died on the way.
Phases == {"running", "stopping", "draining", "exited", "dead"}

TypeOK ==
    /\ table \in Seq(AuditLog)
    /\ queue \in Seq(Entries) /\ Len(queue) <= Capacity
    /\ consumer \in Consumer
    /\ serving \subseteq Handlers
    /\ phase \in Phases
    /\ submitted \in 0 .. MaxEntries
    /\ lost \subseteq Entries /\ accepted \subseteq Entries
    /\ blind \subseteq DOMAIN table

Elements(s) == {s[i] : i \in DOMAIN s}

Alive == phase \in {"running", "stopping", "draining"}

\* The channel is closed once main is in Shutdown.
ChannelClosed == phase = "draining"

Init ==
    /\ table = <<>>
    /\ queue = <<>>
    /\ consumer = Receiving
    /\ serving = {}
    /\ phase = "running"
    /\ submitted = 0
    /\ lost = {}
    /\ accepted = {}
    /\ blind = {}

\* Everything the process holds in memory is gone.
Die ==
    /\ phase' = "dead"
    /\ queue' = <<>>
    /\ consumer' = Returned
    /\ serving' = {}

InMemory == Elements(queue) \cup ({consumer.entry} \ {NoEntry})

-----------------------------------------------------------------------------
(* Log *)

\* Mutant: one entry more than the buffer holds.
HasRoom_OffByOne == Len(queue) <= Capacity

HasRoom == Len(queue) < Capacity

\* Send on the open channel, or drop the entry when the buffer is full.
Log ==
    LET e == submitted + 1
    IN  /\ submitted' = e
        /\ IF HasRoom THEN /\ queue' = Append(queue, e)
                           /\ accepted' = accepted \cup {e}
                           /\ lost' = lost
                      ELSE /\ lost' = lost \cup {e}
                           /\ UNCHANGED <<queue, accepted>>

\* A handler logs what it did.  A send on the closed channel panics; the server's
\* recovery middleware ends that request, and the entry is lost.
HandlerLogs(h) ==
    /\ h \in serving
    /\ submitted < MaxEntries
    /\ IF ChannelClosed
       THEN /\ submitted' = submitted + 1
            /\ lost' = lost \cup {submitted + 1}
            /\ serving' = serving \ {h}
            /\ UNCHANGED <<queue, accepted>>
       ELSE Log /\ UNCHANGED serving
    /\ UNCHANGED <<table, consumer, phase, blind>>

\* The SLA checker logs an escalation.  Nothing stops it before main returns, and
\* nothing recovers its panic: a send on the closed channel ends the process.
CheckerLogs ==
    /\ Alive
    /\ submitted < MaxEntries
    /\ IF ChannelClosed
       THEN /\ submitted' = submitted + 1
            /\ lost' = lost \cup {submitted + 1} \cup InMemory
            /\ Die
            /\ UNCHANGED accepted
       ELSE Log /\ UNCHANGED <<consumer, serving, phase>>
    /\ UNCHANGED <<table, blind>>

-----------------------------------------------------------------------------
(* consumeLoop *)

\* Mutant: takes the entry that came last.
Receive_Newest ==
    /\ consumer.step = "receive"
    /\ queue # <<>>
    /\ consumer' = [step |-> "read", entry |-> queue[Len(queue)], prev |-> NoHash]
    /\ queue' = SubSeq(queue, 1, Len(queue) - 1)
    /\ UNCHANGED <<table, serving, phase, submitted, ghosts>>

Receive ==
    /\ consumer.step = "receive"
    /\ queue # <<>>
    /\ consumer' = [step |-> "read", entry |-> Head(queue), prev |-> NoHash]
    /\ queue' = Tail(queue)
    /\ UNCHANGED <<table, serving, phase, submitted, ghosts>>

\* Mutant: forgets DESC.
LastHash_Oldest == IF table = <<>> THEN Genesis ELSE table[1].hash

\* ORDER BY id DESC LIMIT 1
LastHash == IF table = <<>> THEN Genesis ELSE table[Len(table)].hash

GetLastHash ==
    /\ consumer.step = "read"
    /\ consumer' = [consumer EXCEPT !.step = "insert", !.prev = LastHash]
    /\ UNCHANGED <<table, queue, serving, phase, submitted, ghosts>>

\* Mutant: gives up on the entry and on the loop.
GetLastHashFails_Returns ==
    /\ FaultsHappen
    /\ consumer.step = "read"
    /\ consumer' = Returned
    /\ lost' = lost \cup {consumer.entry}
    /\ UNCHANGED <<table, queue, serving, phase, submitted, accepted, blind>>

\* On an error the loop goes on with the empty string.
GetLastHashFails ==
    /\ FaultsHappen
    /\ consumer.step = "read"
    /\ consumer' = [consumer EXCEPT !.step = "insert", !.prev = NoHash]
    /\ UNCHANGED <<table, queue, serving, phase, submitted, ghosts>>

BuildAuditLog(e, prev) == [entry |-> e, prev |-> prev, hash |-> Hash(prev, e)]

Create ==
    /\ consumer.step = "insert"
    /\ table' = Append(table, BuildAuditLog(consumer.entry, consumer.prev))
    /\ blind' = IF consumer.prev = NoHash THEN blind \cup {Len(table) + 1} ELSE blind
    /\ consumer' = Receiving
    /\ UNCHANGED <<queue, serving, phase, submitted, lost, accepted>>

\* Mutant: tries again until the row is there.
CreateFails_Retries ==
    /\ FaultsHappen
    /\ consumer.step = "insert"
    /\ consumer' = [consumer EXCEPT !.step = "read"]
    /\ UNCHANGED <<table, queue, serving, phase, submitted, ghosts>>

\* The loop ignores the error of the INSERT.
CreateFails ==
    /\ FaultsHappen
    /\ consumer.step = "insert"
    /\ lost' = lost \cup {consumer.entry}
    /\ consumer' = Receiving
    /\ UNCHANGED <<table, queue, serving, phase, submitted, accepted, blind>>

\* Mutant: ends as soon as the channel is closed.
LoopEnds_Early ==
    /\ consumer.step = "receive"
    /\ ChannelClosed
    /\ consumer' = Returned
    /\ UNCHANGED <<table, queue, serving, phase, submitted, ghosts>>

\* The closed channel is empty: the range ends.
LoopEnds ==
    /\ consumer.step = "receive"
    /\ ChannelClosed
    /\ queue = <<>>
    /\ consumer' = Returned
    /\ UNCHANGED <<table, queue, serving, phase, submitted, ghosts>>

-----------------------------------------------------------------------------
(* The process *)

RequestArrives(h) ==
    /\ phase = "running"
    /\ h \notin serving
    /\ serving' = serving \cup {h}
    /\ UNCHANGED <<table, queue, consumer, phase, submitted, ghosts>>

RequestEnds(h) ==
    /\ h \in serving
    /\ serving' = serving \ {h}
    /\ UNCHANGED <<table, queue, consumer, phase, submitted, ghosts>>

Goto(next) ==
    /\ phase' = next
    /\ UNCHANGED <<table, queue, consumer, serving, submitted, ghosts>>

\* SIGTERM: srv.Shutdown takes no new requests and waits for those under way.
Signal == phase = "running" /\ Goto("stopping")

\* It returns when they have ended, or after 15 seconds whether or not; main then
\* returns, and the deferred Shutdown closes the channel.
ServerStopped == phase = "stopping" /\ Goto("draining")

\* The process ends, and the handlers the server gave up on with it.
Exit ==
    /\ phase' = "exited"
    /\ serving' = {}
    /\ UNCHANGED <<table, queue, consumer, submitted, ghosts>>

\* Mutant: does not wait for the consumer.
Drained_NoWait == phase = "draining" /\ Exit

\* Wait returns.
Drained == phase = "draining" /\ consumer.step = "closed" /\ Exit

\* kill -9, out of memory, a power cut.
Killed ==
    /\ FaultsHappen
    /\ Alive
    /\ Die
    /\ lost' = lost \cup InMemory
    /\ UNCHANGED <<table, submitted, accepted, blind>>

\* The next process finds the table as the last one left it.
Restart ==
    /\ ~Alive
    /\ phase' = "running"
    /\ queue' = <<>>
    /\ consumer' = Receiving
    /\ serving' = {}
    /\ UNCHANGED <<table, submitted, ghosts>>

-----------------------------------------------------------------------------
ConsumeLoop == Receive \/ GetLastHash \/ GetLastHashFails \/ Create \/ CreateFails \/ LoopEnds

Next ==
    \/ \E h \in Handlers : HandlerLogs(h) \/ RequestArrives(h) \/ RequestEnds(h)
    \/ CheckerLogs
    \/ ConsumeLoop
    \/ Signal
    \/ ServerStopped
    \/ Drained
    \/ Killed
    \/ Restart

Spec == Init /\ [][Next]_vars

\* The consumer is scheduled and its statements return, if only with an error;
\* srv.Shutdown has its timeout.  Nothing is assumed of signals and restarts.
FairSpec == Spec /\ WF_vars(ConsumeLoop) /\ WF_vars(ServerStopped) /\ WF_vars(Drained)

-----------------------------------------------------------------------------
(* VerifyChain *)

\* Mutant: starts from the newest rows.
VerifyChain_NewestFirst(lastN) ==
    LET broken == {i \in 2 .. Len(table) : /\ i - 1 > Len(table) - lastN
                                           /\ table[i].prev # table[i - 1].hash}
    IN  IF broken = {} THEN 0 ELSE CHOOSE i \in broken : \A j \in broken : j <= i

\* The first of the last lastN rows, the oldest excepted, whose prev_hash is not
\* the hash of the row before it; 0 if there is none.
VerifyChain(lastN) ==
    LET broken == {i \in 2 .. Len(table) : /\ i - 1 > Len(table) - lastN
                                           /\ table[i].prev # table[i - 1].hash}
    IN  IF broken = {} THEN 0 ELSE CHOOSE i \in broken : \A j \in broken : i <= j

-----------------------------------------------------------------------------
(* Properties *)

Increasing(s) == \A i, j \in DOMAIN s : i < j => s[i] < s[j]

Pending == (IF consumer.entry = NoEntry THEN <<>> ELSE <<consumer.entry>>) \o queue

Rows == [i \in DOMAIN table |-> table[i].entry]

\* Rows are in the order in which the calls of Log were made, with no entry twice,
\* and every row is older than every entry still on its way, across failed
\* statements, shutdowns and restarts.
StoredInOrder == Increasing(Rows \o Pending)

\* An entry the channel took is on its way, in the table or known to be lost, and
\* only one of these.
AcceptedAccounted ==
    /\ accepted \subseteq Elements(Rows) \cup Elements(Pending) \cup lost
    /\ Elements(Rows) \cap lost = {}
    /\ Elements(Pending) \cap lost = {}

\* The chain is broken exactly where the consumer could not read the last hash:
\* lost inserts, restarts and rows never written leave no break.
BreaksAreBlindRows ==
    \A i \in DOMAIN table :
        table[i].prev # (IF i = 1 THEN Genesis ELSE table[i - 1].hash) <=> i \in blind

\* VerifyChain over any window reports the oldest row in it that was built blind,
\* and the window is intact if there is none but its first row.
VerifyReportsFirstBlind ==
    \A n \in 0 .. Len(table) :
        LET suspects == {i \in blind : i > Len(table) - n + 1}
        IN  IF suspects = {} THEN VerifyChain(n) = 0
            ELSE VerifyChain(n) \in suspects /\ \A i \in suspects : VerifyChain(n) <= i

\* When main returns, no entry is left in the channel or in the consumer's hands.
DrainedAtExit == phase = "exited" => Pending = <<>>

\* A signalled process ends: the consumer works off a channel nobody refills.
ShutdownEnds == phase = "stopping" ~> phase \in {"exited", "dead"}

\* Statements the consumer has left at most, if nobody fills the channel.
WorkLeft == 3 * Len(queue)
              + [receive |-> 1, read |-> 3, insert |-> 2, closed |-> 0][consumer.step]

\* The reason why it ends: from the moment main closes the channel no panicking sender,
\* failing statement or late request adds to the consumer's work, and each of its
\* statements takes from it.
DrainAdvances ==
    [][ChannelClosed /\ ChannelClosed' =>
         /\ WorkLeft' <= WorkLeft
         /\ ConsumeLoop => WorkLeft' < WorkLeft]_vars

\* The line that AuditTrail speaks of: what the consumer holds and the channel behind
\* it, open until main closes the channel.
Trail == INSTANCE AuditTrail
           WITH trail <- Rows, pending <- Pending, open <- phase \in {"running", "stopping"}

\* The pipeline is an AuditTrail, across failing statements, shutdowns, panics and
\* restarts: order, drops at capacity only, rows that stay, and a line that moves.
TrailImplemented == Trail!Spec

\* What the source promises (the run that checks it finds it violated).

\* audit_service.go:93, "graceful shutdown: close the channel and wait for the
\* consumer to process every entry in the queue": without failures every accepted
\* entry is a row when the process has ended.
ShutdownKeepsEntries ==
    phase \in {"exited", "dead"} => accepted \subseteq Elements(Rows)
=============================================================================
