---------------------------- MODULE ServerProofs ----------------------------
(***************************************************************************)
(* For any capacity, commands, answers, peripherals and calls that fail,   *)
(* the three threads of the server use only open handles, no two commands  *)
(* have one identifier, the table holds what the target has answered, the  *)
(* last answer of a test wins, a queued answer is lost only for one of     *)
(* three reasons, and the printed totals are those of the final table.     *)
(* A shutdown is bounded, a start that has failed may hang for good, and   *)
(* an accepted response is held somewhere until its row is decided.        *)
(***************************************************************************)
EXTENDS StmServer, FiniteSetTheorems, TLAPS

Names == {Peripherals[k] : k \in 1 .. Len(Peripherals)} \cup {"none"}
Rows == {NoRow} \cup [status : {"PENDING", "PASSED", "FAILED"}, peripheral : Names]
Verdicts == {"PASSED", "FAILED"}

\* Where main is before it has started a thread, while the receive thread may
\* run, while the writer may run, and while the database is open.
Starting == {"open", "queue_init", "db_open", "writer_start"}
Failing == {"fail_writer_stop", "fail_join"}
Looping == {"loop", "send", "insert", "sleep"}
Receiving == {"generator_init", "stop_delay", "rx_stop", "rx_join"} \cup Looping
Writing == {"rx_start", "queue_shutdown", "writer_stop", "writer_join"}
             \cup Failing \cup Receiving
DbOpened == {"writer_start", "close", "summary", "db_close"} \cup Writing
MainPcs == Starting \cup DbOpened \cup Exits

DataTypes ==
    /\ command \in [test_id : 0 .. MaxCommands, peripheral : Names]
    /\ queue \in Seq(Records) /\ Len(queue) <= Capacity
    /\ rec \in [{"rx", "writer"} -> Records \cup {NoRecord}]
    /\ rxPc = "push" => rec["rx"] \in Records
    /\ wrPc = "update" => rec["writer"] \in Records
    /\ inbox \in Seq(Records \cup {ShortDatagram})
    /\ db \in [Ids -> Rows]
    /\ accepted \in [Ids -> Results \cup {"none"}]
    /\ next_test_id \in 1 .. MaxCommands + 1
    /\ mainPc \in {"send", "insert"} => command.test_id \in Ids
    /\ peripheral_index \in 0 .. Len(Peripherals) - 1
    /\ unwritten \subseteq Ids

\* Which threads run, and which handles are open, at each place of main.
ControlInv ==
    /\ mainPc \in MainPcs
    /\ dbOpen \in BOOLEAN /\ (dbOpen <=> mainPc \in DbOpened)
    /\ mainPc \in Receiving \cup {"queue_shutdown", "writer_stop", "writer_join",
                                  "close"} => sock = "open"
    /\ mainPc \in Receiving \ {"rx_join"} => rx_running
    /\ rxPc \in {"loop", "recv", "push"} => mainPc \in Receiving
    /\ wrPc \in {"loop", "pop", "update"} => mainPc \in Writing
    /\ sock \in {"none", "bad", "open", "closed"}
    /\ app_running \in BOOLEAN /\ rx_running \in BOOLEAN /\ wr_running \in BOOLEAN
    /\ rxPc \in {"none", "loop", "recv", "push", "done"}
    /\ wrPc \in {"none", "loop", "pop", "update", "done"}

\* Identifiers only grow once there are commands.
IdInv ==
    /\ mainPc \in {"rx_start", "generator_init"} \cup Starting \cup Failing => sent = {}
    /\ \A c \in sent : c.test_id < next_test_id
    /\ mainPc \in {"send", "insert"} => command.test_id < next_test_id
    /\ mainPc = "send" => \A c \in sent : c.test_id < command.test_id
    /\ mainPc = "insert" => command \in sent
    /\ sent \subseteq [test_id : Ids, peripheral : Names]
    /\ UniqueIds

\* The target has given this response.
Given(r) == \E own \in BOOLEAN :
              [test_id |-> r.test_id, result |-> r.result, own |-> own] \in answers

\* Every response on its way to the table is one the target has given.
OriginInv ==
    /\ \A k \in 1 .. Len(inbox) : inbox[k] # ShortDatagram => Given(inbox[k])
    /\ rxPc = "push" => Given(rec["rx"])
    /\ \A k \in 1 .. Len(queue) : Given(queue[k])
    /\ wrPc = "update" => Given(rec["writer"])
    /\ NoInventedResult

\* Of the responses of a test that are on their way, the youngest is the one
\* that was accepted last.
OrderInv ==
    /\ mainPc \in Starting => \A i \in Ids : accepted[i] = "none"
    /\ \A k \in 1 .. Len(queue) :
         (\A l \in k + 1 .. Len(queue) : queue[l].test_id # queue[k].test_id)
           => accepted[queue[k].test_id] = queue[k].result
    /\ wrPc = "update" /\ ~InQueue(rec["writer"].test_id)
         => accepted[rec["writer"].test_id] = rec["writer"].result
    /\ LastResponseWins
    /\ \A i \in Ids : accepted[i] # "none" =>
         InQueue(i) \/ InWriter(i) \/ i \in unwritten \/ db[i].status \in Verdicts

SummaryInv == summary # {} => mainPc \in {"db_close", "exit_success"}
                              /\ summary = {Totals}

Inv == DataTypes /\ ControlInv /\ IdInv /\ OriginInv /\ OrderInv /\ SummaryInv

-----------------------------------------------------------------------------
(* Facts about the data *)

LEMMA Constants == /\ MaxCommands \in Nat /\ Capacity \in Nat /\ Capacity # 0
                   /\ Len(Peripherals) \in Nat /\ Len(Peripherals) # 0
                   /\ Ids \subseteq Nat /\ NoRecord \notin Records
                   /\ ShortDatagram \notin Records
  BY ServerAssumption DEF Ids, Records, NoRecord, ShortDatagram, Results

\* The name of the peripheral under a valid index is one of the names.
LEMMA NamesIndexed ==
    ASSUME NEW k \in 0 .. Len(Peripherals) - 1 PROVE Peripherals[k + 1] \in Names
<1>1. k + 1 \in 1 .. Len(Peripherals)
  BY Constants
<1>2. QED
  BY <1>1 DEF Names

\* A row says PENDING, PASSED or FAILED, or there is none.
LEMMA RowTypes ==
    ASSUME NEW r \in Rows
    PROVE  /\ r.status \in {"absent", "PENDING"} \cup Verdicts
           /\ r.status = "absent" <=> r = NoRow
           /\ r # NoRow => r \in [status : {"PENDING"} \cup Verdicts, peripheral : Names]
  BY DEF Rows, NoRow, Verdicts

\* The steps of main that only move it on, start or stop threads, and open or
\* close handles.
Quiet == \/ Open \/ QueueInit \/ WriterStart \/ RxStart \/ FailWriterStop
         \/ FailJoin \/ Sleep \/ LeaveLoop \/ StopDelay \/ RxStop \/ RxJoin
         \/ QueueShutdown \/ WriterStop \/ WriterJoin \/ CloseSocket
         \/ DatabaseClose

data == <<command, generator, queue, rec, db, summary, sent, network, history>>

\* What such a step leaves alone.
LEMMA QuietLeaves ==
    Quiet => /\ UNCHANGED data
             /\ mainPc' \notin {"send", "insert"}
             /\ mainPc' \in Starting => mainPc \in Starting
             /\ rxPc' \in {rxPc, "loop"} /\ wrPc' \in {wrPc, "loop"}
             /\ mainPc # "summary"
             /\ mainPc \in {"db_close", "exit_success"} =>
                   mainPc' \in {"db_close", "exit_success"}
<1> USE DEF data, generator, network, history, fifo, database, rx, wr, Fifo!Close, Starting
<1>1. CASE Open \/ QueueInit \/ WriterStart \/ RxStart
  BY <1>1 DEF Open, QueueInit, WriterStart, RxStart
<1>2. CASE FailWriterStop \/ FailJoin \/ Sleep \/ LeaveLoop \/ StopDelay
  BY <1>2 DEF FailWriterStop, FailJoin, Sleep, LeaveLoop, StopDelay
<1>3. CASE RxStop \/ RxJoin \/ QueueShutdown \/ WriterStop \/ WriterJoin
  BY <1>3 DEF RxStop, RxJoin, QueueShutdown, WriterStop, WriterJoin
<1>4. CASE CloseSocket \/ DatabaseClose
  BY <1>4 DEF CloseSocket, DatabaseClose
<1>5. QED
  BY <1>1, <1>2, <1>3, <1>4 DEF Quiet

\* The other steps.
LEMMA StepCases ==
    ASSUME Next
    PROVE  \/ Quiet \/ DatabaseOpen \/ GeneratorInit \/ BuildNext \/ SendCommand
           \/ InsertCommand \/ PrintSummary
           \/ RxLoop \/ RxReceive \/ RxIgnore \/ RxTimeout \/ RxPush
           \/ WriterLoop \/ WriterPop \/ WriterUpdate
           \/ Sigint \/ DeliverShort \/ UNCHANGED vars
           \/ \E c \in sent, result \in Results : Deliver(c, result)
           \/ \E i \in Ids, result \in Results : DeliverStale(i, result)
  BY DEF Next, MainStep, RxStep, WriterStep, Environment, Finished, Quiet
-----------------------------------------------------------------------------
(* The places of the threads and the handles *)

LEMMA ControlStart == Init => ControlInv
  BY DEF Init, ControlInv, MainPcs, Starting, DbOpened, Writing, Receiving, Looping,
         Failing, Exits

\* Every step keeps the threads within the phases of main.
LEMMA ControlStep == DataTypes /\ ControlInv /\ Next => ControlInv'
<1> SUFFICES ASSUME DataTypes, ControlInv, Next PROVE ControlInv'
  OBVIOUS
<1> USE DEF ControlInv, MainPcs, Starting, DbOpened, Writing, Receiving, Looping,
            Failing, Exits, rx, wr, database, fifo, Fifo!Close
<1>1. CASE BuildNext \/ Sleep \/ LeaveLoop
  BY <1>1 DEF BuildNext, BuildWith, Sleep, LeaveLoop
<1>5. CASE MainStep
  <2>1. CASE Open
    BY <2>1 DEF Open
  <2>2. CASE QueueInit
    BY <2>2 DEF QueueInit
  <2>3. CASE DatabaseOpen
    <3>1. /\ UNCHANGED <<app_running, rx, wr>>
          /\ mainPc = "db_open"
          /\ \/ mainPc' = "writer_start" /\ dbOpen' = TRUE /\ UNCHANGED sock
             \/ mainPc' = "exit_failure" /\ dbOpen' = dbOpen /\ sock' = "closed"
      BY <2>3 DEF DatabaseOpen
    <3>2. CASE mainPc' = "writer_start"
      BY <3>1, <3>2
    <3>3. CASE mainPc' = "exit_failure"
      BY <3>1, <3>3
    <3>4. QED
      BY <3>1, <3>2, <3>3
  <2>4. CASE WriterStart
    BY <2>4 DEF WriterStart
  <2>5. CASE RxStart
    BY <2>5 DEF RxStart
  <2>6. CASE FailWriterStop
    BY <2>6 DEF FailWriterStop
  <2>7. CASE FailJoin
    BY <2>7 DEF FailJoin
  <2>8. CASE GeneratorInit
    BY <2>8 DEF GeneratorInit
  <2>9. CASE SendCommand
    BY <2>9 DEF SendCommand
  <2>10. CASE InsertCommand
    BY <2>10 DEF InsertCommand
  <2>11. CASE StopDelay
    BY <2>11 DEF StopDelay
  <2>12. CASE RxStop
    BY <2>12 DEF RxStop
  <2>13. CASE RxJoin
    BY <2>13 DEF RxJoin
  <2>14. CASE QueueShutdown
    BY <2>14 DEF QueueShutdown
  <2>15. CASE WriterStop
    BY <2>15 DEF WriterStop
  <2>16. CASE WriterJoin
    BY <2>16 DEF WriterJoin
  <2>17. CASE CloseSocket
    BY <2>17 DEF CloseSocket
  <2>18. CASE PrintSummary
    BY <2>18 DEF PrintSummary
  <2>19. CASE DatabaseClose
    BY <2>19 DEF DatabaseClose
  <2>20. QED
    BY <1>1, <1>5, <2>1, <2>2, <2>3, <2>4, <2>5, <2>6, <2>7, <2>8, <2>9, <2>10, <2>11, <2>12, <2>13, <2>14, <2>15, <2>16, <2>17, <2>18, <2>19 DEF MainStep
<1>6. CASE RxStep
  BY <1>6 DEF RxStep, RxLoop, RxReceive, RxIgnore, RxTimeout, RxPush
<1>7. CASE WriterStep
  BY <1>7 DEF WriterStep, WriterLoop, WriterPop, WriterUpdate, WriterOnly
<1>8. CASE Environment
  <2>1. UNCHANGED <<mainPc, sock, rx, wr, database>> /\ app_running' \in BOOLEAN
    BY <1>8 DEF Environment, Sigint, Deliver, DeliverShort, DeliverStale
  <2>2. QED
    BY <2>1
<1>9. CASE Finished
  BY <1>9 DEF Finished, vars
<1>10. QED
  BY <1>5, <1>6, <1>7, <1>8, <1>9 DEF Next
-----------------------------------------------------------------------------
(* The data *)

LEMMA DataStart == Init => DataTypes
<1> SUFFICES ASSUME Init PROVE DataTypes
  OBVIOUS
<1>1. command \in [test_id : 0 .. MaxCommands, peripheral : Names]
  BY Constants DEF Init, NoCommand, Names
<1>2. rec \in [{"rx", "writer"} -> Records \cup {NoRecord}]
  BY DEF Init, Fifo!Init, Fifo!Callers
<1>3. db \in [Ids -> Rows]
  BY DEF Init, Rows, Names, NoRow
<1>4. QED
  BY <1>1, <1>2, <1>3, Constants DEF Init, DataTypes, Fifo!Init

LEMMA DataStep == DataTypes /\ ControlInv /\ IdInv /\ Next => DataTypes'
<1> SUFFICES ASSUME DataTypes, ControlInv, IdInv, Next PROVE DataTypes'
  OBVIOUS
<1> USE DEF DataTypes, generator, network, history, fifo, database, rx, wr
<1>1. CASE Quiet
  BY <1>1, QuietLeaves DEF data
<1>2. CASE DatabaseOpen
  BY <1>2 DEF DatabaseOpen, Fifo!Close, Rows
<1>3. CASE GeneratorInit
  BY <1>3, Constants DEF GeneratorInit
<1>4. CASE BuildNext
  <2>1. next_test_id \in Ids /\ next_test_id + 1 \in 1 .. MaxCommands + 1
        /\ next_test_id \in 0 .. MaxCommands
    BY <1>4, Constants DEF BuildNext, BuildWith, Ids
  <2>2. NextIndex \in 0 .. Len(Peripherals) - 1
    BY Constants DEF NextIndex
  <2>3. command' \in [test_id : 0 .. MaxCommands, peripheral : Names]
        /\ command'.test_id \in Ids
    BY <1>4, <2>1, NamesIndexed DEF BuildNext, BuildWith
  <2>4. QED
    BY <1>4, <2>1, <2>2, <2>3 DEF BuildNext, BuildWith
<1>5. CASE SendCommand
  BY <1>5 DEF SendCommand
<1>6. CASE InsertCommand
  <2>1. [status |-> "PENDING", peripheral |-> command.peripheral] \in Rows
    BY DEF Rows
  <2>2. QED
    BY <1>6, <2>1 DEF InsertCommand
<1>7. CASE PrintSummary
  BY <1>7 DEF PrintSummary
<1>8. CASE RxReceive
  <2>1. PICK r \in Records : rec' = [rec EXCEPT !["rx"] = r]
    BY <1>8 DEF RxReceive, Fifo!CallPush
  <2>2. inbox' \in Seq(Records \cup {ShortDatagram})
    BY <1>8 DEF RxReceive
  <2>3. QED
    BY <1>8, <2>1, <2>2 DEF RxReceive, Fifo!CallPush
<1>9. CASE RxIgnore
  BY <1>9 DEF RxIgnore
<1>10. CASE RxPush
  <2>1. CASE Fifo!Put("rx")
    <3>1. rec["rx"].test_id \in Ids /\ rec["rx"].result \in Results
      BY <1>10 DEF RxPush, Records
    <3>2. queue' \in Seq(Records) /\ Len(queue') <= Capacity
      BY <1>10, <2>1, Constants DEF RxPush, Fifo!Put
    <3>3. accepted' \in [Ids -> Results \cup {"none"}]
      BY <1>10, <2>1, <3>1 DEF RxPush, Fifo!Put, Fifo!Refuse
    <3>4. QED
      BY <1>10, <2>1, <3>2, <3>3 DEF RxPush, Fifo!Put
  <2>2. CASE Fifo!Refuse("rx") /\ UNCHANGED accepted
    BY <1>10, <2>2 DEF RxPush, Fifo!Refuse
  <2>3. QED
    BY <1>10, <2>1, <2>2 DEF RxPush
<1>11. CASE WriterPop
  <2>1. CASE Fifo!Take("writer")
    <3>1. Head(queue) \in Records /\ Tail(queue) \in Seq(Records)
          /\ Len(Tail(queue)) <= Capacity
      BY <2>1, Constants DEF Fifo!Take
    <3>2. QED
      BY <1>11, <2>1, <3>1 DEF WriterPop, Fifo!Take
  <2>2. CASE Fifo!TakeNothing("writer")
    BY <1>11, <2>2 DEF WriterPop, Fifo!TakeNothing, Fifo!Take
  <2>3. QED
    BY <1>11, <2>1, <2>2 DEF WriterPop
<1>12. CASE WriterUpdate
  <2> DEFINE id == rec["writer"].test_id
  <2>1. id \in Ids /\ Verdict(rec["writer"].result) \in Verdicts
    BY <1>12 DEF WriterUpdate, Records, Verdict, Verdicts
  <2>2. CASE db[id] # NoRow /\ UpdateRow(id)
    <3>1. db[id] \in [status : {"PENDING"} \cup Verdicts, peripheral : Names]
      BY <2>1, <2>2, RowTypes
    <3>2. [db[id] EXCEPT !.status = Verdict(rec["writer"].result)] \in Rows
      BY <2>1, <3>1 DEF Rows, Verdicts
    <3>3. db' \in [Ids -> Rows] /\ UNCHANGED unwritten
      BY <2>1, <2>2, <3>2 DEF UpdateRow
    <3>4. QED
      BY <1>12, <3>3 DEF WriterUpdate, WriterOnly
  <2>3. CASE UpdateNothing(id) \/ UpdateFails(id)
    BY <1>12, <2>1, <2>3 DEF WriterUpdate, WriterOnly, UpdateNothing, UpdateFails
  <2>4. QED
    BY <1>12, <2>2, <2>3 DEF WriterUpdate
<1>13. ASSUME NEW c \in sent, NEW result \in Results, Deliver(c, result)
       PROVE  DataTypes'
  <2>1. [test_id |-> c.test_id, result |-> result] \in Records
    BY DEF Records, IdInv
  <2>2. QED
    BY <1>13, <2>1 DEF Deliver
<1>14. ASSUME NEW i \in Ids, NEW result \in Results, DeliverStale(i, result)
       PROVE  DataTypes'
  <2>1. [test_id |-> i, result |-> result] \in Records
    BY DEF Records
  <2>2. QED
    BY <1>14, <2>1 DEF DeliverStale
<1>15. CASE DeliverShort
  BY <1>15 DEF DeliverShort
<1>16. CASE RxLoop \/ RxTimeout \/ WriterLoop \/ Sigint \/ UNCHANGED vars
  BY <1>16 DEF RxLoop, RxTimeout, WriterLoop, Fifo!CallPop, Sigint, vars
<1>17. QED
  BY <1>1, <1>2, <1>3, <1>4, <1>5, <1>6, <1>7, <1>8, <1>9, <1>10, <1>11, <1>12,
     <1>13, <1>14, <1>15, <1>16, StepCases

-----------------------------------------------------------------------------
(* Identifiers *)

LEMMA IdStart == Init => IdInv
  BY DEF Init, IdInv, UniqueIds

\* Each command that is built has a new identifier.
LEMMA IdStep == DataTypes /\ IdInv /\ Next => IdInv'
<1> SUFFICES ASSUME DataTypes, IdInv, Next PROVE IdInv'
  OBVIOUS
<1> USE DEF IdInv, UniqueIds, generator, network, history, fifo, database, rx, wr,
            Starting, Failing
<1>t. /\ next_test_id \in Nat /\ command.test_id \in Nat
      /\ \A c \in sent : c.test_id \in Nat
  <2>1. next_test_id \in Nat /\ command.test_id \in Nat
    BY Constants DEF DataTypes
  <2>2. \A c \in sent : c.test_id \in Ids
    OBVIOUS
  <2>3. QED
    BY <2>1, <2>2, Constants
<1>1. CASE Quiet
  <2>1. /\ UNCHANGED <<command, next_test_id, sent>>
        /\ mainPc' \notin {"send", "insert"}
    BY <1>1, QuietLeaves DEF data
  <2>2. mainPc' \in {"rx_start", "generator_init"} \cup Starting \cup Failing
          => mainPc \in {"rx_start", "generator_init"} \cup Starting \cup Failing
    BY <1>1 DEF Quiet, Open, QueueInit, WriterStart, RxStart, FailWriterStop, FailJoin,
       Sleep, LeaveLoop, StopDelay, RxStop, RxJoin, QueueShutdown, WriterStop,
       WriterJoin, CloseSocket, DatabaseClose
  <2>3. QED
    BY <2>1, <2>2
<1>2. CASE DatabaseOpen \/ PrintSummary
  BY <1>2 DEF DatabaseOpen, PrintSummary
<1>3. CASE GeneratorInit
  BY <1>3 DEF GeneratorInit
<1>4. CASE BuildNext
  <2>1. /\ command'.test_id = next_test_id /\ next_test_id' = next_test_id + 1
        /\ mainPc' = "send" /\ UNCHANGED sent
    BY <1>4 DEF BuildNext, BuildWith
  <2>2. QED
    BY <1>t, <2>1
<1>5. CASE SendCommand
  <2>1. command \in [test_id : Ids, peripheral : Names]
    BY <1>5 DEF SendCommand, DataTypes
  <2>2. CASE sent' = sent \cup {command} /\ mainPc' = "insert"
    BY <1>t, <1>5, <2>1, <2>2 DEF SendCommand
  <2>3. CASE mainPc' = "sleep" /\ UNCHANGED sent
    BY <1>5, <2>3 DEF SendCommand
  <2>4. QED
    BY <1>5, <2>2, <2>3 DEF SendCommand
<1>6. CASE InsertCommand
  BY <1>6 DEF InsertCommand
<1>7. CASE RxStep
  BY <1>7 DEF RxStep, RxLoop, RxReceive, RxIgnore, RxTimeout, RxPush
<1>8. CASE WriterStep
  BY <1>8 DEF WriterStep, WriterLoop, WriterPop, WriterUpdate, WriterOnly
<1>9. CASE Environment \/ Finished
  <2>1. UNCHANGED <<mainPc, command, next_test_id, sent>>
    BY <1>9 DEF Environment, Sigint, Deliver, DeliverShort, DeliverStale, Finished, vars
  <2>2. QED
    BY <2>1
<1>10. QED
  BY <1>1, <1>2, <1>3, <1>4, <1>5, <1>6, <1>7, <1>8, <1>9 DEF Next, MainStep, Quiet
-----------------------------------------------------------------------------
(* Where results come from *)

LEMMA OriginStart == Init => OriginInv
  BY DEF Init, OriginInv, Fifo!Init, NoInventedResult

\* Nothing is given that has not been answered, and answers are not forgotten.
LEMMA GivenLasts == ASSUME answers \subseteq answers', NEW r, Given(r) PROVE Given(r)'
  BY DEF Given

\* A result in the table that was the target's stays so.
LEMMA AnsweredLasts ==
    ASSUME answers \subseteq answers', NEW i, NEW st, NEW own, Answered(i, st, own)
    PROVE  Answered(i, st, own)'
  BY DEF Answered

LEMMA OriginStep == DataTypes /\ ControlInv /\ IdInv /\ OriginInv /\ Next => OriginInv'
<1> SUFFICES ASSUME DataTypes, ControlInv, IdInv, OriginInv, Next PROVE OriginInv'
  OBVIOUS
<1> USE DEF OriginInv, generator, network, history, fifo, database, rx, wr
\* Nothing that is said of origins changes.
<1>0. ASSUME UNCHANGED <<inbox, queue, rec, answers, sent, db>>,
             rxPc' \in {rxPc, "loop", "recv", "done"},
             wrPc' \in {wrPc, "loop", "pop", "done"},
             dbOpen' => dbOpen
      PROVE  OriginInv'
  BY <1>0 DEF Given, NoInventedResult, Answered
<1>1. CASE Quiet
  <2>1. dbOpen' => dbOpen
    BY <1>1 DEF Quiet, Open, QueueInit, WriterStart, RxStart, FailWriterStop, FailJoin,
       Sleep, LeaveLoop, StopDelay, RxStop, RxJoin, QueueShutdown, WriterStop,
       WriterJoin, CloseSocket, DatabaseClose
  <2>2. QED
    BY <1>0, <1>1, <2>1, QuietLeaves DEF data
<1>2. CASE DatabaseOpen
  <2>1. UNCHANGED <<inbox, queue, rec, answers, rxPc, wrPc>>
    BY <1>2 DEF DatabaseOpen, Fifo!Close
  <2>2. dbOpen' => \A i \in Ids : db'[i] = NoRow
    BY <1>2 DEF DatabaseOpen, ControlInv, DbOpened, Writing, Failing, Receiving, Looping
  <2>3. QED
    BY <2>1, <2>2 DEF Given, NoInventedResult
<1>3. CASE GeneratorInit \/ BuildNext \/ PrintSummary
  BY <1>0, <1>3 DEF GeneratorInit, BuildNext, BuildWith, PrintSummary
<1>4. CASE SendCommand
  <2>1. UNCHANGED <<inbox, queue, rec, answers, rxPc, wrPc, db, dbOpen>>
        /\ sent \subseteq sent'
    BY <1>4 DEF SendCommand
  <2>2. QED
    BY <2>1 DEF Given, NoInventedResult, Answered
<1>5. CASE InsertCommand
  <2>1. UNCHANGED <<inbox, queue, rec, answers, rxPc, wrPc, sent, dbOpen>>
    BY <1>5 DEF InsertCommand
  <2>2. ASSUME NEW i \in Ids, dbOpen, db'[i] # db[i]
        PROVE  /\ i = command.test_id
               /\ db'[i] = [status |-> "PENDING", peripheral |-> command.peripheral]
    BY <1>5, <2>2 DEF InsertCommand, DataTypes
  <2>3. command = [test_id |-> command.test_id, peripheral |-> command.peripheral]
    BY DEF DataTypes
  <2>4. command \in sent
    BY <1>5 DEF InsertCommand, IdInv
  <2>5. NoInventedResult'
    <3> SUFFICES ASSUME dbOpen, NEW i \in Ids, db'[i] # NoRow
                 PROVE  /\ [test_id |-> i, peripheral |-> db'[i].peripheral] \in sent
                        /\ \/ db'[i].status = "PENDING"
                           \/ \E own \in BOOLEAN : Answered(i, db[i].status, own)'
      BY <2>1 DEF NoInventedResult
    <3>1. CASE db'[i] = db[i]
      BY <2>1, <3>1, AnsweredLasts DEF NoInventedResult
    <3>2. CASE db'[i] # db[i]
      BY <2>2, <2>3, <2>4, <3>2
    <3>3. QED
      BY <3>1, <3>2
  <2>6. QED
    BY <2>1, <2>5 DEF Given
<1>6. CASE RxReceive
  <2>1. rec' = [rec EXCEPT !["rx"] = Head(inbox)] /\ inbox' = Tail(inbox)
        /\ inbox # <<>> /\ Head(inbox) # ShortDatagram
        /\ UNCHANGED <<queue, answers, wrPc, db, dbOpen, sent>>
    BY <1>6 DEF RxReceive, Fifo!CallPush, DataTypes
  <2>2. \A k \in 1 .. Len(inbox') : inbox'[k] = inbox[k + 1] /\ k + 1 \in 1 .. Len(inbox)
    BY <2>1 DEF DataTypes
  <2>3. rec'["rx"] = inbox[1] /\ 1 \in 1 .. Len(inbox) /\ rec'["writer"] = rec["writer"]
    BY <2>1 DEF DataTypes
  <2>4. Given(rec'["rx"]) /\ \A k \in 1 .. Len(inbox') : inbox'[k] # ShortDatagram => Given(inbox'[k])
    BY <2>1, <2>2, <2>3
  <2>5. /\ \A k \in 1 .. Len(queue') : Given(queue'[k])
        /\ wrPc' = "update" => Given(rec'["writer"])
    BY <2>1, <2>3
  <2>6. NoInventedResult'
    BY <2>1 DEF NoInventedResult, Answered
  <2>7. QED
    BY <2>1, <2>4, <2>5, <2>6 DEF Given
<1>7. CASE RxIgnore
  <2>1. inbox' = Tail(inbox) /\ inbox # <<>>
        /\ UNCHANGED <<queue, rec, answers, wrPc, db, dbOpen, sent>> /\ rxPc' = "loop"
    BY <1>7 DEF RxIgnore
  <2>2. \A k \in 1 .. Len(inbox') : inbox'[k] = inbox[k + 1] /\ k + 1 \in 1 .. Len(inbox)
    BY <2>1 DEF DataTypes
  <2>3. QED
    BY <2>1, <2>2 DEF Given, NoInventedResult, Answered
<1>8. CASE RxPush
  <2>1. UNCHANGED <<inbox, answers, rec, wrPc, db, dbOpen, sent>> /\ rxPc' = "loop"
        /\ Given(rec["rx"])
    BY <1>8 DEF RxPush, Fifo!Put, Fifo!Refuse
  <2>2. queue' \in {queue, Append(queue, rec["rx"])}
    BY <1>8 DEF RxPush, Fifo!Put, Fifo!Refuse
  <2>3. rec["rx"] \in Records
    BY <1>8 DEF RxPush, DataTypes
  <2>4. \A k \in 1 .. Len(queue') : Given(queue'[k])
    BY <2>1, <2>2, <2>3 DEF DataTypes
  <2>5. QED
    BY <2>1, <2>4 DEF Given, NoInventedResult, Answered
<1>9. CASE WriterPop
  <2>1. UNCHANGED <<inbox, answers, rxPc, db, dbOpen, sent>>
    BY <1>9 DEF WriterPop
  <2>2. CASE Fifo!Take("writer")
    <3>1. /\ queue # <<>> /\ queue' = Tail(queue)
          /\ rec'["writer"] = queue[1] /\ rec'["rx"] = rec["rx"]
      BY <2>2 DEF Fifo!Take, DataTypes
    <3>2. \A k \in 1 .. Len(queue') : queue'[k] = queue[k + 1] /\ k + 1 \in 1 .. Len(queue)
      BY <3>1 DEF DataTypes
    <3>3. 1 \in 1 .. Len(queue)
      BY <3>1 DEF DataTypes
    <3>4. QED
      BY <2>1, <3>1, <3>2, <3>3 DEF Given, NoInventedResult, Answered
  <2>3. CASE Fifo!TakeNothing("writer") /\ wrPc' = "loop"
    BY <2>1, <2>3 DEF Fifo!TakeNothing, Given, NoInventedResult, Answered
  <2>4. Fifo!Take("writer") \/ (Fifo!TakeNothing("writer") /\ wrPc' = "loop")
    BY <1>9 DEF WriterPop
  <2>5. QED
    BY <2>2, <2>3, <2>4
<1>10. CASE WriterUpdate
  <2> DEFINE id == rec["writer"].test_id
  <2>1. UNCHANGED <<inbox, queue, rec, answers, rxPc, sent, dbOpen>> /\ wrPc' = "loop"
        /\ Given(rec["writer"])
    BY <1>10 DEF WriterUpdate, WriterOnly
  <2>2. rec["writer"].test_id \in Ids /\ rec["writer"].result \in Results
    BY <1>10 DEF WriterUpdate, DataTypes, Records
  <2>3. NoInventedResult'
    <3>1. CASE db[id] # NoRow /\ UpdateRow(id)
      <4>1. \E own \in BOOLEAN : Answered(id, Verdict(rec["writer"].result), own)
        BY <2>1, <2>2 DEF Given, Answered
      <4>2. db[id] \in [status : {"PENDING"} \cup Verdicts, peripheral : Names]
        BY <2>2, <3>1, RowTypes DEF DataTypes
      <4>3. /\ \A i \in Ids \ {id} : db'[i] = db[i]
            /\ db'[id].status = Verdict(rec["writer"].result)
            /\ db'[id].peripheral = db[id].peripheral
        BY <2>2, <3>1, <4>2 DEF UpdateRow, DataTypes
      <4>4. QED
        BY <2>1, <3>1, <4>1, <4>3 DEF NoInventedResult, Answered
    <3>2. CASE UNCHANGED db
      BY <2>1, <3>2 DEF NoInventedResult, Answered
    <3>3. QED
      BY <1>10, <3>1, <3>2 DEF WriterUpdate, UpdateNothing, UpdateFails
  <2>4. QED
    BY <2>1, <2>3 DEF Given
<1>11. ASSUME NEW c \in sent, NEW result \in Results, Deliver(c, result)
       PROVE  OriginInv'
  <2> DEFINE r == [test_id |-> c.test_id, result |-> result]
  <2>1. UNCHANGED <<queue, rec, rxPc, wrPc, sent, db, dbOpen>>
        /\ answers \subseteq answers' /\ inbox' = Append(inbox, r)
    BY <1>11 DEF Deliver
  <2>r. r \in Records \cup {ShortDatagram}
    BY DEF IdInv, Records
  <2>2. [test_id |-> r.test_id, result |-> r.result, own |-> TRUE] \in answers'
    BY <1>11 DEF Deliver
  <2>3. Given(r)'
    BY <2>2 DEF Given
  <2>4. \A k \in 1 .. Len(inbox') : inbox'[k] = r \/ (k \in 1 .. Len(inbox) /\ inbox'[k] = inbox[k])
    BY <2>1, <2>r DEF DataTypes
  <2>5. NoInventedResult'
    BY <2>1, AnsweredLasts DEF NoInventedResult
  <2>6. QED
    BY <2>1, <2>3, <2>4, <2>5, GivenLasts
<1>12. ASSUME NEW i \in Ids, NEW result \in Results, DeliverStale(i, result)
       PROVE  OriginInv'
  <2> DEFINE r == [test_id |-> i, result |-> result]
  <2>1. UNCHANGED <<queue, rec, rxPc, wrPc, sent, db, dbOpen>>
        /\ answers \subseteq answers' /\ inbox' = Append(inbox, r)
    BY <1>12 DEF DeliverStale
  <2>r. r \in Records \cup {ShortDatagram}
    BY DEF Records
  <2>2. [test_id |-> r.test_id, result |-> r.result, own |-> FALSE] \in answers'
    BY <1>12 DEF DeliverStale
  <2>3. Given(r)'
    BY <2>2 DEF Given
  <2>4. \A k \in 1 .. Len(inbox') : inbox'[k] = r \/ (k \in 1 .. Len(inbox) /\ inbox'[k] = inbox[k])
    BY <2>1, <2>r DEF DataTypes
  <2>5. NoInventedResult'
    BY <2>1, AnsweredLasts DEF NoInventedResult
  <2>6. QED
    BY <2>1, <2>3, <2>4, <2>5, GivenLasts
<1>13. CASE DeliverShort
  <2>1. UNCHANGED <<queue, rec, rxPc, wrPc, sent, db, dbOpen, answers>>
        /\ inbox' = Append(inbox, ShortDatagram)
    BY <1>13 DEF DeliverShort
  <2>2. \A k \in 1 .. Len(inbox') : inbox'[k] = ShortDatagram
                                    \/ (k \in 1 .. Len(inbox) /\ inbox'[k] = inbox[k])
    <3>1. ShortDatagram \in Records \cup {ShortDatagram}
      OBVIOUS
    <3>2. QED
      BY <2>1, <3>1 DEF DataTypes
  <2>3. QED
    BY <2>1, <2>2 DEF Given, NoInventedResult, Answered
<1>14. CASE RxLoop \/ RxTimeout
  <2>1. /\ UNCHANGED <<inbox, queue, rec, answers, sent, db, dbOpen, wrPc>>
        /\ rxPc' \in {"done", "loop", "recv"}
    BY <1>14 DEF RxLoop, RxTimeout
  <2>2. QED
    BY <1>0, <2>1
<1>15. CASE WriterLoop \/ Sigint \/ UNCHANGED vars
  <2>1. /\ UNCHANGED <<inbox, queue, rec, answers, sent, db, dbOpen, rxPc>>
        /\ wrPc' \in {wrPc, "pop", "done"}
    BY <1>15 DEF WriterLoop, Fifo!CallPop, Sigint, vars
  <2>2. QED
    BY <1>0, <2>1
<1>16. QED
  BY <1>1, <1>2, <1>3, <1>4, <1>5, <1>6, <1>7, <1>8, <1>9, <1>10, <1>11, <1>12,
     <1>13, <1>14, <1>15, StepCases

-----------------------------------------------------------------------------
(* The order of the responses *)

LEMMA OrderStart == Init => OrderInv
  BY DEF Init, OrderInv, Fifo!Init, LastResponseWins, InQueue, Ids

\* Nothing that is said of the order changes.
LEMMA OrderKept ==
    ASSUME OrderInv, UNCHANGED <<queue, rec, db, accepted, unwritten>>,
           (wrPc' = "update") <=> (wrPc = "update"),
           mainPc' \in Starting => mainPc \in Starting
    PROVE  OrderInv'
  BY DEF OrderInv, LastResponseWins, InQueue, InWriter

LEMMA OrderStep == DataTypes /\ ControlInv /\ OrderInv /\ Next => OrderInv'
<1> SUFFICES ASSUME DataTypes, ControlInv, OrderInv, Next PROVE OrderInv'
  OBVIOUS
<1> USE DEF generator, network, history, fifo, database, rx, wr
<1>1. CASE Quiet
  <2>1. /\ UNCHANGED <<queue, rec, db, accepted, unwritten>>
        /\ mainPc' \in Starting => mainPc \in Starting
        /\ wrPc' \in {wrPc, "loop"}
    BY <1>1, QuietLeaves DEF data
  <2>2. (wrPc' = "update") <=> (wrPc = "update")
    BY <1>1 DEF Quiet, Open, QueueInit, WriterStart, RxStart, FailWriterStop, FailJoin,
       Sleep, LeaveLoop, StopDelay, RxStop, RxJoin, QueueShutdown, WriterStop,
       WriterJoin, CloseSocket, DatabaseClose, ControlInv, Writing, Failing, Receiving,
       Looping
  <2>3. QED
    BY <2>1, <2>2, OrderKept
<1>2. CASE DatabaseOpen
  <2>1. /\ UNCHANGED <<queue, rec, accepted, unwritten, wrPc>>
        /\ \A i \in Ids : accepted[i] = "none"
    BY <1>2 DEF DatabaseOpen, Fifo!Close, OrderInv, Starting
  <2>2. QED
    BY <2>1 DEF OrderInv, LastResponseWins, InQueue, InWriter
<1>3. CASE GeneratorInit \/ BuildNext \/ SendCommand \/ PrintSummary
  <2>1. UNCHANGED <<queue, rec, db, accepted, unwritten, wrPc>> /\ mainPc' \notin Starting
    BY <1>3 DEF GeneratorInit, BuildNext, BuildWith, SendCommand, PrintSummary, Starting
  <2>2. QED
    BY <2>1, OrderKept
<1>4. CASE InsertCommand
  <2>1. UNCHANGED <<queue, rec, accepted, unwritten, wrPc>> /\ mainPc' \notin Starting
    BY <1>4 DEF InsertCommand, Starting
  <2>2. \A i \in Ids : db[i].status \in Verdicts <=> db'[i].status \in Verdicts
    BY <1>4 DEF InsertCommand, NoRow, Verdicts, DataTypes
  <2>3. \A i \in Ids : db[i].status \in Verdicts => db'[i] = db[i]
    BY <1>4 DEF InsertCommand, NoRow, Verdicts, DataTypes
  <2>4. QED
    BY <2>1, <2>2, <2>3 DEF OrderInv, LastResponseWins, InQueue, InWriter, Verdicts
<1>5. CASE RxPush
  <2>1. CASE Fifo!Put("rx")
    <3> DEFINE r == rec["rx"]
    <3>1. /\ queue' = Append(queue, r) /\ r \in Records
          /\ accepted' = [accepted EXCEPT ![r.test_id] = r.result]
          /\ UNCHANGED <<mainPc, wrPc, rec, db, unwritten>>
          /\ r.test_id \in Ids
      BY <1>5, <2>1 DEF RxPush, Fifo!Put, Fifo!Refuse, DataTypes, Records
    <3>2. /\ Len(queue) \in Nat /\ Len(queue') = Len(queue) + 1
          /\ queue'[Len(queue) + 1] = r
          /\ \A k \in 1 .. Len(queue) : queue'[k] = queue[k] /\ queue[k].test_id \in Ids
      <4>1. queue \in Seq(Records) /\ Len(queue) \in Nat
        BY DEF DataTypes
      <4>2. \A k \in 1 .. Len(queue) : queue[k] \in Records
        BY <4>1
      <4>3. \A k \in 1 .. Len(queue) : queue[k].test_id \in Ids
        BY <4>2 DEF Records
      <4>4. /\ Len(Append(queue, r)) = Len(queue) + 1
            /\ Append(queue, r)[Len(queue) + 1] = r
            /\ \A k \in 1 .. Len(queue) : Append(queue, r)[k] = queue[k]
        BY <3>1, <4>1
      <4>5. QED
        BY <3>1, <4>1, <4>3, <4>4
    <3>3. /\ \A i \in Ids \ {r.test_id} : accepted'[i] = accepted[i]
          /\ accepted'[r.test_id] = r.result
      BY <3>1 DEF DataTypes
    <3>4. /\ \A i \in Ids : i = r.test_id \/ InQueue(i) => InQueue(i)'
          /\ \A i \in Ids \ {r.test_id} : InQueue(i)' => InQueue(i)
      <4>1. Len(queue) + 1 \in 1 .. Len(queue')
        BY <3>2
      <4>2. \A k \in 1 .. Len(queue) : k \in 1 .. Len(queue')
        BY <3>2
      <4>3. \A k \in 1 .. Len(queue') : k \in 1 .. Len(queue) \/ queue'[k] = r
        BY <3>2
      <4>4. QED
        BY <3>2, <4>1, <4>2, <4>3 DEF InQueue
    <3>5. mainPc' \notin Starting
      BY <1>5, <3>1 DEF RxPush, ControlInv, Starting, Receiving, Looping
    <3>6. ASSUME NEW k \in 1 .. Len(queue'),
                 \A l \in k + 1 .. Len(queue') : queue'[l].test_id # queue'[k].test_id
          PROVE  accepted'[queue'[k].test_id] = queue'[k].result
      <4>1. CASE k = Len(queue) + 1
        BY <3>2, <3>3, <4>1
      <4>2. CASE k \in 1 .. Len(queue)
        <5>1. queue'[k].test_id # r.test_id
          BY <3>2, <3>6, <4>2
        <5>2. \A l \in k + 1 .. Len(queue) : queue[l].test_id # queue[k].test_id
          BY <3>2, <3>6, <4>2
        <5>3. accepted[queue[k].test_id] = queue[k].result
          BY <4>2, <5>2 DEF OrderInv
        <5>4. QED
          BY <3>2, <3>3, <4>2, <5>1, <5>3
      <4>3. QED
        BY <3>2, <3>6, <4>1, <4>2
    <3>7. ASSUME wrPc' = "update", ~InQueue(rec["writer"].test_id)'
          PROVE  accepted'[rec'["writer"].test_id] = rec'["writer"].result
      <4>1. rec["writer"].test_id \in Ids /\ wrPc = "update" /\ rec' = rec
        BY <3>1, <3>7 DEF DataTypes, Records
      <4>2. ~InQueue(rec["writer"].test_id)
        BY <3>4, <3>7, <4>1 DEF InQueue
      <4>3. rec["writer"].test_id # r.test_id
        BY <3>4, <3>7, <4>1 DEF InQueue
      <4>4. QED
        BY <3>3, <4>1, <4>2, <4>3 DEF OrderInv
    <3>8. ASSUME NEW i \in Ids
          PROVE  /\ InWriter(i)' <=> InWriter(i)
                 /\ db'[i] = db[i] /\ (i \in unwritten' <=> i \in unwritten)
      BY <3>1 DEF InWriter
    <3>9. LastResponseWins'
      <4> SUFFICES ASSUME NEW i \in Ids, db'[i].status \in {"PASSED", "FAILED"},
                          accepted'[i] # "none", ~InQueue(i)', ~InWriter(i)',
                          i \notin unwritten'
                   PROVE  db'[i].status = Verdict(accepted'[i])
        BY DEF LastResponseWins, Verdict
      <4>1. i # r.test_id
        BY <3>4
      <4>2. accepted'[i] = accepted[i] /\ ~InQueue(i) /\ ~InWriter(i)
        BY <3>3, <3>4, <3>8, <4>1
      <4>3. QED
        BY <3>8, <4>2 DEF OrderInv, LastResponseWins
    <3>10. ASSUME NEW i \in Ids, accepted'[i] # "none"
           PROVE  InQueue(i)' \/ InWriter(i)' \/ i \in unwritten'
                    \/ db'[i].status \in Verdicts
      <4>1. CASE i = r.test_id
        BY <3>4, <4>1
      <4>2. CASE i # r.test_id
        <5>1. InQueue(i) \/ InWriter(i) \/ i \in unwritten \/ db[i].status \in Verdicts
          BY <3>3, <3>10, <4>2 DEF OrderInv
        <5>2. QED
          BY <3>4, <3>8, <5>1
      <4>3. QED
        BY <4>1, <4>2
    <3>11. QED
      BY <3>5, <3>6, <3>7, <3>9, <3>10 DEF OrderInv
  <2>2. CASE Fifo!Refuse("rx") /\ UNCHANGED accepted
    <3>1. UNCHANGED <<queue, rec, db, accepted, unwritten, wrPc, mainPc>>
      BY <1>5, <2>2 DEF RxPush, Fifo!Refuse
    <3>2. QED
      BY <3>1, OrderKept
  <2>3. Fifo!Put("rx") \/ (Fifo!Refuse("rx") /\ UNCHANGED accepted)
    BY <1>5 DEF RxPush
  <2>4. QED
    BY <2>1, <2>2, <2>3
<1>6. CASE WriterPop
  <2>1. CASE Fifo!Take("writer") /\ wrPc' = "update"
    <3>1. /\ queue # <<>> /\ queue' = Tail(queue)
          /\ rec'["writer"] = queue[1]
          /\ wrPc = "pop"
          /\ UNCHANGED <<mainPc, accepted, db, unwritten>>
      BY <1>6, <2>1 DEF WriterPop, Fifo!Take, DataTypes
    <3>2. /\ Len(queue) \in Nat /\ Len(queue) # 0 /\ Len(queue') = Len(queue) - 1
          /\ \A k \in 1 .. Len(queue') : queue'[k] = queue[k + 1]
      BY <3>1 DEF DataTypes
    <3>3. \A i \in Ids : InQueue(i) <=> InQueue(i)' \/ queue[1].test_id = i
      <4>1. ASSUME NEW i \in Ids, NEW k \in 1 .. Len(queue), queue[k].test_id = i, k # 1
            PROVE  k - 1 \in 1 .. Len(queue') /\ queue'[k - 1].test_id = i
        BY <3>2, <4>1
      <4>2. ASSUME NEW i \in Ids, NEW k \in 1 .. Len(queue'), queue'[k].test_id = i
            PROVE  k + 1 \in 1 .. Len(queue) /\ queue[k + 1].test_id = i
        BY <3>2, <4>2
      <4>3. 1 \in 1 .. Len(queue)
        BY <3>2
      <4>4. QED
        BY <4>1, <4>2, <4>3 DEF InQueue
    <3>4. \A i \in Ids : /\ ~InWriter(i)
                         /\ InWriter(i)' <=> queue[1].test_id = i
      BY <2>1, <3>1 DEF InWriter
    <3>5. ASSUME NEW k \in 1 .. Len(queue'),
                 \A l \in k + 1 .. Len(queue') : queue'[l].test_id # queue'[k].test_id
          PROVE  accepted'[queue'[k].test_id] = queue'[k].result
      <4>1. k + 1 \in 1 .. Len(queue) /\ queue'[k] = queue[k + 1]
        BY <3>2
      <4>2. \A l \in k + 2 .. Len(queue) : queue[l].test_id # queue[k + 1].test_id
        <5>1. ASSUME NEW l \in k + 2 .. Len(queue)
              PROVE  queue[l].test_id # queue[k + 1].test_id
          <6>1. l - 1 \in k + 1 .. Len(queue') /\ l - 1 \in 1 .. Len(queue')
                /\ (l - 1) + 1 = l
            BY <3>2
          <6>2. QED
            BY <3>2, <3>5, <4>1, <6>1
        <5>2. QED
          BY <5>1
      <4>3. (k + 1) + 1 = k + 2
        OBVIOUS
      <4>4. accepted[queue[k + 1].test_id] = queue[k + 1].result
        BY <4>1, <4>2, <4>3 DEF OrderInv
      <4>5. QED
        BY <3>1, <4>1, <4>4
    <3>6. ASSUME NEW i \in Ids, i = queue[1].test_id, ~InQueue(i)'
          PROVE  accepted[i] = queue[1].result
      <4>1. \A l \in 1 + 1 .. Len(queue) : queue[l].test_id # queue[1].test_id
        <5>1. ASSUME NEW l \in 1 + 1 .. Len(queue)
              PROVE  queue[l].test_id # queue[1].test_id
          <6>1. l - 1 \in 1 .. Len(queue') /\ (l - 1) + 1 = l
            BY <3>2
          <6>2. queue'[l - 1].test_id # queue[1].test_id
            BY <3>1, <3>6, <6>1 DEF InQueue
          <6>3. QED
            BY <3>2, <6>1, <6>2
        <5>2. QED
          BY <5>1
      <4>2. 1 \in 1 .. Len(queue)
        BY <3>2
      <4>3. QED
        BY <3>6, <4>1, <4>2 DEF OrderInv
    <3>7. LastResponseWins'
      BY <3>1, <3>3, <3>4 DEF OrderInv, LastResponseWins
    <3>8. \A i \in Ids : accepted'[i] # "none" =>
              InQueue(i)' \/ InWriter(i)' \/ i \in unwritten' \/ db'[i].status \in Verdicts
      BY <3>1, <3>3, <3>4 DEF OrderInv
    <3>9. (wrPc = "update" /\ ~InQueue(rec["writer"].test_id)
            => accepted[rec["writer"].test_id] = rec["writer"].result)'
      <4>1. queue[1].test_id \in Ids
        <5>1. 1 \in 1 .. Len(queue) /\ queue \in Seq(Records)
          BY <3>2 DEF DataTypes
        <5>2. queue[1] \in Records
          BY <5>1
        <5>3. QED
          BY <5>2 DEF Records
      <4>2. PICK i \in Ids : i = queue[1].test_id
        BY <4>1
      <4>3. ~InQueue(i)' => accepted[i] = queue[1].result
        BY <3>6, <4>2
      <4>4. QED
        BY <3>1, <4>2, <4>3 DEF InQueue
    <3>10. mainPc' \in Starting => \A i \in Ids : accepted'[i] = "none"
      BY <3>1 DEF OrderInv
    <3>11. QED
      BY <3>5, <3>7, <3>8, <3>9, <3>10 DEF OrderInv
  <2>2. CASE Fifo!TakeNothing("writer") /\ wrPc' = "loop"
    <3>1. UNCHANGED <<queue, rec, db, accepted, unwritten, mainPc>> /\ wrPc = "pop"
      BY <1>6, <2>2 DEF WriterPop, Fifo!TakeNothing
    <3>2. QED
      BY <2>2, <3>1, OrderKept
  <2>3. (Fifo!Take("writer") /\ wrPc' = "update")
        \/ (Fifo!TakeNothing("writer") /\ wrPc' = "loop")
    BY <1>6 DEF WriterPop
  <2>4. QED
    BY <2>1, <2>2, <2>3
<1>7. CASE WriterUpdate
  <2> DEFINE id == rec["writer"].test_id
             res == rec["writer"].result
  <2>1. /\ UNCHANGED <<mainPc, queue, rec, accepted>> /\ wrPc = "update" /\ wrPc' = "loop"
        /\ id \in Ids /\ res \in Results
    BY <1>7 DEF WriterUpdate, WriterOnly, DataTypes, Records
  <2>2. \A i \in Ids : /\ ~InWriter(i)' /\ (InWriter(i) <=> i = id)
                       /\ InQueue(i)' <=> InQueue(i)
    BY <2>1 DEF InWriter, InQueue
  <2>3. ~InQueue(id) => accepted[id] = res
    BY <2>1 DEF OrderInv
  <2>4. \/ /\ db'[id].status = Verdict(res) /\ Verdict(res) \in Verdicts
           /\ \A i \in Ids \ {id} : db'[i] = db[i]
           /\ unwritten' = unwritten
        \/ unwritten' = unwritten \cup {id} /\ db' = db
    <3>1. CASE db[id] # NoRow /\ UpdateRow(id)
      <4>1. db[id] \in [status : {"PENDING"} \cup Verdicts, peripheral : Names]
        BY <2>1, <3>1, RowTypes DEF DataTypes
      <4>2. db'[id] = [db[id] EXCEPT !.status = Verdict(res)]
            /\ \A i \in Ids \ {id} : db'[i] = db[i]
        BY <2>1, <3>1 DEF UpdateRow, DataTypes
      <4>3. Verdict(res) \in Verdicts
        BY DEF Verdict, Verdicts
      <4>4. QED
        BY <3>1, <4>1, <4>2, <4>3 DEF UpdateRow
    <3>2. CASE UpdateNothing(id) \/ UpdateFails(id)
      BY <3>2 DEF UpdateNothing, UpdateFails
    <3>3. QED
      BY <1>7, <3>1, <3>2 DEF WriterUpdate
  <2>5. LastResponseWins'
    <3> SUFFICES ASSUME NEW i \in Ids, db'[i].status \in Verdicts,
                        accepted[i] # "none", ~InQueue(i), i \notin unwritten'
                 PROVE  db'[i].status = Verdict(accepted[i])
      BY <2>1, <2>2 DEF LastResponseWins, Verdicts
    <3>1. CASE i = id
      BY <2>3, <2>4, <3>1
    <3>2. CASE i # id
      BY <2>2, <2>4, <3>2 DEF OrderInv, LastResponseWins, Verdicts
    <3>3. QED
      BY <3>1, <3>2
  <2>6. \A i \in Ids : accepted'[i] # "none" =>
            InQueue(i)' \/ InWriter(i)' \/ i \in unwritten' \/ db'[i].status \in Verdicts
    BY <2>1, <2>2, <2>4 DEF OrderInv
  <2>7. QED
    BY <2>1, <2>5, <2>6 DEF OrderInv
<1>8. CASE RxReceive
  <2>1. UNCHANGED <<queue, db, accepted, unwritten, wrPc, mainPc>>
        /\ rec'["writer"] = rec["writer"]
    BY <1>8 DEF RxReceive, Fifo!CallPush, DataTypes
  <2>2. QED
    BY <2>1 DEF OrderInv, LastResponseWins, InQueue, InWriter
<1>9. CASE RxLoop \/ RxIgnore \/ RxTimeout \/ Sigint \/ DeliverShort \/ UNCHANGED vars
  <2>1. UNCHANGED <<queue, rec, db, accepted, unwritten, wrPc, mainPc>>
    BY <1>9 DEF RxLoop, RxIgnore, RxTimeout, Sigint, DeliverShort, vars
  <2>2. QED
    BY <2>1, OrderKept
<1>10. CASE WriterLoop
  <2>1. UNCHANGED <<queue, rec, db, accepted, unwritten, mainPc>>
        /\ wrPc = "loop" /\ wrPc' \in {"pop", "done"}
    BY <1>10 DEF WriterLoop, Fifo!CallPop
  <2>2. QED
    BY <2>1, OrderKept
<1>11. CASE \E c \in sent, result \in Results : Deliver(c, result)
  <2>1. UNCHANGED <<queue, rec, db, accepted, unwritten, wrPc, mainPc>>
    BY <1>11 DEF Deliver
  <2>2. QED
    BY <2>1, OrderKept
<1>12. CASE \E i \in Ids, result \in Results : DeliverStale(i, result)
  <2>1. UNCHANGED <<queue, rec, db, accepted, unwritten, wrPc, mainPc>>
    BY <1>12 DEF DeliverStale
  <2>2. QED
    BY <2>1, OrderKept
<1>13. QED
  BY <1>1, <1>2, <1>3, <1>4, <1>5, <1>6, <1>7, <1>8, <1>9, <1>10, <1>11, <1>12,
     StepCases
-----------------------------------------------------------------------------
(* The summary *)

LEMMA SummaryStart == Init => SummaryInv
  BY DEF Init, SummaryInv

\* Nobody writes to the table once the summary has been printed.
LEMMA SummaryStep == DataTypes /\ ControlInv /\ SummaryInv /\ Next => SummaryInv'
<1> SUFFICES ASSUME DataTypes, ControlInv, SummaryInv, Next PROVE SummaryInv'
  OBVIOUS
<1> USE DEF generator, network, history, fifo, database, rx, wr
<1>0. ASSUME UNCHANGED <<summary, db>>,
             mainPc \in {"db_close", "exit_success"}
               => mainPc' \in {"db_close", "exit_success"}
      PROVE  SummaryInv'
  BY <1>0 DEF SummaryInv, Totals, RowsWith
<1>1. CASE Quiet
  BY <1>0, <1>1, QuietLeaves DEF data
<1>2. CASE DatabaseOpen \/ GeneratorInit \/ BuildNext \/ SendCommand \/ InsertCommand
  <2>1. UNCHANGED summary /\ mainPc \notin {"db_close", "exit_success"}
    BY <1>2 DEF DatabaseOpen, GeneratorInit, BuildNext, BuildWith, SendCommand,
       InsertCommand
  <2>2. QED
    BY <2>1 DEF SummaryInv
<1>3. CASE PrintSummary
  <2>1. UNCHANGED db /\ mainPc = "summary" /\ mainPc' = "db_close"
        /\ summary' \in {summary, {Totals}}
    BY <1>3 DEF PrintSummary
  <2>2. Totals' = Totals
    BY <2>1 DEF Totals, RowsWith
  <2>3. QED
    BY <2>1, <2>2 DEF SummaryInv
<1>4. CASE WriterUpdate
  <2>1. UNCHANGED summary /\ mainPc \notin {"db_close", "exit_success"}
    BY <1>4 DEF WriterUpdate, WriterOnly, ControlInv, Writing, Failing, Receiving, Looping
  <2>2. QED
    BY <2>1 DEF SummaryInv
<1>5. CASE RxLoop \/ RxReceive \/ RxIgnore \/ RxTimeout \/ RxPush
  <2>1. UNCHANGED <<summary, db, mainPc>>
    BY <1>5 DEF RxLoop, RxReceive, RxIgnore, RxTimeout, RxPush
  <2>2. QED
    BY <1>0, <2>1
<1>6. CASE WriterLoop \/ WriterPop \/ Sigint \/ DeliverShort \/ UNCHANGED vars
  <2>1. UNCHANGED <<summary, db, mainPc>>
    BY <1>6 DEF WriterLoop, WriterPop, Sigint, DeliverShort, vars
  <2>2. QED
    BY <1>0, <2>1
<1>7. CASE \/ \E c \in sent, result \in Results : Deliver(c, result)
           \/ \E i \in Ids, result \in Results : DeliverStale(i, result)
  <2>1. UNCHANGED <<summary, db, mainPc>>
    BY <1>7 DEF Deliver, DeliverStale
  <2>2. QED
    BY <1>0, <2>1
<1>8. QED
  BY <1>1, <1>2, <1>3, <1>4, <1>5, <1>6, <1>7, StepCases

LEMMA DisjointSum ==
    ASSUME NEW S, NEW T, IsFiniteSet(S), IsFiniteSet(T), S \cap T = {}
    PROVE  Cardinality(S \cup T) = Cardinality(S) + Cardinality(T)
<1>1. Cardinality(S \cup T) = Cardinality(S) + Cardinality(T) - Cardinality(S \cap T)
  BY FS_Union
<1>2. Cardinality(S \cap T) = 0
  BY FS_EmptySet
<1>3. Cardinality(S) \in Nat /\ Cardinality(T) \in Nat
  BY FS_CardinalityType
<1>4. QED
  BY <1>1, <1>2, <1>3

\* The rows of the table are those that passed, failed or are pending.
LEMMA TotalsAdd ==
    ASSUME DataTypes PROVE Totals.total = Totals.passed + Totals.failed + Totals.pending
<1> DEFINE All == {i \in Ids : db[i] # NoRow}
           P == RowsWith("PASSED")
           F == RowsWith("FAILED")
           W == RowsWith("PENDING")
<1>1. IsFiniteSet(Ids)
  BY Constants, FS_Interval DEF Ids
<1>2. IsFiniteSet(P) /\ IsFiniteSet(F) /\ IsFiniteSet(W) /\ IsFiniteSet(P \cup F)
  BY <1>1, FS_Subset, FS_Union DEF RowsWith
<1>3. All = (P \cup F) \cup W
  BY RowTypes DEF DataTypes, RowsWith, Verdicts
<1>4. P \cap F = {} /\ (P \cup F) \cap W = {}
  BY DEF RowsWith
<1> HIDE DEF All, P, F, W
<1>5. Cardinality(P \cup F) = Cardinality(P) + Cardinality(F)
  BY <1>2, <1>4, DisjointSum
<1>6. Cardinality(All) = Cardinality(P \cup F) + Cardinality(W)
  BY <1>2, <1>3, <1>4, DisjointSum
<1>7. QED
  BY <1>5, <1>6 DEF Totals, All, P, F, W
-----------------------------------------------------------------------------
LEMMA Invariant == Spec => []Inv
<1>1. Init => Inv
  BY ControlStart, DataStart, IdStart, OriginStart, OrderStart, SummaryStart DEF Inv
<1>2. Inv /\ [Next]_vars => Inv'
  <2>1. Inv /\ Next => Inv'
    BY ControlStep, DataStep, IdStep, OriginStep, OrderStep, SummaryStep DEF Inv
  <2>2. Inv /\ UNCHANGED vars => Inv'
    <3> SUFFICES ASSUME Inv, UNCHANGED vars PROVE Inv'
      OBVIOUS
    <3> USE DEF vars, generator, network, history, fifo, database, rx, wr
    <3>1. DataTypes' /\ ControlInv' /\ IdInv'
      BY DEF Inv, DataTypes, ControlInv, IdInv, UniqueIds
    <3>2. OriginInv'
      BY DEF Inv, OriginInv, Given, NoInventedResult, Answered
    <3>3. OrderInv' /\ SummaryInv'
      BY DEF Inv, OrderInv, LastResponseWins, InQueue, InWriter, SummaryInv, Totals,
         RowsWith
    <3>4. QED
      BY <3>1, <3>2, <3>3 DEF Inv
  <2>3. QED
    BY <2>1, <2>2
<1>3. QED
  BY <1>1, <1>2, PTL DEF Spec

\* The variables of the server keep their types: the indexes stay within the
\* tables and the queue within its capacity.
THEOREM TypeCorrect == Spec => []TypeOK
<1>1. Inv => TypeOK
  <2> SUFFICES ASSUME Inv PROVE TypeOK
    OBVIOUS
  <2>1. \A i \in Ids : db[i].status \in {"absent", "PENDING", "PASSED", "FAILED"}
    BY RowTypes DEF Inv, DataTypes, Verdicts
  <2>2. QED
    BY <2>1 DEF Inv, DataTypes, ControlInv, TypeOK
<1>2. QED
  BY <1>1, Invariant, PTL

\* No thread uses the database or the socket before main has opened it or after
\* it has closed it, whatever fails.
THEOREM HandlesAreOpen == Spec => []HandlesOpen
<1>1. Inv => HandlesOpen
  BY DEF Inv, ControlInv, HandlesOpen, DbOpened, Writing, Failing, Receiving, Looping
<1>2. QED
  BY <1>1, Invariant, PTL

\* No two commands of a process have the same identifier.
THEOREM IdsAreUnique == Spec => []UniqueIds
<1>1. Inv => UniqueIds
  BY DEF Inv, IdInv
<1>2. QED
  BY <1>1, Invariant, PTL

\* A verdict in the table is one the target has given, and its row describes
\* the command that was sent.
THEOREM NothingInvented == Spec => []NoInventedResult
<1>1. Inv => NoInventedResult
  BY DEF Inv, OriginInv
<1>2. QED
  BY <1>1, Invariant, PTL

\* Of several responses to a test the table ends up with the last one received.
THEOREM LastWins == Spec => []LastResponseWins
<1>1. Inv => LastResponseWins
  BY DEF Inv, OrderInv
<1>2. QED
  BY <1>1, Invariant, PTL

\* A queued response is lost only when it found no row, its UPDATE failed, or
\* the writer was stopped with the response still in the queue.
THEOREM LossesExplained == Spec => []PendingExplained
<1>1. Inv => PendingExplained
  <2> SUFFICES ASSUME Inv, mainPc = "exit_success", NEW i \in Ids,
                      db[i].status = "PENDING", accepted[i] # "none"
               PROVE  i \in unwritten \/ InQueue(i)
    BY DEF PendingExplained
  <2>1. ~InWriter(i)
    BY DEF Inv, ControlInv, InWriter, Writing, Failing, Receiving, Looping
  <2>2. QED
    BY <2>1 DEF Inv, OrderInv, Verdicts
<1>2. QED
  BY <1>1, Invariant, PTL

\* The totals that were printed are those of the final table, and they add up.
THEOREM SummaryCorrect == Spec => []SummaryIsFinal
<1>1. Inv => SummaryIsFinal
  BY TotalsAdd DEF Inv, SummaryInv, SummaryIsFinal
<1>2. QED
  BY <1>1, Invariant, PTL
-----------------------------------------------------------------------------
(* Start-up and shutdown *)

\* The phases in which the receive thread has not been started.
BeforeReceiver == Starting \cup Failing \cup {"rx_start"}

\* Which threads exist and which have been told to stop at each place of main;
\* until the receive thread is started the queue is empty and open.
PhaseInv ==
    /\ mainPc \in BeforeReceiver => queue = <<>> /\ ~closed /\ rxPc = "none"
    /\ mainPc \in Receiving => rxPc # "none"
    /\ mainPc \in Writing => wrPc # "none"
    /\ mainPc \in {"writer_stop", "writer_join"} => closed
    /\ mainPc = "rx_join" => ~rx_running
    /\ mainPc \in {"writer_join", "fail_join"} => ~wr_running

LEMMA PhaseStart == Init => PhaseInv
  BY DEF Init, PhaseInv, BeforeReceiver, Starting, Failing, Receiving, Writing, Looping,
         Fifo!Init

LEMMA PhaseStep == ControlInv /\ PhaseInv /\ Next => PhaseInv'
<1> SUFFICES ASSUME ControlInv, PhaseInv, Next PROVE PhaseInv'
  OBVIOUS
<1> USE DEF PhaseInv, BeforeReceiver, Starting, Failing, Receiving, Writing, Looping,
            rx, wr, fifo, Fifo!Close
<1>1. CASE MainStep
  <2>1. CASE Open \/ QueueInit \/ WriterStart \/ RxStart
    BY <2>1 DEF Open, QueueInit, WriterStart, RxStart
  <2>2. CASE DatabaseOpen
    BY <2>2 DEF DatabaseOpen
  <2>3. CASE FailWriterStop \/ FailJoin \/ GeneratorInit
    BY <2>3 DEF FailWriterStop, FailJoin, GeneratorInit
  <2>4. CASE BuildNext \/ SendCommand \/ InsertCommand \/ Sleep \/ LeaveLoop \/ StopDelay
    BY <2>4 DEF BuildNext, BuildWith, SendCommand, InsertCommand, Sleep, LeaveLoop,
       StopDelay
  <2>5. CASE RxStop \/ RxJoin
    BY <2>5 DEF RxStop, RxJoin, ControlInv
  <2>6. CASE QueueShutdown \/ WriterStop \/ WriterJoin
    BY <2>6 DEF QueueShutdown, WriterStop, WriterJoin
  <2>7. CASE CloseSocket \/ PrintSummary \/ DatabaseClose
    BY <2>7 DEF CloseSocket, PrintSummary, DatabaseClose
  <2>8. QED
    BY <1>1, <2>1, <2>2, <2>3, <2>4, <2>5, <2>6, <2>7 DEF MainStep
<1>2. CASE RxStep
  <2>1. rxPc # "none" /\ rxPc' # "none" /\ mainPc \in Receiving
        /\ UNCHANGED <<mainPc, wr, rx_running, closed>>
    BY <1>2 DEF RxStep, RxLoop, RxReceive, RxIgnore, RxTimeout, RxPush, Fifo!CallPush,
       Fifo!Put, Fifo!Refuse, ControlInv
  <2>2. QED
    BY <2>1
<1>3. CASE WriterStep
  <2>1. wrPc' # "none" /\ UNCHANGED <<mainPc, rx, wr_running, closed>>
    BY <1>3 DEF WriterStep, WriterLoop, WriterPop, WriterUpdate, WriterOnly,
       Fifo!CallPop, Fifo!Take, Fifo!TakeNothing
  <2>2. queue = <<>> => queue' = <<>>
    BY <1>3 DEF WriterStep, WriterLoop, WriterPop, WriterUpdate, WriterOnly,
       Fifo!CallPop, Fifo!Take, Fifo!TakeNothing
  <2>3. QED
    BY <2>1, <2>2
<1>4. CASE Environment \/ Finished
  <2>1. UNCHANGED <<mainPc, rx, wr, fifo>>
    BY <1>4 DEF Environment, Sigint, Deliver, DeliverShort, DeliverStale, Finished, vars
  <2>2. QED
    BY <2>1
<1>5. QED
  BY <1>1, <1>2, <1>3, <1>4 DEF Next

LEMMA Phases == Spec => []PhaseInv
<1>1. Inv /\ PhaseInv /\ [Next]_vars => PhaseInv'
  <2>1. CASE Next
    BY <2>1, PhaseStep DEF Inv
  <2>2. CASE UNCHANGED vars
    BY <2>2 DEF vars, fifo, rx, wr, PhaseInv
  <2>3. QED
    BY <2>1, <2>2
<1>2. QED
  BY <1>1, PhaseStart, Invariant, PTL DEF Spec

\* The start-up has failed, main waits for the writer, and the writer waits in
\* response_queue_pop.
Stuck == mainPc = "fail_join" /\ wrPc = "pop"

\* A failed start of the receive thread hangs for good when it finds the writer
\* in response_queue_pop: main shuts the queue down only after the join.
THEOREM FailedStartHangs == Spec => [](Stuck => []Stuck)
<1>1. Inv /\ PhaseInv /\ Stuck /\ [Next]_vars => Stuck'
  <2> SUFFICES ASSUME Inv, PhaseInv, Stuck, [Next]_vars PROVE Stuck'
    OBVIOUS
  <2>1. queue = <<>> /\ ~closed /\ rxPc = "none"
    BY DEF PhaseInv, Stuck, BeforeReceiver, Failing
  <2>2. ~MainStep
    BY DEF Stuck, MainStep, Open, QueueInit, DatabaseOpen, WriterStart, RxStart,
       FailWriterStop, FailJoin, GeneratorInit, BuildNext, BuildWith, SendCommand,
       InsertCommand, Sleep, LeaveLoop, StopDelay, RxStop, RxJoin, QueueShutdown,
       WriterStop, WriterJoin, CloseSocket, PrintSummary, DatabaseClose
  <2>3. ~RxStep
    BY <2>1 DEF RxStep, RxLoop, RxReceive, RxIgnore, RxTimeout, RxPush
  <2>4. ~WriterStep
    BY <2>1 DEF Stuck, WriterStep, WriterLoop, WriterPop, WriterUpdate, Fifo!Take,
       Fifo!TakeNothing
  <2>5. CASE Environment \/ Finished \/ UNCHANGED vars
    BY <2>5 DEF Stuck, Environment, Sigint, Deliver, DeliverShort, DeliverStale, Finished,
       vars, wr
  <2>6. QED
    BY <2>2, <2>3, <2>4, <2>5 DEF Next
<1>2. QED
  BY <1>1, Invariant, Phases, PTL DEF Spec

\* The steps main has left from each of its places once app_running is cleared.
MainLeft(place) ==
    CASE place \in Exits -> 0
      [] place \in {"db_close", "fail_join"} -> 1
      [] place = "summary" -> 2
      [] place = "close" -> 3
      [] place = "writer_join" -> 4
      [] place = "writer_stop" -> 5
      [] place = "queue_shutdown" -> 6
      [] place = "rx_join" -> 7
      [] place = "rx_stop" -> 8
      [] place = "stop_delay" -> 9
      [] place = "loop" -> 10
      [] place \in {"sleep", "generator_init"} -> 11
      [] place \in {"insert", "fail_writer_stop"} -> 12
      [] place \in {"send", "rx_start"} -> 13
      [] place = "writer_start" -> 14
      [] place = "db_open" -> 15
      [] place = "queue_init" -> 16
      [] place = "open" -> 17

\* The steps a thread that has been told to stop has left.
ThreadLeft(place) == CASE place \in {"recv", "pop"} -> 3
                       [] place \in {"push", "update"} -> 2
                       [] place = "loop" -> 1
                       [] place \in {"none", "done"} -> 0

\* The thread that main is waiting for has these steps left.
WriterJoins == {"writer_join", "fail_join"}
JoinLeft(place, receiver, writer) ==
    IF place = "rx_join" THEN ThreadLeft(receiver)
    ELSE IF place \in WriterJoins THEN ThreadLeft(writer) ELSE 0

ShutdownLeft == 4 * MainLeft(mainPc) + JoinLeft(mainPc, rxPc, wrPc)

\* After Ctrl+C no step undoes what the shutdown has achieved, and every step of
\* main and of the thread it joins brings the end nearer.
ShutdownIsBounded ==
    [][~app_running => /\ ~app_running'
                       /\ ShutdownLeft' <= ShutdownLeft
                       /\ \/ MainStep
                          \/ mainPc = "rx_join" /\ RxStep
                          \/ mainPc \in WriterJoins /\ WriterStep
                          => ShutdownLeft' < ShutdownLeft]_vars

\* A thread that main joins exists and has been told to stop, and, except after
\* a failed start, the queue no longer holds the writer.
JoinsCanEnd ==
    /\ mainPc = "rx_join" => rxPc # "none" /\ ~rx_running
    /\ mainPc = "writer_join" => wrPc # "none" /\ ~wr_running /\ closed

LEMMA MainLeftValues ==
    /\ MainLeft("exit_success") = 0 /\ MainLeft("exit_failure") = 0
    /\ MainLeft("db_close") = 1 /\ MainLeft("fail_join") = 1
    /\ MainLeft("summary") = 2 /\ MainLeft("close") = 3
    /\ MainLeft("writer_join") = 4 /\ MainLeft("writer_stop") = 5
    /\ MainLeft("queue_shutdown") = 6 /\ MainLeft("rx_join") = 7
    /\ MainLeft("rx_stop") = 8 /\ MainLeft("stop_delay") = 9
    /\ MainLeft("loop") = 10 /\ MainLeft("sleep") = 11
    /\ MainLeft("generator_init") = 11 /\ MainLeft("insert") = 12
    /\ MainLeft("fail_writer_stop") = 12 /\ MainLeft("send") = 13
    /\ MainLeft("rx_start") = 13 /\ MainLeft("writer_start") = 14
    /\ MainLeft("db_open") = 15 /\ MainLeft("queue_init") = 16
    /\ MainLeft("open") = 17
  BY DEF MainLeft, Exits

LEMMA ThreadLeftValues ==
    /\ ThreadLeft("recv") = 3 /\ ThreadLeft("pop") = 3
    /\ ThreadLeft("push") = 2 /\ ThreadLeft("update") = 2
    /\ ThreadLeft("loop") = 1
    /\ ThreadLeft("none") = 0 /\ ThreadLeft("done") = 0
  BY DEF ThreadLeft

LEMMA MainLeftTyped == ControlInv => MainLeft(mainPc) \in Nat
  BY MainLeftValues DEF ControlInv, MainPcs, Starting, DbOpened, Writing, Receiving,
     Looping, Failing, Exits

LEMMA JoinLeftTyped ==
    ControlInv => JoinLeft(mainPc, rxPc, wrPc) \in Nat /\ JoinLeft(mainPc, rxPc, wrPc) < 4
  BY ThreadLeftValues DEF ControlInv, JoinLeft

\* One step of main outweighs what the thread it then waits for has left.
LEMMA Outweighs ==
    ASSUME NEW a \in Nat, NEW b \in Nat, NEW j \in Nat, NEW k \in Nat, b < a, k < 4
    PROVE  4 * b + k < 4 * a + j
  OBVIOUS

\* Every step of main after Ctrl+C is a step of the shutdown.
LEMMA MainStepCounts ==
    ControlInv /\ MainStep /\ ~app_running
      => ~app_running' /\ MainLeft(mainPc') < MainLeft(mainPc)
<1> SUFFICES ASSUME ControlInv, MainStep, ~app_running
             PROVE  ~app_running' /\ MainLeft(mainPc') < MainLeft(mainPc)
  OBVIOUS
<1> USE MainLeftValues
<1>1. CASE Open \/ QueueInit \/ WriterStart \/ RxStart
  BY <1>1 DEF Open, QueueInit, WriterStart, RxStart
<1>2. CASE DatabaseOpen
  BY <1>2 DEF DatabaseOpen
<1>3. CASE FailWriterStop \/ FailJoin \/ GeneratorInit
  BY <1>3 DEF FailWriterStop, FailJoin, GeneratorInit
<1>4. CASE SendCommand \/ InsertCommand \/ Sleep \/ LeaveLoop \/ StopDelay
  BY <1>4 DEF SendCommand, InsertCommand, Sleep, LeaveLoop, StopDelay
<1>5. CASE RxStop \/ RxJoin \/ QueueShutdown \/ WriterStop \/ WriterJoin
  BY <1>5 DEF RxStop, RxJoin, QueueShutdown, WriterStop, WriterJoin
<1>6. CASE CloseSocket \/ PrintSummary \/ DatabaseClose
  BY <1>6 DEF CloseSocket, PrintSummary, DatabaseClose
<1>7. ~BuildNext
  BY DEF BuildNext, BuildWith
<1>8. QED
  BY <1>1, <1>2, <1>3, <1>4, <1>5, <1>6, <1>7 DEF MainStep

\* So is every step of the receive thread while main joins it ...
LEMMA ReceiverStepCounts ==
    RxStep => /\ UNCHANGED <<mainPc, wrPc, app_running>>
              /\ mainPc = "rx_join" /\ ~rx_running => ThreadLeft(rxPc') < ThreadLeft(rxPc)
  BY ThreadLeftValues DEF RxStep, RxLoop, RxReceive, RxIgnore, RxTimeout, RxPush, rx, wr

\* ... and of the writer while main joins that.
LEMMA WriterStepCounts ==
    WriterStep => /\ UNCHANGED <<mainPc, rxPc, app_running>>
                  /\ mainPc \in WriterJoins /\ ~wr_running
                       => ThreadLeft(wrPc') < ThreadLeft(wrPc)
  BY ThreadLeftValues DEF WriterStep, WriterLoop, WriterPop, WriterUpdate, WriterOnly, rx

\* After Ctrl+C the application ends within ShutdownLeft steps of main and of
\* the threads it joins, whatever the other threads and the network do; only
\* the join of a failed start can keep it waiting.
THEOREM ShutdownEnds ==
    Spec => [](ShutdownLeft \in Nat) /\ []JoinsCanEnd /\ ShutdownIsBounded
<1> DEFINE j == JoinLeft(mainPc, rxPc, wrPc)
           m == MainLeft(mainPc)
<1>1. Inv => m \in Nat /\ j \in Nat /\ j < 4
  BY MainLeftTyped, JoinLeftTyped DEF Inv
<1>2. Inv => ShutdownLeft \in Nat
  BY <1>1 DEF ShutdownLeft
<1>3. PhaseInv => JoinsCanEnd
  BY DEF PhaseInv, JoinsCanEnd, Receiving, Writing
<1>4. ASSUME Inv, Inv', PhaseInv, Next, ~app_running
      PROVE  /\ ~app_running'
             /\ ShutdownLeft' <= ShutdownLeft
             /\ \/ MainStep
                \/ mainPc = "rx_join" /\ RxStep
                \/ mainPc \in WriterJoins /\ WriterStep
                => ShutdownLeft' < ShutdownLeft
  <2>1. /\ MainLeft(mainPc) \in Nat
        /\ JoinLeft(mainPc, rxPc, wrPc) \in Nat
        /\ JoinLeft(mainPc, rxPc, wrPc) < 4
        /\ ShutdownLeft \in Nat
    BY <1>1, <1>2, <1>4
  <2>2. /\ MainLeft(mainPc') \in Nat
        /\ JoinLeft(mainPc', rxPc', wrPc') \in Nat
        /\ JoinLeft(mainPc', rxPc', wrPc') < 4
    <3>1. (Inv => m \in Nat /\ j \in Nat /\ j < 4)'
      BY <1>1, PTL
    <3>2. QED
      BY <1>4, <3>1
  <2>3. /\ ShutdownLeft = 4 * MainLeft(mainPc) + JoinLeft(mainPc, rxPc, wrPc)
        /\ ShutdownLeft' = 4 * MainLeft(mainPc') + JoinLeft(mainPc', rxPc', wrPc')
    BY DEF ShutdownLeft
  <2>4. ShutdownLeft' \in Nat
    BY <2>2, <2>3
  <2>5. CASE MainStep
    <3>1. ~app_running' /\ MainLeft(mainPc') < MainLeft(mainPc)
      BY <1>4, <2>5, MainStepCounts DEF Inv
    <3>2. ShutdownLeft' < ShutdownLeft
      BY <2>1, <2>2, <2>3, <3>1, Outweighs
    <3>3. ShutdownLeft' <= ShutdownLeft
      BY <2>1, <2>4, <3>2
    <3>4. QED
      BY <3>1, <3>2, <3>3
  <2>6. ASSUME mainPc = "rx_join", RxStep PROVE ShutdownLeft' < ShutdownLeft
    <3>1. UNCHANGED <<mainPc, wrPc>> /\ ThreadLeft(rxPc') < ThreadLeft(rxPc)
      BY <1>4, <2>6, ReceiverStepCounts DEF PhaseInv
    <3>2. JoinLeft(mainPc', rxPc', wrPc') < JoinLeft(mainPc, rxPc, wrPc)
      BY <2>6, <3>1 DEF JoinLeft
    <3>3. QED
      BY <2>1, <2>2, <2>3, <3>1, <3>2
  <2>7. ASSUME mainPc \in WriterJoins, WriterStep PROVE ShutdownLeft' < ShutdownLeft
    <3>1. UNCHANGED <<mainPc, rxPc>> /\ ThreadLeft(wrPc') < ThreadLeft(wrPc)
      BY <1>4, <2>7, WriterStepCounts DEF PhaseInv, WriterJoins
    <3>2. JoinLeft(mainPc', rxPc', wrPc') < JoinLeft(mainPc, rxPc, wrPc)
      BY <2>7, <3>1 DEF JoinLeft, WriterJoins
    <3>3. QED
      BY <2>1, <2>2, <2>3, <3>1, <3>2
  <2>8. CASE RxStep
    <3>1. UNCHANGED <<mainPc, wrPc, app_running>>
      BY <2>8, ReceiverStepCounts
    <3>2. mainPc # "rx_join" => ShutdownLeft' = ShutdownLeft
      BY <2>3, <3>1 DEF JoinLeft
    <3>3. ShutdownLeft' <= ShutdownLeft
      BY <2>1, <2>4, <2>6, <2>8, <3>2
    <3>4. QED
      BY <1>4, <2>5, <2>6, <2>7, <3>1, <3>3
  <2>9. CASE WriterStep
    <3>1. UNCHANGED <<mainPc, rxPc, app_running>>
      BY <2>9, WriterStepCounts
    <3>2. mainPc \notin WriterJoins => ShutdownLeft' = ShutdownLeft
      BY <2>3, <3>1 DEF JoinLeft
    <3>3. ShutdownLeft' <= ShutdownLeft
      BY <2>1, <2>4, <2>7, <2>9, <3>2
    <3>4. QED
      BY <1>4, <2>5, <2>6, <2>7, <3>1, <3>3
  <2>10. CASE Environment \/ Finished
    <3>1. UNCHANGED <<mainPc, rxPc, wrPc>> /\ ~app_running'
      <4>1. CASE Sigint \/ DeliverShort \/ Finished
        BY <1>4, <4>1 DEF Sigint, DeliverShort, Finished, vars, rx, wr
      <4>2. CASE \E c \in sent, result \in Results : Deliver(c, result)
        BY <1>4, <4>2 DEF Deliver, rx, wr
      <4>3. CASE \E i \in Ids, result \in Results : DeliverStale(i, result)
        BY <1>4, <4>3 DEF DeliverStale, rx, wr
      <4>4. QED
        BY <2>10, <4>1, <4>2, <4>3 DEF Environment
    <3>2. ShutdownLeft' <= ShutdownLeft
      BY <2>1, <2>3, <3>1
    <3>3. QED
      BY <2>5, <2>6, <2>7, <3>1, <3>2
  <2>11. QED
    BY <1>4, <2>5, <2>8, <2>9, <2>10 DEF Next
<1>5. Inv /\ Inv' /\ PhaseInv /\ [Next]_vars
        => [~app_running => /\ ~app_running'
                            /\ ShutdownLeft' <= ShutdownLeft
                            /\ \/ MainStep
                               \/ mainPc = "rx_join" /\ RxStep
                               \/ mainPc \in WriterJoins /\ WriterStep
                               => ShutdownLeft' < ShutdownLeft]_vars
  BY <1>4
<1>6. QED
  BY <1>2, <1>3, <1>5, Invariant, Phases, PTL DEF Spec, ShutdownIsBounded
-----------------------------------------------------------------------------
(* The two claims that fail, and what they depend on *)

\* An answer is to a command that was sent, unless it is to the process before.
AnswerInv ==
    /\ \A a \in answers : a.own => \E c \in sent : c.test_id = a.test_id
    /\ \A a \in answers : a.own \/ MayFail("stale")

\* A command that was sent has a row, unless main is still about to insert it
\* or its INSERT has failed.
SentIsInserted ==
    \A c \in sent : \/ db[c.test_id] # NoRow
                    \/ mainPc = "insert" /\ command.test_id = c.test_id
                    \/ MayFail("insert")

LEMMA CausesStart == Init => AnswerInv /\ SentIsInserted
  BY DEF Init, AnswerInv, SentIsInserted

\* The steps that neither send, insert, write nor answer.
LEMMA OtherSteps ==
    ASSUME Next
    PROVE  \/ DatabaseOpen \/ SendCommand \/ InsertCommand \/ WriterUpdate
           \/ \E c \in sent, result \in Results : Deliver(c, result)
           \/ \E i \in Ids, result \in Results : DeliverStale(i, result)
           \/ /\ UNCHANGED <<sent, answers, db, unwritten>>
              /\ mainPc = "insert" => mainPc' = "insert" /\ UNCHANGED command
<1> USE DEF generator, network, history, fifo, database, rx, wr
<1>1. CASE Quiet
  <2>1. mainPc # "insert"
    BY <1>1 DEF Quiet, Open, QueueInit, WriterStart, RxStart, FailWriterStop, FailJoin,
       Sleep, LeaveLoop, StopDelay, RxStop, RxJoin, QueueShutdown, WriterStop,
       WriterJoin, CloseSocket, DatabaseClose
  <2>2. QED
    BY <1>1, <2>1, QuietLeaves DEF data
<1>2. CASE GeneratorInit \/ BuildNext \/ PrintSummary
  BY <1>2 DEF GeneratorInit, BuildNext, BuildWith, PrintSummary
<1>3. CASE RxLoop \/ RxReceive \/ RxIgnore \/ RxTimeout \/ RxPush
  BY <1>3 DEF RxLoop, RxReceive, RxIgnore, RxTimeout, RxPush
<1>4. CASE WriterLoop \/ WriterPop \/ Sigint \/ DeliverShort \/ UNCHANGED vars
  BY <1>4 DEF WriterLoop, WriterPop, Sigint, DeliverShort, vars
<1>5. QED
  BY <1>1, <1>2, <1>3, <1>4, StepCases

LEMMA AnswerStep == IdInv /\ AnswerInv /\ Next => AnswerInv'
<1> SUFFICES ASSUME IdInv, AnswerInv, Next PROVE AnswerInv'
  OBVIOUS
<1> USE DEF AnswerInv, network, MayFail
<1>1. CASE DatabaseOpen \/ InsertCommand \/ WriterUpdate
  BY <1>1 DEF DatabaseOpen, InsertCommand, WriterUpdate, WriterOnly
<1>2. CASE SendCommand
  <2>1. UNCHANGED answers /\ sent \subseteq sent'
    BY <1>2 DEF SendCommand
  <2>2. QED
    BY <2>1
<1>3. ASSUME NEW c \in sent, NEW result \in Results, Deliver(c, result)
      PROVE  AnswerInv'
  BY <1>3 DEF Deliver
<1>4. ASSUME NEW i \in Ids, NEW result \in Results, DeliverStale(i, result)
      PROVE  AnswerInv'
  BY <1>4 DEF DeliverStale
<1>5. QED
  BY <1>1, <1>2, <1>3, <1>4, OtherSteps

\* The writer never removes a row.
LEMMA WriterKeepsRows ==
    DataTypes /\ WriterUpdate => \A i \in Ids : db[i] # NoRow => db'[i] # NoRow
<1> SUFFICES ASSUME DataTypes, WriterUpdate, NEW i \in Ids, db[i] # NoRow
             PROVE  db'[i] # NoRow
  OBVIOUS
<1> DEFINE id == rec["writer"].test_id
<1>1. CASE db[id] # NoRow /\ UpdateRow(id)
  <2>1. id \in Ids
    BY DEF WriterUpdate, DataTypes, Records
  <2>2. db[id] \in [status : {"PENDING"} \cup Verdicts, peripheral : Names]
    BY <1>1, <2>1, RowTypes DEF DataTypes
  <2>3. db' = [db EXCEPT ![id].status = Verdict(rec["writer"].result)]
        /\ Verdict(rec["writer"].result) # "absent"
    BY <1>1 DEF UpdateRow, Verdict
  <2>4. CASE i = id
    <3>1. db'[i] = [db[id] EXCEPT !.status = Verdict(rec["writer"].result)]
      BY <2>1, <2>3, <2>4 DEF DataTypes
    <3>2. db'[i].status # "absent"
      BY <2>2, <2>3, <3>1
    <3>3. QED
      BY <3>2 DEF NoRow
  <2>5. CASE i # id
    BY <2>1, <2>3, <2>5 DEF DataTypes
  <2>6. QED
    BY <2>4, <2>5
<1>2. CASE UpdateNothing(id) \/ UpdateFails(id)
  BY <1>2 DEF UpdateNothing, UpdateFails
<1>3. QED
  BY <1>1, <1>2 DEF WriterUpdate

LEMMA InsertedStep == DataTypes /\ IdInv /\ SentIsInserted /\ Next => SentIsInserted'
<1> SUFFICES ASSUME DataTypes, IdInv, SentIsInserted, Next PROVE SentIsInserted'
  OBVIOUS
<1> USE DEF SentIsInserted, database, MayFail
<1>t. \A c \in sent : c.test_id \in Ids
  BY DEF IdInv
<1>1. CASE DatabaseOpen
  <2>1. sent = {} /\ UNCHANGED sent
    BY <1>1 DEF DatabaseOpen, IdInv, Starting
  <2>2. QED
    BY <2>1
<1>2. CASE SendCommand
  <2>1. /\ UNCHANGED <<db, command>> /\ mainPc = "send"
        /\ \/ sent' = sent \cup {command} /\ mainPc' = "insert"
           \/ sent' = sent
    BY <1>2 DEF SendCommand
  <2>2. QED
    BY <2>1
<1>3. CASE InsertCommand
  <2>1. UNCHANGED sent /\ mainPc = "insert" /\ command.test_id \in Ids
    BY <1>3 DEF InsertCommand, DataTypes
  <2>2. \A i \in Ids \ {command.test_id} : db'[i] = db[i]
    BY <1>3 DEF InsertCommand, DataTypes
  <2>3. db'[command.test_id] # NoRow \/ MayFail("insert")
    <3>1. CASE db' = [db EXCEPT ![command.test_id] =
                        [status |-> "PENDING", peripheral |-> command.peripheral]]
      BY <2>1, <3>1 DEF DataTypes, NoRow
    <3>2. CASE (MayFail("insert") \/ db[command.test_id] # NoRow) /\ UNCHANGED db
      BY <3>2
    <3>3. QED
      BY <1>3, <3>1, <3>2 DEF InsertCommand
  <2>4. QED
    BY <1>t, <2>1, <2>2, <2>3
<1>4. CASE WriterUpdate
  <2>1. UNCHANGED <<sent, mainPc, command>>
    BY <1>4 DEF WriterUpdate, WriterOnly
  <2>2. QED
    BY <1>4, <1>t, <2>1, WriterKeepsRows
<1>5. CASE \E c \in sent, result \in Results : Deliver(c, result)
  BY <1>5 DEF Deliver
<1>6. CASE \E i \in Ids, result \in Results : DeliverStale(i, result)
  BY <1>6 DEF DeliverStale
<1>7. QED
  BY <1>1, <1>2, <1>3, <1>4, <1>5, <1>6, OtherSteps

LEMMA Causes == Spec => [](AnswerInv /\ SentIsInserted)
<1>1. Inv /\ AnswerInv /\ SentIsInserted /\ [Next]_vars => (AnswerInv /\ SentIsInserted)'
  <2>1. CASE Next
    BY <2>1, AnswerStep, InsertedStep DEF Inv
  <2>2. CASE UNCHANGED vars
    BY <2>2 DEF vars, network, database, AnswerInv, SentIsInserted, MayFail
  <2>3. QED
    BY <2>1, <2>2
<1>2. QED
  BY <1>1, CausesStart, Invariant, PTL DEF Spec

\* As long as the target answers only this process, every verdict in the table
\* is that of its own test.
THEOREM VerdictsAreOwn ==
    ASSUME "stale" \notin Faults PROVE Spec => []ResultOfOwnTest
<1>1. Inv /\ AnswerInv => ResultOfOwnTest
  <2> SUFFICES ASSUME Inv, AnswerInv, NEW i \in Ids, dbOpen,
                      db[i].status \in {"PASSED", "FAILED"}
               PROVE  Answered(i, db[i].status, TRUE)
    BY DEF ResultOfOwnTest
  <2>1. db[i] # NoRow
    BY DEF NoRow
  <2>2. \E own \in BOOLEAN : Answered(i, db[i].status, own)
    BY <2>1 DEF Inv, OriginInv, NoInventedResult
  <2>3. \A a \in answers : a.own = TRUE \/ ~(a.own \in BOOLEAN)
    BY DEF AnswerInv, MayFail
  <2>4. QED
    BY <2>2, <2>3 DEF Answered
<1>2. QED
  BY <1>1, Invariant, Causes, PTL

\* The writer has found no row for a response.
MissedOnlyWhileInserting ==
    \A i \in Ids : InWriter(i) /\ db[i] = NoRow
                     => mainPc = "insert" /\ command.test_id = i

\* A response is lost by the writer.
LossesOnlyWhileInserting ==
    [][unwritten' # unwritten
         => mainPc = "insert" /\ unwritten' = unwritten \cup {command.test_id}]_vars

\* Without stale answers and failing INSERTs the writer misses the row of a
\* response only between the sendto and the INSERT of its command; if no UPDATE
\* fails either, it leaves no other response that it has taken unwritten.  (What
\* a full queue refuses, or is still queued when the writer stops, it never had.)
THEOREM MissesExplained ==
    ASSUME "stale" \notin Faults, "insert" \notin Faults
    PROVE  /\ Spec => []MissedOnlyWhileInserting
           /\ "update" \notin Faults => (Spec => LossesOnlyWhileInserting)
<1>1. Inv /\ AnswerInv /\ SentIsInserted => MissedOnlyWhileInserting
  <2> SUFFICES ASSUME Inv, AnswerInv, SentIsInserted, NEW i \in Ids, InWriter(i),
                      db[i] = NoRow
               PROVE  mainPc = "insert" /\ command.test_id = i
    BY DEF MissedOnlyWhileInserting
  <2>1. Given(rec["writer"])
    BY DEF Inv, OriginInv, InWriter
  <2>2. PICK a \in answers : a.test_id = i
    BY <2>1 DEF Given, InWriter
  <2>3. PICK c \in sent : c.test_id = i
    BY <2>2 DEF AnswerInv, MayFail
  <2>4. QED
    BY <2>3 DEF SentIsInserted, MayFail
<1>2. ASSUME "update" \notin Faults, Inv, MissedOnlyWhileInserting, Next,
             unwritten' # unwritten
      PROVE  mainPc = "insert" /\ unwritten' = unwritten \cup {command.test_id}
  <2>1. WriterUpdate
    <3>1. CASE DatabaseOpen \/ SendCommand \/ InsertCommand
      BY <1>2, <3>1 DEF DatabaseOpen, SendCommand, InsertCommand, history
    <3>2. CASE \E c \in sent, result \in Results : Deliver(c, result)
      BY <1>2, <3>2 DEF Deliver, history
    <3>3. CASE \E i \in Ids, result \in Results : DeliverStale(i, result)
      BY <1>2, <3>3 DEF DeliverStale, history
    <3>4. QED
      BY <1>2, <3>1, <3>2, <3>3, OtherSteps
  <2>2. PICK i \in Ids : i = rec["writer"].test_id
    BY <1>2, <2>1 DEF WriterUpdate, Inv, DataTypes, Records
  <2>3. db[i] = NoRow /\ unwritten' = unwritten \cup {i}
    BY <1>2, <2>1, <2>2 DEF WriterUpdate, UpdateRow, UpdateNothing, UpdateFails, MayFail
  <2>4. InWriter(i)
    BY <2>1, <2>2 DEF WriterUpdate, InWriter
  <2>5. QED
    BY <1>2, <2>3, <2>4 DEF MissedOnlyWhileInserting
<1>3. Spec => []MissedOnlyWhileInserting
  BY <1>1, Invariant, Causes, PTL
<1>4. ASSUME "update" \notin Faults PROVE Spec => LossesOnlyWhileInserting
  <2>1. Inv /\ MissedOnlyWhileInserting /\ [Next]_vars
          => [unwritten' # unwritten
                => mainPc = "insert" /\ unwritten' = unwritten \cup {command.test_id}]_vars
    BY <1>2, <1>4
  <2>2. QED
    BY <1>3, <2>1, Invariant, PTL DEF Spec, LossesOnlyWhileInserting
<1>5. QED
  BY <1>3, <1>4
-----------------------------------------------------------------------------
(* A response on its way from the queue to its row *)

\* A queued response leaves the queue only at its head, into the hands of the
\* writer; the others keep their order behind it.
QueueStep == \/ queue' = queue
             \/ \E r \in Records : queue' = Append(queue, r)
             \/ /\ queue # <<>>
                /\ queue' = Tail(queue)
                /\ rec'["writer"] = Head(queue)
                /\ wrPc = "pop" /\ wrPc' = "update"

\* The writer holds a response until its row has a verdict or the response is
\* counted among the unwritten ones.
HeldStep == wrPc = "update" =>
                \/ wrPc' = "update" /\ rec'["writer"] = rec["writer"]
                \/ wrPc' = "loop" /\ rec["writer"].test_id \in unwritten'
                \/ wrPc' = "loop" /\ db'[rec["writer"].test_id].status \in Verdicts

\* It does not end before it is told to.
WriterStays == wrPc \notin {"none", "done"} /\ wrPc' = "done" => ~wr_running

\* A row with a verdict is not pending again while the database is open.
VerdictStays == dbOpen => \A i \in Ids : db[i].status \in Verdicts
                                            => db'[i].status \in Verdicts

QueuedMovesOn == [][QueueStep /\ HeldStep /\ WriterStays /\ VerdictStays]_vars

\* While the database is open, no step takes a verdict back.
LEMMA RowStep ==
    ASSUME Inv, Next, NEW i \in Ids, dbOpen, db[i].status \in Verdicts
    PROVE  db'[i].status \in Verdicts
<1>1. CASE DatabaseOpen
  BY <1>1 DEF DatabaseOpen, Inv, ControlInv, DbOpened, Writing, Receiving, Looping, Failing
<1>2. CASE SendCommand
  BY <1>2 DEF SendCommand, database
<1>3. CASE InsertCommand
  <2>1. CASE UNCHANGED db
    BY <2>1
  <2>2. CASE /\ db[command.test_id] = NoRow
             /\ db' = [db EXCEPT ![command.test_id] =
                         [status |-> "PENDING", peripheral |-> command.peripheral]]
    <3>1. command.test_id # i
      BY <2>2 DEF NoRow, Verdicts
    <3>2. db'[i] = db[i]
      BY <2>2, <3>1 DEF Inv, DataTypes
    <3>3. QED
      BY <3>2
  <2>3. QED
    BY <1>3, <2>1, <2>2 DEF InsertCommand
<1>4. CASE WriterUpdate
  <2>1. CASE UNCHANGED db
    BY <2>1
  <2>2. CASE db' = [db EXCEPT ![rec["writer"].test_id].status =
                                  Verdict(rec["writer"].result)]
    <3>1. CASE rec["writer"].test_id = i
      BY <2>2, <3>1, RowTypes DEF Inv, DataTypes, Verdict, Verdicts
    <3>2. CASE rec["writer"].test_id # i
      BY <2>2, <3>2 DEF Inv, DataTypes
    <3>3. QED
      BY <3>1, <3>2
  <2>3. QED
    BY <1>4, <2>1, <2>2 DEF WriterUpdate, UpdateRow, UpdateNothing, UpdateFails
<1>5. CASE \E c \in sent, result \in Results : Deliver(c, result)
  BY <1>5 DEF Deliver, database
<1>6. CASE \E j \in Ids, result \in Results : DeliverStale(j, result)
  BY <1>6 DEF DeliverStale, database
<1>7. CASE UNCHANGED <<sent, answers, db, unwritten>>
  BY <1>7
<1>8. QED
  BY <1>1, <1>2, <1>3, <1>4, <1>5, <1>6, <1>7, OtherSteps

\* The steps that touch neither the queue nor what the writer holds.
LEMMA QueueUntouched ==
    ASSUME Next
    PROVE  \/ RxReceive \/ RxPush \/ WriterLoop \/ WriterPop \/ WriterUpdate
           \/ WriterStart \/ UNCHANGED <<queue, rec, wrPc>>
<1> USE DEF generator, network, history, fifo, database, rx, wr, Fifo!Close
<1>1. CASE Quiet
  BY <1>1 DEF Quiet, Open, QueueInit, RxStart, FailWriterStop, FailJoin,
     Sleep, LeaveLoop, StopDelay, RxStop, RxJoin, QueueShutdown, WriterStop,
     WriterJoin, CloseSocket, DatabaseClose
<1>2. CASE DatabaseOpen \/ GeneratorInit \/ BuildNext \/ SendCommand \/ InsertCommand \/ PrintSummary
  BY <1>2 DEF DatabaseOpen, GeneratorInit, BuildNext, BuildWith, SendCommand,
     InsertCommand, PrintSummary
<1>3. CASE RxLoop \/ RxIgnore \/ RxTimeout \/ Sigint \/ DeliverShort \/ UNCHANGED vars
  BY <1>3 DEF RxLoop, RxIgnore, RxTimeout, Sigint, DeliverShort, vars
<1>4. CASE \E c \in sent, result \in Results : Deliver(c, result)
  BY <1>4 DEF Deliver
<1>5. CASE \E j \in Ids, result \in Results : DeliverStale(j, result)
  BY <1>5 DEF DeliverStale
<1>6. QED
  BY <1>1, <1>2, <1>3, <1>4, <1>5, StepCases

\* The safety core of QueuedIsRecorded (queue.c, response_writer.c): a response
\* that was accepted loses no step to the row it is for.  It moves up in the
\* queue, is taken by the writer, and is held until the row has its verdict or
\* the update is known to have failed; no step of main, of the receiver or of
\* the shutdown drops it, and none makes a decided row pending again.
THEOREM QueuedResponsesMoveOn == Spec => QueuedMovesOn
<1> USE DEF fifo, rx, wr, Fifo!CallPush, Fifo!Put, Fifo!Refuse, Fifo!CallPop,
            Fifo!Take, Fifo!TakeNothing
<1>1. ASSUME Inv, Next
      PROVE  QueueStep /\ HeldStep /\ WriterStays
  <2>1. CASE RxReceive
    <3>1. rec'["writer"] = rec["writer"] /\ UNCHANGED <<queue, wrPc>>
      BY <1>1, <2>1 DEF RxReceive, Inv, DataTypes
    <3>2. QED
      BY <3>1 DEF QueueStep, HeldStep, WriterStays
  <2>2. CASE RxPush
    <3>1. rec["rx"] \in Records
      BY <1>1, <2>2 DEF RxPush, Inv, DataTypes
    <3>2. UNCHANGED <<rec, wrPc>>
      BY <2>2 DEF RxPush
    <3>3. QED
      BY <2>2, <3>1, <3>2 DEF RxPush, QueueStep, HeldStep, WriterStays
  <2>3. CASE WriterLoop
    BY <2>3 DEF WriterLoop, QueueStep, HeldStep, WriterStays
  <2>4. CASE WriterPop
    <3>1. CASE Fifo!Take("writer") /\ wrPc' = "update"
      <4>1. rec'["writer"] = Head(queue)
        BY <1>1, <3>1 DEF Inv, DataTypes
      <4>2. QED
        BY <2>4, <3>1, <4>1 DEF WriterPop, QueueStep, HeldStep, WriterStays
    <3>2. CASE Fifo!TakeNothing("writer") /\ wrPc' = "loop"
      BY <2>4, <3>2 DEF WriterPop, QueueStep, HeldStep, WriterStays
    <3>3. QED
      BY <2>4, <3>1, <3>2 DEF WriterPop
  <2>5. CASE WriterUpdate
    <3>1. UNCHANGED queue /\ wrPc' = "loop"
      BY <2>5 DEF WriterUpdate, WriterOnly
    <3>2. PICK i \in Ids : i = rec["writer"].test_id
      BY <1>1, <2>5 DEF WriterUpdate, Inv, DataTypes, Records
    <3>3. i \in unwritten' \/ db'[i].status \in Verdicts
      <4>1. CASE UpdateRow(i)
        BY <1>1, <4>1, <3>2, RowTypes DEF UpdateRow, Inv, DataTypes, Verdict, Verdicts
      <4>2. CASE UpdateNothing(i) \/ UpdateFails(i)
        BY <4>2 DEF UpdateNothing, UpdateFails
      <4>3. QED
        BY <2>5, <3>2, <4>1, <4>2 DEF WriterUpdate
    <3>4. QED
      BY <3>1, <3>2, <3>3 DEF QueueStep, HeldStep, WriterStays
  <2>6. CASE WriterStart
    <3>1. wrPc # "update" /\ UNCHANGED <<queue, rec>> /\ wrPc' \in {wrPc, "loop"}
      BY <1>1, <2>6 DEF WriterStart, Inv, ControlInv, Writing, Receiving, Looping,
         Failing, Fifo!Close
    <3>2. QED
      BY <3>1 DEF QueueStep, HeldStep, WriterStays
  <2>7. CASE UNCHANGED <<queue, rec, wrPc>>
    BY <2>7 DEF QueueStep, HeldStep, WriterStays
  <2>8. QED
    BY <1>1, <2>1, <2>2, <2>3, <2>4, <2>5, <2>6, <2>7, QueueUntouched
<1>2. ASSUME Inv, Next PROVE VerdictStays
  BY <1>2, RowStep DEF VerdictStays
<1>3. Inv /\ [Next]_vars => [QueueStep /\ HeldStep /\ WriterStays /\ VerdictStays]_vars
  BY <1>1, <1>2
<1>4. QED
  BY <1>3, Invariant, PTL DEF Spec, QueuedMovesOn
=============================================================================
