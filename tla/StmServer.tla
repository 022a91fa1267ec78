----------------------------- MODULE StmServer -----------------------------
(***************************************************************************)
(* The PC application of STM32_Server: the main thread (main.c), which     *)
(* generates commands, sends them and inserts them in the results          *)
(* database, the UDP receive thread (udp_client.c), which queues the       *)
(* responses, and the response writer thread (response_writer.c), which    *)
(* takes them from the queue and updates the database (result_database.c). *)
(*                                                                         *)
(* The response queue is used through BoundedFifo, the interface that      *)
(* ResponseQueue implements.  The target and the UDP network are external: *)
(* a command that was sent may be answered, never, once, or several times  *)
(* (a datagram may be duplicated), in any order and at any time.  SQLite   *)
(* executes one statement at a time on the shared handle.  Time is left    *)
(* out: a sleep may last for any number of steps of the other threads.     *)
(***************************************************************************)
EXTENDS Naturals, Sequences, FiniteSets

CONSTANTS Capacity,      \* RESPONSE_QUEUE_CAPACITY
          MaxCommands,   \* bound: commands generated in one run
          MaxAnswers,    \* bound: datagrams with a response in one run
          MaxInbox,      \* datagrams the socket buffer holds
          Peripherals,   \* command_generator_peripherals, in its order
          Faults         \* the calls that may fail in this instance

ASSUME ServerAssumption == /\ Capacity \in Nat \ {0}
                           /\ MaxCommands \in Nat
                           /\ MaxAnswers \in Nat
                           /\ MaxInbox \in Nat
                           /\ Len(Peripherals) \in Nat \ {0}

Ids == 1 .. MaxCommands
Results == {"SUCCESS", "FAIL"}
Records == [test_id : Ids, result : Results]
NoRecord == [test_id |-> 0, result |-> "zero"]

\* A datagram shorter than a response; recvfrom cuts a longer one to size.
ShortDatagram == [test_id |-> 0, result |-> "short"]

NoRow == [status |-> "absent", peripheral |-> "none"]

VARIABLES
    mainPc,                     \* the next statement of main
    sock,                       \* "none", "bad" (negative), "open" or "closed"
    app_running,                \* cleared by the SIGINT handler
    command,                    \* the command that main has built
    next_test_id, peripheral_index,              \* command_generator.c
    rxPc, rx_running,                            \* the receive thread
    wrPc, wr_running,                            \* the writer thread
    queue, closed, rec, status,                  \* the response queue
    dbOpen, db,                 \* the database handle and test_results
    summary,                    \* the totals print_summary has printed
    sent, inbox, copies,        \* commands, the socket's buffer, answers sent
    answers,                    \* history: what the target has answered, and
                                \* whether to a command of this process
    accepted, unwritten         \* history: last result queued for a test; tests
                                \* with a response that was not written

fifo == <<queue, closed, rec, status>>
generator == <<next_test_id, peripheral_index>>
rx == <<rxPc, rx_running>>
wr == <<wrPc, wr_running>>
database == <<dbOpen, db>>
network == <<inbox, copies, answers>>
history == <<accepted, unwritten>>
vars == <<mainPc, sock, app_running, command, generator, rx, wr, fifo,
          database, summary, sent, network, history>>

Fifo == INSTANCE BoundedFifo WITH Producers <- {"rx"}, Consumers <- {"writer"}

MayFail(call) == call \in Faults

NoCommand == [test_id |-> 0, peripheral |-> "none"]
Exits == {"exit_success", "exit_failure"}

\* The process has just started; test_results holds whatever rows an earlier
\* run has left in the file.
Init == /\ mainPc = "open"
        /\ sock = "none"
        /\ app_running = TRUE
        /\ command = NoCommand
        /\ next_test_id = 1
        /\ peripheral_index = 0
        /\ rxPc = "none" /\ rx_running = FALSE
        /\ wrPc = "none" /\ wr_running = FALSE
        /\ Fifo!Init
        /\ dbOpen = FALSE
        /\ db \in [Ids -> {NoRow, [status |-> "PASSED", peripheral |-> "none"]}]
        /\ summary = {}
        /\ sent = {}
        /\ inbox = <<>>
        /\ copies = 0
        /\ answers = {}
        /\ accepted = [i \in Ids |-> "none"]
        /\ unwritten = {}
-----------------------------------------------------------------------------
(* main: start-up *)

\* udp_client_open; main does not look at the descriptor it returns.
Open == /\ mainPc = "open"
        /\ \/ sock' = "open"
           \/ MayFail("socket") /\ sock' = "bad"
        /\ mainPc' = "queue_init"
        /\ UNCHANGED <<app_running, command, generator, rx, wr, fifo, database,
                       summary, sent, network, history>>

\* response_queue_init has nothing left to reset in a new process.
QueueInit == /\ mainPc = "queue_init"
             /\ \/ /\ mainPc' = "db_open"
                   /\ UNCHANGED sock
                \/ /\ MayFail("queue_init")
                   /\ sock' = "closed"
                   /\ mainPc' = "exit_failure"
             /\ UNCHANGED <<app_running, command, generator, rx, wr, fifo,
                            database, summary, sent, network, history>>

\* Mutant: the rows of the previous run are kept.
DatabaseOpenKeepingRows ==
    /\ mainPc = "db_open"
    /\ \/ /\ dbOpen' = TRUE
          /\ mainPc' = "writer_start"
          /\ UNCHANGED <<fifo, sock, db>>
       \/ /\ MayFail("db_open")
          /\ Fifo!Close
          /\ sock' = "closed"
          /\ mainPc' = "exit_failure"
          /\ UNCHANGED database
    /\ UNCHANGED <<app_running, command, generator, rx, wr, summary, sent,
                   network, history>>

\* result_database_open also deletes the rows of the previous run.
DatabaseOpen ==
    /\ mainPc = "db_open"
    /\ \/ /\ dbOpen' = TRUE
          /\ db' = [i \in Ids |-> NoRow]
          /\ mainPc' = "writer_start"
          /\ UNCHANGED <<fifo, sock>>
       \/ /\ MayFail("db_open")
          /\ Fifo!Close
          /\ sock' = "closed"
          /\ mainPc' = "exit_failure"
          /\ UNCHANGED database
    /\ UNCHANGED <<app_running, command, generator, rx, wr, summary, sent,
                   network, history>>

WriterStart ==
    /\ mainPc = "writer_start"
    /\ \/ /\ wr_running' = TRUE
          /\ wrPc' = "loop"
          /\ mainPc' = "rx_start"
          /\ UNCHANGED <<fifo, sock, dbOpen>>
       \/ /\ MayFail("writer")
          /\ dbOpen' = FALSE
          /\ Fifo!Close
          /\ sock' = "closed"
          /\ mainPc' = "exit_failure"
          /\ UNCHANGED wr
    /\ UNCHANGED <<app_running, command, generator, rx, db, summary, sent,
                   network, history>>

\* udp_client_start_rx_thread refuses a negative descriptor.
RxStart == /\ mainPc = "rx_start"
           /\ \/ /\ sock = "open"
                 /\ rx_running' = TRUE
                 /\ rxPc' = "loop"
                 /\ mainPc' = "generator_init"
              \/ /\ sock = "bad" \/ MayFail("rx")
                 /\ mainPc' = "fail_writer_stop"
                 /\ UNCHANGED rx
           /\ UNCHANGED <<sock, app_running, command, generator, wr, fifo,
                          database, summary, sent, network, history>>

\* The error path asks the writer to stop and joins it ...
FailWriterStop == /\ mainPc = "fail_writer_stop"
                  /\ wr_running' = FALSE
                  /\ mainPc' = "fail_join"
                  /\ UNCHANGED <<sock, app_running, command, generator, rx, wrPc,
                                 fifo, database, summary, sent, network,
                                 history>>

\* ... and only then closes the database and shuts the queue down.
FailJoin == /\ mainPc = "fail_join"
            /\ wrPc = "done"
            /\ dbOpen' = FALSE
            /\ Fifo!Close
            /\ sock' = "closed"
            /\ mainPc' = "exit_failure"
            /\ UNCHANGED <<app_running, command, generator, rx, wr, db, summary,
                           sent, network, history>>

GeneratorInit == /\ mainPc = "generator_init"
                 /\ next_test_id' = 1
                 /\ peripheral_index' = 0
                 /\ mainPc' = "loop"
                 /\ UNCHANGED <<sock, app_running, command, rx, wr, fifo,
                                database, summary, sent, network, history>>
-----------------------------------------------------------------------------
(* main: the command loop *)

BuildWith(nextId, nextIndex) ==
    /\ mainPc = "loop"
    /\ app_running
    /\ next_test_id <= MaxCommands
    /\ command' = [test_id |-> next_test_id,
                   peripheral |-> Peripherals[peripheral_index + 1]]
    /\ next_test_id' = nextId
    /\ peripheral_index' = nextIndex
    /\ mainPc' = "send"
    /\ UNCHANGED <<sock, app_running, rx, wr, fifo, database, summary, sent,
                   network, history>>

NextIndex == IF peripheral_index + 1 >= Len(Peripherals)
               THEN 0 ELSE peripheral_index + 1

\* Mutant: the test identifier is not incremented.
BuildNextSameId == BuildWith(next_test_id, NextIndex)

\* Mutant: the peripheral index runs past the end of the table.
BuildNextNoWrap == BuildWith(next_test_id + 1, peripheral_index + 1)

\* command_generator_build_next
BuildNext == BuildWith(next_test_id + 1, NextIndex)

SendCommand == /\ mainPc = "send"
               /\ \/ /\ sent' = sent \cup {command}
                     /\ mainPc' = "insert"
                  \/ /\ MayFail("send")
                     /\ mainPc' = "sleep"
                     /\ UNCHANGED sent
               /\ UNCHANGED <<sock, app_running, command, generator, rx, wr,
                              fifo, database, summary, network, history>>

\* result_database_insert_command; test_id is UNIQUE.
InsertCommand ==
    /\ mainPc = "insert"
    /\ \/ /\ db[command.test_id] = NoRow
          /\ db' = [db EXCEPT ![command.test_id] =
                      [status |-> "PENDING", peripheral |-> command.peripheral]]
       \/ /\ MayFail("insert") \/ db[command.test_id] # NoRow
          /\ UNCHANGED db
    /\ mainPc' = "sleep"
    /\ UNCHANGED <<sock, app_running, command, generator, rx, wr, fifo, dbOpen,
                   summary, sent, network, history>>

Sleep == /\ mainPc = "sleep"
         /\ mainPc' = "loop"
         /\ UNCHANGED <<sock, app_running, command, generator, rx, wr, fifo,
                        database, summary, sent, network, history>>

LeaveLoop == /\ mainPc = "loop"
             /\ ~app_running
             /\ mainPc' = "stop_delay"
             /\ UNCHANGED <<sock, app_running, command, generator, rx, wr, fifo,
                            database, summary, sent, network, history>>
-----------------------------------------------------------------------------
(* main: shutdown *)

\* APPLICATION_STOP_DELAY_SEC, which another SIGINT cuts short.
StopDelay == /\ mainPc = "stop_delay"
             /\ mainPc' = "rx_stop"
             /\ UNCHANGED <<sock, app_running, command, generator, rx, wr, fifo,
                            database, summary, sent, network, history>>

\* Mutant: the receive thread is not joined.
RxStopNoJoin == /\ mainPc = "rx_stop"
                /\ mainPc' = "queue_shutdown"
                /\ rx_running' = FALSE
                /\ UNCHANGED <<sock, app_running, command, generator, rxPc, wr,
                               fifo, database, summary, sent, network, history>>

RxStop == /\ mainPc = "rx_stop"
          /\ mainPc' = IF rx_running THEN "rx_join" ELSE "queue_shutdown"
          /\ rx_running' = FALSE
          /\ UNCHANGED <<sock, app_running, command, generator, rxPc, wr, fifo,
                         database, summary, sent, network, history>>

RxJoin == /\ mainPc = "rx_join"
          /\ rxPc = "done"
          /\ mainPc' = "queue_shutdown"
          /\ UNCHANGED <<sock, app_running, command, generator, rx, wr, fifo,
                         database, summary, sent, network, history>>

QueueShutdown == /\ mainPc = "queue_shutdown"
                 /\ Fifo!Close
                 /\ mainPc' = "writer_stop"
                 /\ UNCHANGED <<sock, app_running, command, generator, rx, wr,
                                database, summary, sent, network, history>>

\* Mutant: the writer is not joined.
WriterStopNoJoin == /\ mainPc = "writer_stop"
                    /\ wr_running' = FALSE
                    /\ mainPc' = "close"
                    /\ UNCHANGED <<sock, app_running, command, generator, rx,
                                   wrPc, fifo, database, summary, sent, network,
                                   history>>

WriterStop == /\ mainPc = "writer_stop"
              /\ wr_running' = FALSE
              /\ mainPc' = "writer_join"
              /\ UNCHANGED <<sock, app_running, command, generator, rx, wrPc,
                             fifo, database, summary, sent, network, history>>

WriterJoin == /\ mainPc = "writer_join"
              /\ wrPc = "done"
              /\ mainPc' = "close"
              /\ UNCHANGED <<sock, app_running, command, generator, rx, wr,
                             fifo, database, summary, sent, network, history>>

CloseSocket == /\ mainPc = "close"
               /\ sock' = "closed"
               /\ mainPc' = "summary"
               /\ UNCHANGED <<app_running, command, generator, rx, wr, fifo,
                              database, summary, sent, network, history>>

RowsWith(st) == {i \in Ids : db[i].status = st}

\* The totals of result_database_print_summary.
Totals == [total |-> Cardinality({i \in Ids : db[i] # NoRow}),
           passed |-> Cardinality(RowsWith("PASSED")),
           failed |-> Cardinality(RowsWith("FAILED")),
           pending |-> Cardinality(RowsWith("PENDING"))]

PrintSummary == /\ mainPc = "summary"
                /\ \/ summary' = {Totals}
                   \/ MayFail("summary") /\ UNCHANGED summary
                /\ mainPc' = "db_close"
                /\ UNCHANGED <<sock, app_running, command, generator, rx, wr,
                               fifo, database, sent, network, history>>

DatabaseClose == /\ mainPc = "db_close"
                 /\ dbOpen' = FALSE
                 /\ mainPc' = "exit_success"
                 /\ UNCHANGED <<sock, app_running, command, generator, rx, wr,
                                fifo, db, summary, sent, network, history>>
-----------------------------------------------------------------------------
(* The UDP receive thread *)

\* Mutant: the thread does not look at its stop flag.
RxLoopForever == /\ rxPc = "loop"
                 /\ rxPc' = "recv"
                 /\ UNCHANGED <<mainPc, sock, app_running, command, generator,
                                rx_running, wr, fifo, database, summary, sent,
                                network, history>>

RxLoop == /\ rxPc = "loop"
          /\ rxPc' = IF rx_running THEN "recv" ELSE "done"
          /\ UNCHANGED <<mainPc, sock, app_running, command, generator,
                         rx_running, wr, fifo, database, summary, sent, network,
                         history>>

\* recvfrom returns a complete response, and the thread calls push with it.
RxReceive == /\ rxPc = "recv"
             /\ inbox # <<>>
             /\ Head(inbox) # ShortDatagram
             /\ Fifo!CallPush("rx")
             /\ rec'["rx"] = Head(inbox)
             /\ inbox' = Tail(inbox)
             /\ rxPc' = "push"
             /\ UNCHANGED <<mainPc, sock, app_running, command, generator,
                            rx_running, wr, database, summary, sent, copies,
                            answers, history>>

RxIgnore == /\ rxPc = "recv"
            /\ inbox # <<>>
            /\ Head(inbox) = ShortDatagram
            /\ inbox' = Tail(inbox)
            /\ rxPc' = "loop"
            /\ UNCHANGED <<mainPc, sock, app_running, command, generator,
                           rx_running, wr, fifo, database, summary, sent, copies,
                           answers, history>>

\* recvfrom fails: its time-out expired (or a signal interrupted it).
RxTimeout == /\ rxPc = "recv"
             /\ inbox = <<>>
             /\ rxPc' = "loop"
             /\ UNCHANGED <<mainPc, sock, app_running, command, generator,
                            rx_running, wr, fifo, database, summary, sent,
                            network, history>>

\* response_queue_push; a response that is refused is lost.
RxPush == /\ rxPc = "push"
          /\ \/ /\ Fifo!Put("rx")
                /\ accepted' = [accepted EXCEPT
                                  ![rec["rx"].test_id] = rec["rx"].result]
             \/ /\ Fifo!Refuse("rx")
                /\ UNCHANGED accepted
          /\ rxPc' = "loop"
          /\ UNCHANGED <<mainPc, sock, app_running, command, generator,
                         rx_running, wr, database, summary, sent, network,
                         unwritten>>
-----------------------------------------------------------------------------
(* The response writer thread *)

WriterLoop == /\ wrPc = "loop"
              /\ \/ /\ wr_running
                    /\ Fifo!CallPop("writer")
                    /\ wrPc' = "pop"
                 \/ /\ ~wr_running
                    /\ wrPc' = "done"
                    /\ UNCHANGED fifo
              /\ UNCHANGED <<mainPc, sock, app_running, command, generator, rx,
                             wr_running, database, summary, sent, network,
                             history>>

\* Mutant: a record that was taken is dropped when the thread is to stop.
WriterPopDropping ==
    /\ wrPc = "pop"
    /\ \/ Fifo!Take("writer") /\ wrPc' = IF wr_running THEN "update" ELSE "loop"
       \/ Fifo!TakeNothing("writer") /\ wrPc' = "loop"
    /\ UNCHANGED <<mainPc, sock, app_running, command, generator, rx,
                   wr_running, database, summary, sent, network, history>>

\* response_queue_pop returns a record, or fails once the queue is shut down.
WriterPop == /\ wrPc = "pop"
             /\ \/ Fifo!Take("writer") /\ wrPc' = "update"
                \/ Fifo!TakeNothing("writer") /\ wrPc' = "loop"
             /\ UNCHANGED <<mainPc, sock, app_running, command, generator, rx,
                            wr_running, database, summary, sent, network,
                            history>>

Verdict(result) == IF result = "SUCCESS" THEN "PASSED" ELSE "FAILED"

\* An UPDATE that affects a row, one that matches none, one that fails.
UpdateRow(id) == /\ db' = [db EXCEPT ![id].status = Verdict(rec["writer"].result)]
                 /\ UNCHANGED unwritten

UpdateNothing(id) == /\ db[id] = NoRow
                     /\ unwritten' = unwritten \cup {id}
                     /\ UNCHANGED db

UpdateFails(id) == /\ MayFail("update")
                   /\ unwritten' = unwritten \cup {id}
                   /\ UNCHANGED db

WriterOnly == UNCHANGED <<mainPc, sock, app_running, command, generator, rx,
                          wr_running, fifo, dbOpen, summary, sent, network,
                          accepted>>

\* Mutant: only a pending row is updated.
WriterUpdateFirstOnly ==
    /\ wrPc = "update"
    /\ LET id == rec["writer"].test_id
       IN  \/ db[id].status = "PENDING" /\ UpdateRow(id)
           \/ db[id].status \in {"PASSED", "FAILED"} /\ UNCHANGED <<db, unwritten>>
           \/ UpdateNothing(id)
           \/ UpdateFails(id)
    /\ wrPc' = "loop"
    /\ WriterOnly

\* Mutant: the thread returns when there is no row for the response.
WriterUpdateGivesUp ==
    /\ wrPc = "update"
    /\ LET id == rec["writer"].test_id
       IN  \/ db[id] # NoRow /\ UpdateRow(id) /\ wrPc' = "loop"
           \/ UpdateNothing(id) /\ wrPc' = "done"
           \/ UpdateFails(id) /\ wrPc' = "loop"
    /\ WriterOnly

\* result_database_update_response: an UPDATE that matches no row succeeds.
WriterUpdate ==
    /\ wrPc = "update"
    /\ LET id == rec["writer"].test_id
       IN  \/ db[id] # NoRow /\ UpdateRow(id)
           \/ UpdateNothing(id)
           \/ UpdateFails(id)
    /\ wrPc' = "loop"
    /\ WriterOnly
-----------------------------------------------------------------------------
(* The environment: Ctrl+C, the target and the network *)

Sigint == /\ mainPc \notin Exits
          /\ app_running
          /\ app_running' = FALSE
          /\ UNCHANGED <<mainPc, sock, command, generator, rx, wr, fifo,
                         database, summary, sent, network, history>>

\* A response to a command that was sent reaches the socket.
Deliver(c, result) ==
    /\ c \in sent
    /\ sock = "open"
    /\ Len(inbox) < MaxInbox
    /\ copies < MaxAnswers
    /\ copies' = copies + 1
    /\ answers' = answers \cup {[test_id |-> c.test_id, result |-> result, own |-> TRUE]}
    /\ inbox' = Append(inbox, [test_id |-> c.test_id, result |-> result])
    /\ UNCHANGED <<mainPc, sock, app_running, command, generator, rx, wr, fifo,
                   database, summary, sent, history>>

DeliverShort == /\ MayFail("short")
                /\ sock = "open"
                /\ Len(inbox) < MaxInbox
                /\ inbox' = Append(inbox, ShortDatagram)
                /\ UNCHANGED <<mainPc, sock, app_running, command, generator, rx,
                               wr, fifo, database, summary, sent, copies,
                               answers, history>>

\* The target, which answers the last peer it has heard of, still answers a
\* command of the server process before this one.  (Bound: one such answer.)
DeliverStale(i, result) ==
    /\ MayFail("stale")
    /\ \A a \in answers : a.own
    /\ sent # {}
    /\ sock = "open"
    /\ Len(inbox) < MaxInbox
    /\ copies < MaxAnswers
    /\ copies' = copies + 1
    /\ answers' = answers \cup {[test_id |-> i, result |-> result, own |-> FALSE]}
    /\ inbox' = Append(inbox, [test_id |-> i, result |-> result])
    /\ UNCHANGED <<mainPc, sock, app_running, command, generator, rx, wr, fifo,
                   database, summary, sent, history>>

\* The process is gone.
Finished == mainPc \in Exits /\ UNCHANGED vars
-----------------------------------------------------------------------------
MainStep == \/ Open \/ QueueInit \/ DatabaseOpen \/ WriterStart \/ RxStart
            \/ FailWriterStop \/ FailJoin \/ GeneratorInit
            \/ BuildNext \/ SendCommand \/ InsertCommand \/ Sleep \/ LeaveLoop
            \/ StopDelay \/ RxStop \/ RxJoin \/ QueueShutdown \/ WriterStop
            \/ WriterJoin \/ CloseSocket \/ PrintSummary \/ DatabaseClose

RxStep == RxLoop \/ RxReceive \/ RxIgnore \/ RxTimeout \/ RxPush

WriterStep == WriterLoop \/ WriterPop \/ WriterUpdate

Environment == \/ Sigint
               \/ \E c \in sent, result \in Results : Deliver(c, result)
               \/ \E i \in Ids, result \in Results : DeliverStale(i, result)
               \/ DeliverShort

Next == MainStep \/ RxStep \/ WriterStep \/ Environment \/ Finished

Spec == Init /\ [][Next]_vars

\* Each thread runs whenever it can: a sleep ends, recvfrom returns within its
\* time-out, a join returns once the thread has ended.  Ctrl+C, and every
\* answer of the target, may never come.
Fairness == WF_vars(MainStep) /\ WF_vars(RxStep) /\ WF_vars(WriterStep)

FairSpec == Spec /\ Fairness
-----------------------------------------------------------------------------
TypeOK ==
    /\ sock \in {"none", "bad", "open", "closed"}
    /\ app_running \in BOOLEAN
    /\ next_test_id \in 1 .. MaxCommands + 1
    /\ peripheral_index \in 0 .. Len(Peripherals) - 1
    /\ rxPc \in {"none", "loop", "recv", "push", "done"}
    /\ wrPc \in {"none", "loop", "pop", "update", "done"}
    /\ rx_running \in BOOLEAN /\ wr_running \in BOOLEAN /\ dbOpen \in BOOLEAN
    /\ \A i \in 1 .. Len(queue) : queue[i] \in Records
    /\ Len(queue) <= Capacity
    /\ \A i \in Ids : db[i].status \in {"absent", "PENDING", "PASSED", "FAILED"}
    /\ unwritten \subseteq Ids

\* No thread uses the database handle or the socket before main has opened it
\* or after main has closed it, on any path of start-up and shutdown.
HandlesOpen == /\ mainPc = "insert" \/ wrPc = "update" => dbOpen
               /\ mainPc = "send" \/ rxPc = "recv" => sock = "open"

\* app_protocol.h: test_id is a "Unique test identifier"; no two commands of a
\* run carry the same one, also after a send that failed.
UniqueIds == \A c, d \in sent : c.test_id = d.test_id => c = d

\* The verdict st of test i is one that the target has given, to whom it may be.
Answered(i, st, own) ==
    \E r \in Results : /\ st = Verdict(r)
                       /\ [test_id |-> i, result |-> r, own |-> own] \in answers

\* A row says PASSED or FAILED only if the target has answered so while this
\* process ran, and it describes the command sent under its identifier.
NoInventedResult ==
    dbOpen => \A i \in Ids : db[i] # NoRow =>
        /\ [test_id |-> i, peripheral |-> db[i].peripheral] \in sent
        /\ \/ db[i].status = "PENDING"
           \/ \E own \in BOOLEAN : Answered(i, db[i].status, own)

InQueue(i) == \E k \in 1 .. Len(queue) : queue[k].test_id = i
InWriter(i) == wrPc = "update" /\ rec["writer"].test_id = i

\* When a test has several responses the row ends up with the last one that
\* was received: the queue and the writer keep the order of reception.
LastResponseWins ==
    \A i \in Ids : /\ db[i].status \in {"PASSED", "FAILED"}
                   /\ accepted[i] # "none"
                   /\ ~InQueue(i) /\ ~InWriter(i)
                   /\ i \notin unwritten
                   => db[i].status = Verdict(accepted[i])

\* The only ways for the server to lose a response it has queued: there was no
\* row when it was to be written, the UPDATE failed, or the writer was stopped
\* with the response still in the queue.
PendingExplained ==
    mainPc = "exit_success" =>
        \A i \in Ids : db[i].status = "PENDING" /\ accepted[i] # "none"
                         => i \in unwritten \/ InQueue(i)

\* The totals main prints at the end are those of the final table: nobody
\* writes to the table between the summary and the end of the process.
SummaryIsFinal ==
    mainPc \in {"db_close", "exit_success"} /\ summary # {} =>
        /\ summary = {Totals}
        /\ Totals.total = Totals.passed + Totals.failed + Totals.pending

\* After Ctrl+C the application ends, whatever the two threads are doing and
\* whatever has failed, except in the join of a failed start: it waits for the
\* writer before the queue is shut down, and the writer waits in the queue.
Terminates == ~app_running ~> mainPc \in Exits \cup {"fail_join"}

\* A response that is queued for a pending row is written to the row, unless
\* a response of that test could not be written or the writer is told to stop.
QueuedIsRecorded ==
    \A i \in Ids : InQueue(i) /\ db[i].status = "PENDING"
                     ~> \/ db[i].status # "PENDING"
                        \/ i \in unwritten
                        \/ ~wr_running

\* result_database.c: update "Updates an existing database record".
UpdateFindsRow == \A i \in Ids : InWriter(i) => db[i] # NoRow

\* result_database.c: "The matching record is identified by the test ID", which
\* app_protocol.h calls unique; a verdict in the table is that of its own test.
ResultOfOwnTest ==
    \A i \in Ids : dbOpen /\ db[i].status \in {"PASSED", "FAILED"}
                     => Answered(i, db[i].status, TRUE)
=============================================================================
