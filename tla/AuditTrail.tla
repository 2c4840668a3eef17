----------------------------- MODULE AuditTrail -----------------------------
(***************************************************************************)
(* The audit trail of a server process: requests that leave a row each     *)
(* (audit.Middleware), the bounded queue and the writer behind it          *)
(* (audit.Recorder), and the way the process ends (main).                  *)
(*                                                                         *)
(* A request queues its row on its own goroutine and never waits for the   *)
(* database; one writer empties the queue.  At the end the HTTP server is  *)
(* shut down first, then the recorder, then the database.                  *)
(***************************************************************************)
EXTENDS Integers, Sequences, FiniteSets

CONSTANTS
    Audited,   \* requests on audited routes, a row for each
    QueueSize  \* queueSize

ASSUME AuditAssumption == QueueSize \in Nat \ {0} /\ IsFiniteSet(Audited)

VARIABLES
    audited,   \* how far each request is
    queue,     \* Recorder.queue
    writer,    \* Recorder.run: the row it writes, if any
    stopped,   \* Recorder.stopped
    closing,   \* Recorder.closing is closed
    dropped,   \* Recorder.dropped
    written,   \* the rows in audit.audit_log
    failed,    \* the rows whose insert failed
    server     \* main

auditVars == <<audited, queue, writer, stopped, closing, dropped, written, failed, server>>

-----------------------------------------------------------------------------
(* State *)

Progress == {"none", "handling", "recording", "sending", "done", "panicked"}

\* "killed" by log.Fatalf, which runs none of the deferred calls.
ServerStates == {"serving", "shutting", "closing", "exited", "killed"}

WriterState == [pc : {"selecting", "gone"}] \cup [pc : {"writing"}, row : Audited]

Selecting == [pc |-> "selecting"]

AuditInit ==
    /\ audited = [a \in Audited |-> "none"]
    /\ queue = << >>
    /\ writer = Selecting
    /\ stopped = FALSE /\ closing = FALSE
    /\ dropped = 0
    /\ written = {} /\ failed = {}
    /\ server = "serving"

Running == server \notin {"exited", "killed"}

UnderWay == {a \in Audited : audited[a] \in {"handling", "recording", "sending"}}

Goes(a, pc) == audited' = [audited EXCEPT ![a] = pc]

-----------------------------------------------------------------------------
(* Middleware *)

\* Once the listener is closed no request comes in any more.
Arrive(a) ==
    /\ server = "serving" /\ audited[a] = "none"
    /\ Goes(a, "handling")
    /\ UNCHANGED <<queue, writer, stopped, closing, dropped, written, failed, server>>

Handled(a) ==
    /\ Running /\ audited[a] = "handling"
    /\ Goes(a, "recording")
    /\ UNCHANGED <<queue, writer, stopped, closing, dropped, written, failed, server>>

\* gin.Recovery answers 500; what follows c.Next() does not happen.
Panic(a) ==
    /\ Running /\ audited[a] = "handling"
    /\ Goes(a, "panicked")
    /\ UNCHANGED <<queue, writer, stopped, closing, dropped, written, failed, server>>

-----------------------------------------------------------------------------
(* Record *)

Drop(a) ==
    /\ dropped' = dropped + 1
    /\ Goes(a, "done")
    /\ UNCHANGED <<queue, writer, stopped, closing, written, failed, server>>

CheckStopped(a) ==
    /\ Running /\ audited[a] = "recording"
    /\ IF stopped
       THEN Drop(a)
       ELSE /\ Goes(a, "sending")
            /\ UNCHANGED <<queue, writer, stopped, closing, dropped, written, failed, server>>

Enqueue(a) ==
    /\ Running /\ audited[a] = "sending"
    /\ Len(queue) < QueueSize
    /\ queue' = Append(queue, a)
    /\ Goes(a, "done")
    /\ UNCHANGED <<writer, stopped, closing, dropped, written, failed, server>>

\* The default of the select.
DropFull(a) ==
    /\ Running /\ audited[a] = "sending"
    /\ Len(queue) = QueueSize
    /\ Drop(a)

-----------------------------------------------------------------------------
(* run: the writer *)

\* Both selects take from the queue whenever it holds a row.
Take ==
    /\ Running /\ writer = Selecting /\ queue # << >>
    /\ writer' = [pc |-> "writing", row |-> Head(queue)]
    /\ queue' = Tail(queue)
    /\ UNCHANGED <<audited, stopped, closing, dropped, written, failed, server>>

\* persist; a failure is logged.
Persist ==
    /\ Running /\ writer.pc = "writing"
    /\ \/ written' = written \cup {writer.row} /\ UNCHANGED failed
       \/ failed' = failed \cup {writer.row} /\ UNCHANGED written
    /\ writer' = Selecting
    /\ UNCHANGED <<audited, queue, stopped, closing, dropped, server>>

\* The select on closing, then the inner loop's default.
Drained ==
    /\ Running /\ writer = Selecting
    /\ closing /\ queue = << >>
    /\ writer' = [pc |-> "gone"]
    /\ UNCHANGED <<audited, queue, stopped, closing, dropped, written, failed, server>>

-----------------------------------------------------------------------------
(* main *)

\* SIGTERM or an interrupt: server.Shutdown closes the listener and waits.
Signal ==
    /\ server = "serving"
    /\ server' = "shutting"
    /\ UNCHANGED <<audited, queue, writer, stopped, closing, dropped, written, failed>>

\* Faulty variant: the recorder is closed beside the requests under way.
CloseRecorderAtOnce ==
    /\ server = "shutting"
    /\ server' = "closing"
    /\ stopped' = TRUE /\ closing' = TRUE
    /\ UNCHANGED <<audited, queue, writer, dropped, written, failed>>

\* All requests are through, and the deferred calls run: Recorder.Close.
CloseRecorder ==
    /\ server = "shutting" /\ UnderWay = {}
    /\ server' = "closing"
    /\ stopped' = TRUE /\ closing' = TRUE
    /\ UNCHANGED <<audited, queue, writer, dropped, written, failed>>

\* Shutdown's ten seconds are over, or the listener has failed: log.Fatalf.
Killed ==
    /\ \/ server = "serving"
       \/ server = "shutting" /\ UnderWay # {}
    /\ server' = "killed"
    /\ UNCHANGED <<audited, queue, writer, stopped, closing, dropped, written, failed>>

\* Close returns, what was dropped is reported, the database is closed.
Exit ==
    /\ server = "closing" /\ writer.pc = "gone"
    /\ server' = "exited"
    /\ UNCHANGED <<audited, queue, writer, stopped, closing, dropped, written, failed>>

\* The process is no more.
Rest == ~Running /\ UNCHANGED auditVars

-----------------------------------------------------------------------------
(* Specification *)

Records(a) == CheckStopped(a) \/ Enqueue(a) \/ DropFull(a)

AuditNext ==
    \/ \E a \in Audited : Arrive(a) \/ Handled(a) \/ Panic(a) \/ Records(a)
    \/ Take \/ Persist \/ Drained
    \/ Signal \/ CloseRecorder \/ Killed \/ Exit
    \/ Rest

AuditSpec == AuditInit /\ [][AuditNext]_auditVars

-----------------------------------------------------------------------------
(* Properties *)

AuditTypeOK ==
    /\ audited \in [Audited -> Progress]
    /\ queue \in Seq(Audited) /\ Len(queue) <= QueueSize
    /\ writer \in WriterState
    /\ {stopped, closing} \subseteq BOOLEAN
    /\ dropped \in Nat
    /\ written \subseteq Audited /\ failed \subseteq Audited
    /\ server \in ServerStates

Finished == {a \in Audited : audited[a] = "done"}

\* An orderly end loses no row silently: each request that was handled has its
\* row, a failure in the log, or a place in the count that main reports
\* (audit/recorder.go:87, cmd/server/main.go:92).
RowsAccounted ==
    server = "exited"
      => /\ UnderWay = {} /\ queue = << >>
         /\ written \cup failed \subseteq Finished
         /\ dropped = Cardinality(Finished \ (written \cup failed))
=============================================================================
