------------------------------ MODULE Harness ------------------------------
(***************************************************************************)
(* The load-test client of src/client/main.go: main spawning NumConns     *)
(* workers and the same-start barrier (lines 64-92), the load worker      *)
(* runClient (94-125), the test worker runClientTest (127-214) with its   *)
(* receiving goroutine runRecvTest (216-259), and runTest consuming the   *)
(* published TestResults (module Aggregator).                             *)
(*                                                                         *)
(* The hub at the other end is abstracted to what a worker observes: its  *)
(* own connect arrives first (the hub's OwnConnectOnce), each chat it     *)
(* sent successfully may be echoed back to it, and any read or write may  *)
(* fail (deadline or transport error).  The hub may also tear the         *)
(* connection down and report the worker's own disconnect to it.  Other   *)
(* workers' traffic changes nothing in runRecvTest and is left out.       *)
(*                                                                         *)
(* The flags -test and -same-start, and whether webs.NewConfig accepts    *)
(* -addr (url.Parse in main is laxer than the url.ParseRequestURI of      *)
(* NewConfig, so a relative address passes main and fails every worker), *)
(* are fixed for a run and chosen in Init.                                 *)
(***************************************************************************)
EXTENDS Aggregator, FiniteSetsExt, SequencesExt

CONSTANTS
  Workers,         \* the worker ids 1..numConns
  StartedCap,      \* capacity of startedChan (5)
  TestCap,         \* capacity of testChan (100)
  TestModes,       \* the values of -test a run considers
  SameStarts,      \* the values of -same-start a run considers
  ConfigOutcomes   \* whether NewConfig accepts -addr

ASSUME NumConns = Cardinality(Workers) /\ NumConns > 0

VARIABLES
  test, sameStart, configOK,
  mpc,        \* where main is
  started,    \* values buffered in startedChan
  collected,  \* values main's barrier loop has received from startedChan
  gateOpen,   \* close(startChan) has run
  testChan,   \* the workers whose *TestResults are buffered in testChan
  pc,         \* pc[w]: where worker w is
  rpc,        \* rpc[w]: w's runRecvTest goroutine
  dialed,     \* dialed[w]: w's dial returned no error
  sent,       \* sent[w]: msgsSent of w's send loop
  sendErr,    \* sendErr[w]: err after w's send loop
  recvd,      \* recvd[w]: msgsRecvd of w's receive loop
  tres        \* tres[w]: w's TestResults

flagVars   == <<test, sameStart, configOK>>
mainVars   == <<mpc, started, collected, gateOpen, testChan>>
workerVars == <<pc, rpc, dialed, sent, sendErr, recvd, tres>>
vars == <<flagVars, mainVars, workerVars, aggVars>>

WorkerPCs == {"config", "dial", "signal", "gate", "handshake", "send", "wait",
              "publish", "done"}

Init ==
  /\ test \in TestModes /\ sameStart \in SameStarts /\ configOK \in ConfigOutcomes
  /\ mpc = IF sameStart THEN "barrier" ELSE IF test THEN "runTest" ELSE "wait"
  /\ started = 0 /\ collected = 0 /\ gateOpen = FALSE
  /\ testChan = <<>>
  /\ pc = [w \in Workers |-> IF test THEN "config" ELSE "dial"]
  /\ rpc = [w \in Workers |-> "none"]
  /\ dialed = [w \in Workers |-> FALSE]
  /\ sent = [w \in Workers |-> 0]
  /\ sendErr = [w \in Workers |-> "nil"]
  /\ recvd = [w \in Workers |-> 0]
  /\ tres = [w \in Workers |-> NewTestResults]
  /\ AggInit

SetPC(w, to) == pc' = [pc EXCEPT ![w] = to]

\* Where a worker goes when it returns early: a test worker's deferred
\* testChan <- tres, a load worker's wg.Done().
Exit == IF test THEN "publish" ELSE "done"

\* Where a connected worker starts its run: the handshake, or sending.
Active == IF test THEN "handshake" ELSE "send"

---------------------------------------------------------------------------
(* The connect phase and the same-start barrier.                           *)

\* webs.NewConfig (lines 132-137).  On failure the worker sends on
\* startedChan whether or not -same-start is set, and returns.
NewConfig(w) ==
  /\ pc[w] = "config"
  /\ IF configOK
       THEN SetPC(w, "dial") /\ UNCHANGED <<started, tres>>
       ELSE /\ started < StartedCap
            /\ started' = started + 1
            /\ tres' = [tres EXCEPT ![w].connectErr = "config"]
            /\ SetPC(w, "publish")
  /\ UNCHANGED <<rpc, dialed, sent, sendErr, recvd, testChan>>

\* webs.DialConfig (lines 138-148) or webs.Dial (line 99), which succeeds
\* or fails within the dial timeout; without -same-start a failure returns
\* at once.
Dial(w) ==
  /\ pc[w] = "dial"
  /\ \E ok \in BOOLEAN :
       /\ dialed' = [dialed EXCEPT ![w] = ok]
       /\ tres' = [tres EXCEPT ![w].connected = ok,
                               ![w].connectErr = IF ok THEN "nil" ELSE "dial"]
       /\ SetPC(w, IF sameStart THEN "signal" ELSE IF ok THEN Active ELSE Exit)
  /\ UNCHANGED <<started, rpc, sent, sendErr, recvd, testChan>>

\* startedChan <- true (lines 101-103, 144-146), which blocks while the
\* buffer is full; then a failed dial returns.
Signal(w) ==
  /\ pc[w] = "signal"
  /\ started < StartedCap
  /\ started' = started + 1
  /\ SetPC(w, IF dialed[w] THEN "gate" ELSE Exit)
  /\ UNCHANGED <<rpc, dialed, sent, sendErr, recvd, tres, testChan>>

\* <-startChan returns once main has closed it (lines 110-112, 153-155).
PassGate(w) ==
  /\ pc[w] = "gate"
  /\ gateOpen
  /\ SetPC(w, Active)
  /\ UNCHANGED <<started, rpc, dialed, sent, sendErr, recvd, tres, testChan>>

\* Variant: a receive that does not wait for a value.
CollectStartedNoWait ==
  /\ mpc = "barrier"
  /\ collected < NumConns
  /\ started' = started - 1
  /\ collected' = collected + 1
  /\ UNCHANGED <<mpc, gateOpen, testChan, flagVars, workerVars, aggVars>>

\* Main's barrier loop (lines 77-81): one receive from startedChan.
CollectStarted ==
  /\ mpc = "barrier"
  /\ collected < NumConns
  /\ started > 0
  /\ started' = started - 1
  /\ collected' = collected + 1
  /\ UNCHANGED <<mpc, gateOpen, testChan, flagVars, workerVars, aggVars>>

\* Variant: the gate opens one signal early.
ReleaseEarly ==
  /\ mpc = "barrier"
  /\ collected + 1 >= NumConns
  /\ gateOpen' = TRUE
  /\ mpc' = IF test THEN "runTest" ELSE "wait"
  /\ UNCHANGED <<started, collected, testChan, flagVars, workerVars, aggVars>>

\* close(startChan) once NumConns signals have arrived (line 82).
Release ==
  /\ mpc = "barrier"
  /\ collected = NumConns
  /\ gateOpen' = TRUE
  /\ mpc' = IF test THEN "runTest" ELSE "wait"
  /\ UNCHANGED <<started, collected, testChan, flagVars, workerVars, aggVars>>

---------------------------------------------------------------------------
(* The test run of a connected worker: handshake, then the send loop and  *)
(* runRecvTest side by side, joined by doneChan.                           *)

\* webs.JSON.Receive of the first message (lines 157-168).  The hub writes
\* the worker's own connect first, so the check of its action never fails
\* against it; the read can still fail or time out.  On success the uuid
\* is kept and runRecvTest starts.
ReceiveUUID(w) ==
  /\ pc[w] = "handshake"
  /\ \E ok \in BOOLEAN :
       IF ok THEN rpc' = [rpc EXCEPT ![w] = "recv"] /\ SetPC(w, "send")
                  /\ UNCHANGED tres
             ELSE tres' = [tres EXCEPT ![w].recvErr = "uuid"] /\ SetPC(w, "publish")
                  /\ UNCHANGED rpc
  /\ UNCHANGED <<started, dialed, sent, sendErr, recvd, testChan>>

\* One webs.JSON.Send of the send loop (lines 181-187, 116-123), which
\* succeeds, or fails (write deadline, closed transport) and ends the loop.
SendChat(w) ==
  /\ pc[w] = "send"
  /\ sent[w] < MsgsPerConn
  /\ \E ok \in BOOLEAN :
       IF ok THEN sent' = [sent EXCEPT ![w] = @ + 1] /\ UNCHANGED <<pc, sendErr>>
             ELSE sendErr' = [sendErr EXCEPT ![w] = "write"]
                  /\ SetPC(w, IF test THEN "wait" ELSE "done")
                  /\ UNCHANGED sent
  /\ UNCHANGED <<started, rpc, dialed, recvd, tres, testChan>>

\* The loop condition fails after MsgsPerConn sends.
SendLoopEnd(w) ==
  /\ pc[w] = "send"
  /\ sent[w] = MsgsPerConn
  /\ SetPC(w, IF test THEN "wait" ELSE "done")
  /\ UNCHANGED <<started, rpc, dialed, sent, sendErr, recvd, tres, testChan>>

\* Variant: the send loop's error is not copied into tres.
FinishNoErr(w) ==
  /\ pc[w] = "wait"
  /\ rpc[w] = "done"
  /\ \E d \in Durs :
       tres' = [tres EXCEPT ![w].msgsSent = sent[w], ![w].sendDur = d]
  /\ SetPC(w, "publish")
  /\ UNCHANGED <<started, rpc, dialed, sent, sendErr, recvd, testChan>>

\* Variant: the send loop does not wait on doneChan.
FinishEarly(w) ==
  /\ pc[w] = "wait"
  /\ \E d \in Durs :
       tres' = [tres EXCEPT ![w].msgsSent = sent[w], ![w].sendDur = d,
                            ![w].sendErr = sendErr[w]]
  /\ SetPC(w, "publish")
  /\ UNCHANGED <<started, rpc, dialed, sent, sendErr, recvd, testChan>>

\* <-doneChan, ws.Close(), and the send results stored into tres
\* (lines 188-212): tres belongs to the worker again only now.
Finish(w) ==
  /\ pc[w] = "wait"
  /\ rpc[w] = "done"
  /\ \E d \in Durs :
       tres' = [tres EXCEPT ![w].msgsSent = sent[w], ![w].sendDur = d,
                            ![w].sendErr = sendErr[w]]
  /\ SetPC(w, "publish")
  /\ UNCHANGED <<started, rpc, dialed, sent, sendErr, recvd, testChan>>

\* The deferred testChan <- tres (lines 129-131), blocking while full.
Publish(w) ==
  /\ pc[w] = "publish"
  /\ Len(testChan) < TestCap
  /\ testChan' = Append(testChan, w)
  /\ SetPC(w, "done")
  /\ UNCHANGED <<started, rpc, dialed, sent, sendErr, recvd, tres>>

\* runRecvTest's last line: its counts and duration stored into tres.
RecvResults(w, why) ==
  \E d \in Durs :
    tres' = [tres EXCEPT ![w].msgsRecvd = recvd[w], ![w].recvDur = d,
                         ![w].recvErr = IF why = "read" THEN "read" ELSE @,
                         ![w].stopRecvReason =
                            IF why = "disconnect" THEN "disconnect" ELSE @]

\* A chat from this worker's own uuid arrives: one the worker has sent,
\* rebroadcast by the hub (lines 239-242).
RecvEcho(w) ==
  /\ rpc[w] = "recv"
  /\ recvd[w] # MsgsPerConn
  /\ recvd[w] < sent[w]
  /\ recvd' = [recvd EXCEPT ![w] = @ + 1]
  /\ UNCHANGED <<pc, rpc, started, dialed, sent, sendErr, tres, testChan>>

\* Variant: no read deadline, so only the last echo ends the loop.
RecvStopNoDeadline(w) ==
  /\ rpc[w] = "recv"
  /\ recvd[w] = MsgsPerConn
  /\ RecvResults(w, "all")
  /\ rpc' = [rpc EXCEPT ![w] = "done"]
  /\ UNCHANGED <<pc, started, dialed, sent, sendErr, recvd, testChan>>

\* The loop ends: every echo counted, or webs.Message.Receive failed (the
\* read deadline of the whole phase, or the transport), or the hub
\* reported this worker's own disconnect (lines 225-258); then close
\* doneChan.
RecvStop(w) ==
  /\ rpc[w] = "recv"
  /\ \E why \in {"all", "read", "disconnect"} :
       /\ (why = "all") = (recvd[w] = MsgsPerConn)
       /\ RecvResults(w, why)
  /\ rpc' = [rpc EXCEPT ![w] = "done"]
  /\ UNCHANGED <<pc, started, dialed, sent, sendErr, recvd, testChan>>

---------------------------------------------------------------------------
(* main after the barrier: runTest in test mode, wg.Wait() otherwise.     *)

\* tres := <-testChan, folded into the statistics.
TakeResult ==
  /\ mpc = "runTest"
  /\ testChan # <<>>
  /\ Consume(tres[Head(testChan)])
  /\ testChan' = Tail(testChan)
  /\ UNCHANGED <<flagVars, mpc, started, collected, gateOpen, workerVars>>

\* The report, the prompt and the error menu of runTest.
RunTestStep ==
  /\ mpc = "runTest"
  /\ \/ Report \/ Prompt \/ MenuLeave
     \/ \E k \in Categories : MenuShow(k)
  /\ UNCHANGED <<flagVars, mainVars, workerVars>>

\* wg.Wait() returns once every load worker has called wg.Done().
WaitGroup ==
  /\ mpc = "wait"
  /\ \A w \in Workers : pc[w] = "done"
  /\ mpc' = "exit"
  /\ UNCHANGED <<flagVars, started, collected, gateOpen, testChan,
                 workerVars, aggVars>>

\* main has returned.
Done == (test /\ rpt = "exit") \/ mpc = "exit"

Terminate == Done /\ UNCHANGED vars

WorkerStep(w) ==
  /\ \/ NewConfig(w) \/ Dial(w) \/ Signal(w) \/ PassGate(w)
     \/ ReceiveUUID(w) \/ SendChat(w) \/ SendLoopEnd(w) \/ Finish(w)
     \/ Publish(w)
  /\ UNCHANGED <<flagVars, mpc, collected, gateOpen, aggVars>>

RecvStep(w) ==
  /\ RecvEcho(w) \/ RecvStop(w)
  /\ UNCHANGED <<flagVars, mpc, collected, gateOpen, aggVars>>

MainStep == CollectStarted \/ Release \/ TakeResult \/ WaitGroup

Next ==
  \/ \E w \in Workers : WorkerStep(w) \/ RecvStep(w)
  \/ MainStep
  \/ RunTestStep
  \/ Terminate

\* Every goroutine runs when it can: the workers, their receivers and main
\* up to the report.  Reads and writes end at the latest at their
\* deadline, so a worker's blocking call returns.  The prompt and the menu
\* wait for the operator and are not fair.
Fairness ==
  /\ \A w \in Workers : WF_vars(WorkerStep(w)) /\ WF_vars(RecvStep(w))
  /\ WF_vars(MainStep)
  /\ WF_vars(mpc = "runTest" /\ Report /\ UNCHANGED <<flagVars, mainVars, workerVars>>)

Spec == Init /\ [][Next]_vars /\ Fairness

---------------------------------------------------------------------------
TypeOK ==
  /\ test \in BOOLEAN /\ sameStart \in BOOLEAN /\ configOK \in BOOLEAN
  /\ mpc \in {"barrier", "runTest", "wait", "exit"}
  /\ started \in 0..StartedCap /\ collected \in 0..NumConns
  /\ gateOpen \in BOOLEAN
  /\ testChan \in Seq(Workers) /\ Len(testChan) <= TestCap
  /\ pc \in [Workers -> WorkerPCs]
  /\ rpc \in [Workers -> {"none", "recv", "done"}]
  /\ dialed \in [Workers -> BOOLEAN]
  /\ sent \in [Workers -> 0..MsgsPerConn]
  /\ sendErr \in [Workers -> SendErrs]
  /\ recvd \in [Workers -> 0..MsgsPerConn]
  /\ tres \in [Workers -> TestResults]
  /\ nres \in 0..NumConns /\ numPassed \in 0..NumConns
  /\ errs \in [Categories -> Seq(ConnectErrs \cup SendErrs \cup RecvErrs \cup StopReasons \cup {""})]
  /\ rpt \in {"collect", "prompt", "menu", "exit"}

\* The results runTest has taken from testChan, and those among them that
\* failed the send or the receive phase after connecting.
Consumed   == {w \in Workers : test /\ pc[w] = "done" /\ w \notin ToSet(testChan)}
FailedSend == {w \in Consumed : tres[w].connected /\ tres[w].msgsSent # MsgsPerConn}
FailedRecv == {w \in Consumed : tres[w].connected /\ tres[w].msgsRecvd # MsgsPerConn}

\* Section 4.6: a result passes iff it connected and sent and received
\* MsgsPerConn messages.
PassesSpec(r) ==
  r.connected /\ r.msgsSent = MsgsPerConn /\ r.msgsRecvd = MsgsPerConn

\* Every worker sent on startedChan before any worker began its handshake
\* or its sends: with -same-start the barrier of main counts one signal
\* per worker, whether its connect succeeded or failed, before it closes
\* startChan.
StartTogether ==
  sameStart =>
    \A w, v \in Workers :
      pc[w] \in {"handshake", "send"} => pc[v] \notin {"config", "dial", "signal"}

\* The statistics runTest folds result by result (lines 279-365) are those
\* of the results it has taken, whatever order they arrive in: the pass
\* count, one connect error per unconnected worker, one send error per
\* failed send, one receive-side entry per failed receive, and the sum,
\* minimum and maximum of the messages the failed phases transferred.
StatsMatchResults ==
  (test /\ rpt = "collect") =>
    /\ numPassed = Cardinality({w \in Consumed : PassesSpec(tres[w])})
    /\ Len(errs["connect"]) = Cardinality({w \in Consumed : ~tres[w].connected})
    /\ Len(errs["send"]) = Cardinality(FailedSend)
    /\ Len(errs["recv"]) + Len(errs["stop"]) + Len(errs["server"])
         = Cardinality(FailedRecv)
    /\ failedMsgsSentSum = MapThenSumSet(LAMBDA w : tres[w].msgsSent, FailedSend)
    /\ minMsgsSent = Min({MsgsPerConn} \cup {tres[w].msgsSent : w \in FailedSend})
    /\ maxMsgsSent = Max({0} \cup {tres[w].msgsSent : w \in FailedSend})
    /\ failedMsgsRecvdSum = MapThenSumSet(LAMBDA w : tres[w].msgsRecvd, FailedRecv)
    /\ minMsgsRecvd = Min({MsgsPerConn} \cup {tres[w].msgsRecvd : w \in FailedRecv})
    /\ maxMsgsRecvd = Max({0} \cup {tres[w].msgsRecvd : w \in FailedRecv})

\* runTest appends tres.sendErr for every connected result whose count
\* falls short (line 318), and a worker that failed its UUID handshake
\* never ran its send loop: its sendErr is nil.  The nil entries of the
\* send-error list are exactly those workers; every other entry is the
\* error that ended a send loop early.
NilSendErrsAreHandshakeFailures ==
  (test /\ rpt = "collect") =>
    Cardinality({i \in DOMAIN errs["send"] : errs["send"][i] = "nil"})
      = Cardinality({w \in FailedSend : tres[w].recvErr = "uuid"})

\* The run reports: in test mode runTest receives all NumConns results and
\* prints its report; otherwise wg.Wait() returns.  Every worker sends on
\* startedChan at most once and main drains it whenever -same-start is
\* set, and testChan has room for every result.
RunReports == <>(IF test THEN rpt # "collect" ELSE mpc = "exit")

---------------------------------------------------------------------------
(* The worker protocol of spec section 4.5 (module WorkerProtocol).        *)

\* The abstract phase of each worker's pc: the connect phase up to its
\* startedChan signal, waiting at startChan, the UUID handshake, sending
\* (runRecvTest beside it), waiting on doneChan, the deferred publish.
AbsState(w) ==
  CASE pc[w] \in {"config", "dial", "signal"} -> "Connecting"
    [] pc[w] = "gate"                        -> "Ready"
    [] pc[w] = "handshake"                   -> "AwaitingHandshake"
    [] pc[w] = "send"                        -> "Active"
    [] pc[w] = "wait"                        -> "Draining"
    [] pc[w] = "publish"                     -> "Closed"
    [] pc[w] = "done"                        -> "Finished"

WP == INSTANCE WorkerProtocol WITH
        N         <- NumConns,
        together  <- sameStart,
        state     <- [w \in Workers |-> AbsState(w)],
        receiving <- [w \in Workers |-> rpc[w] = "recv"],
        results   <- testChan,
        taken     <- nres,
        reported  <- IF test THEN rpt # "collect" ELSE mpc = "exit"

\* The client follows the protocol of section 4.5: no worker runs before
\* every worker has signalled when -same-start is set; a connect or
\* handshake failure ends the run and publishes an incomplete result; a
\* result is stored and published only after runRecvTest has closed
\* doneChan, so the two goroutines never write it at once; each worker
\* publishes one result, and runTest reports after taking the N-th.
ImplementsWorkerProtocol == WP!Spec

---------------------------------------------------------------------------
(* What the spec says of the client and the code does not do.              *)

\* Section 4.6: the report's figures for the send and receive phases are
\* those of the results: the longest failed send and receive phases, the
\* most messages a failed sender sent, and how many connected workers
\* completed each phase.  They are printed once some worker connected.
ReportedPhaseStats ==
  LET connected == {w \in Consumed : tres[w].connected} IN
  (test /\ rpt # "collect" /\ connected # {}) =>
    /\ maxFailedSendDur = Max({0} \cup {tres[w].sendDur : w \in FailedSend})
    /\ maxFailedRecvDur = Max({0} \cup {tres[w].recvDur : w \in FailedRecv})
    /\ FailedSend # {} => maxMsgsSent = Max({tres[w].msgsSent : w \in FailedSend})
    /\ NumPassedSend = Cardinality(connected \ FailedSend)
    /\ NumPassedRecv = Cardinality(connected \ FailedRecv)

=============================================================================
