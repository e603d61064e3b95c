----------------------------- MODULE Aggregator -----------------------------
(***************************************************************************)
(* The result aggregator of the load-test client: runTest in               *)
(* src/client/main.go (lines 261-531) and the TestResults it consumes     *)
(* (lines 533-562).                                                         *)
(*                                                                         *)
(* runTest receives NumConns results from testChan, classifies each one   *)
(* by phase and folds it into running statistics; then it prints a        *)
(* report and, when some worker failed, lets the operator browse the      *)
(* errors one category at a time.  Printing, averages and the float sums  *)
(* of durations are left out; the counts, the min/max trackers and the    *)
(* error lists the report and the menu are built from are kept.           *)
(***************************************************************************)
EXTENDS Naturals, Sequences, FiniteSets

CONSTANTS
  NumConns,     \* the -c flag
  MsgsPerConn,  \* the -mpc flag
  Durs          \* the durations a phase may take, as small numbers

\* What a TestResults holds once published.  Errors are abstracted to their
\* kind; "nil" is the nil error.  A phase that never ran keeps duration 0.
ConnectErrs == {"nil", "config", "dial"}
SendErrs    == {"nil", "write"}
RecvErrs    == {"nil", "uuid", "read"}
StopReasons == {"nil", "unexpected", "disconnect"}

TestResults ==
  [connected : BOOLEAN, connectErr : ConnectErrs,
   msgsSent : 0..MsgsPerConn, sendDur : {0} \cup Durs, sendErr : SendErrs,
   msgsRecvd : 0..MsgsPerConn, recvDur : {0} \cup Durs, recvErr : RecvErrs,
   stopRecvReason : StopReasons]

\* newTestResults(id): everything zero.
NewTestResults ==
  [connected |-> FALSE, connectErr |-> "nil", msgsSent |-> 0, sendDur |-> 0,
   sendErr |-> "nil", msgsRecvd |-> 0, recvDur |-> 0, recvErr |-> "nil",
   stopRecvReason |-> "nil"]

\* The error categories of the menu, numbered 1 to 5 in the code.
Categories == {"connect", "send", "recv", "stop", "server"}

VARIABLES
  nres,               \* i: results received from testChan so far
  numPassed,
  errs,               \* errs[k]: connectErrs, sendErrs, recvErrs,
                      \* stopRecvReasons and serverErrs
  failedMsgsSentSum, minMsgsSent, maxMsgsSent,
  failedMsgsRecvdSum, minMsgsRecvd, maxMsgsRecvd,
  maxFailedSendDur, maxFailedRecvDur,
  rpt                 \* where runTest is

aggVars == <<nres, numPassed, errs, failedMsgsSentSum, minMsgsSent,
             maxMsgsSent, failedMsgsRecvdSum, minMsgsRecvd, maxMsgsRecvd,
             maxFailedSendDur, maxFailedRecvDur, rpt>>

\* The declarations at the top of runTest (lines 262-278).
AggInit ==
  /\ nres = 0
  /\ numPassed = 0
  /\ errs = [k \in Categories |-> <<>>]
  /\ failedMsgsSentSum = 0 /\ failedMsgsRecvdSum = 0
  /\ minMsgsSent = MsgsPerConn /\ minMsgsRecvd = MsgsPerConn
  /\ maxMsgsSent = 0 /\ maxMsgsRecvd = 0
  /\ maxFailedSendDur = 0 /\ maxFailedRecvDur = 0
  /\ rpt = "collect"

---------------------------------------------------------------------------
RaiseIf(c, cur, x) == IF c /\ x > cur THEN x ELSE cur
LowerIf(c, cur, x) == IF c /\ x < cur THEN x ELSE cur

\* The phases in which a connected worker fell short of MsgsPerConn.
SendFailed(r) == r.msgsSent # MsgsPerConn
RecvFailed(r) == r.msgsRecvd # MsgsPerConn

\* Variant: a result counts as passed once all its messages were sent.
PassedSendOnly(r) == r.connected /\ ~SendFailed(r)

\* passed stays true through the three checks of lines 281-362.
Passed(r) == r.connected /\ ~SendFailed(r) /\ ~RecvFailed(r)

\* The receive-failure attribution of lines 344-350: a receive error, else
\* an early-stop reason, else the server's error text (which the hub never
\* sends to this client, so it is the empty string).
RecvCategory(r) ==
  IF r.recvErr # "nil" THEN "recv"
  ELSE IF r.stopRecvReason # "nil" THEN "stop"
  ELSE "server"

RecvEntry(r) ==
  CASE RecvCategory(r) = "recv" -> r.recvErr
    [] RecvCategory(r) = "stop" -> r.stopRecvReason
    [] OTHER                    -> ""

\* One iteration of the loop of lines 279-365: tres := <-testChan, then
\* the connect, send and receive classification in that order.  A result
\* that did not connect counts only as a connect error (continue).  Note
\* line 342: a new maximum failed receive duration is stored into
\* maxFailedSendDur, so maxFailedRecvDur never changes.
Consume(r) ==
  LET sendFail == SendFailed(r)
      recvFail == RecvFailed(r)
  IN
  /\ rpt = "collect"
  /\ nres < NumConns
  /\ nres' = nres + 1
  /\ IF ~r.connected
       THEN /\ errs' = [errs EXCEPT !["connect"] = Append(@, r.connectErr)]
            /\ UNCHANGED <<numPassed, failedMsgsSentSum, minMsgsSent,
                           maxMsgsSent, failedMsgsRecvdSum, minMsgsRecvd,
                           maxMsgsRecvd, maxFailedSendDur, maxFailedRecvDur>>
       ELSE /\ numPassed' = numPassed + (IF Passed(r) THEN 1 ELSE 0)
            /\ failedMsgsSentSum' = failedMsgsSentSum + (IF sendFail THEN r.msgsSent ELSE 0)
            /\ maxMsgsSent' = RaiseIf(sendFail, maxMsgsSent, r.msgsSent)
            /\ minMsgsSent' = LowerIf(sendFail, minMsgsSent, r.msgsSent)
            /\ failedMsgsRecvdSum' = failedMsgsRecvdSum + (IF recvFail THEN r.msgsRecvd ELSE 0)
            /\ maxMsgsRecvd' = RaiseIf(recvFail, maxMsgsRecvd, r.msgsRecvd)
            /\ minMsgsRecvd' = LowerIf(recvFail, minMsgsRecvd, r.msgsRecvd)
            /\ maxFailedSendDur' =
                 IF recvFail /\ r.recvDur > maxFailedRecvDur
                   THEN r.recvDur
                   ELSE RaiseIf(sendFail, maxFailedSendDur, r.sendDur)
            /\ UNCHANGED maxFailedRecvDur
            /\ errs' = [errs EXCEPT
                          !["send"] = IF sendFail THEN Append(@, r.sendErr) ELSE @,
                          ![RecvCategory(r)] = IF recvFail THEN Append(@, RecvEntry(r)) ELSE @]
  /\ UNCHANGED rpt

---------------------------------------------------------------------------
(* After the loop: the report (lines 367-468) and the error menu          *)
(* (lines 470-530).                                                        *)

\* Lines 367-373 and the two exits before the menu: with no connected
\* worker the report jumps to the menu (goto ErrorsMenu); with no failed
\* worker runTest returns.  Line 372: once any worker passed, the failed
\* maxima of messages sent and received are overwritten with MsgsPerConn.
Report ==
  LET numFailed    == NumConns - numPassed
      numConnected == NumConns - Len(errs["connect"])
  IN
  /\ rpt = "collect"
  /\ nres = NumConns
  /\ IF numPassed # 0
       THEN maxMsgsSent' = MsgsPerConn /\ maxMsgsRecvd' = MsgsPerConn
       ELSE UNCHANGED <<maxMsgsSent, maxMsgsRecvd>>
  /\ rpt' = IF numConnected = 0 THEN "prompt"
            ELSE IF numFailed = 0 THEN "exit" ELSE "prompt"
  /\ UNCHANGED <<nres, numPassed, errs, failedMsgsSentSum, minMsgsSent,
                 failedMsgsRecvdSum, minMsgsRecvd, maxFailedSendDur,
                 maxFailedRecvDur>>

\* The passed counts the send and receive sections print (lines 410 and
\* 438-439): numConns minus the failures recorded for that phase, which
\* leaves the workers that never connected among the passed.
NumPassedSend == NumConns - Len(errs["send"])
NumPassedRecv == NumConns - (Len(errs["recv"]) + Len(errs["stop"]) + Len(errs["server"]))

\* "Go through errors? [Y/n] ": only y or yes enters the menu.
Prompt ==
  /\ rpt = "prompt"
  /\ \E yes \in BOOLEAN : rpt' = IF yes THEN "menu" ELSE "exit"
  /\ UNCHANGED <<nres, numPassed, errs, failedMsgsSentSum, minMsgsSent,
                 maxMsgsSent, failedMsgsRecvdSum, minMsgsRecvd, maxMsgsRecvd,
                 maxFailedSendDur, maxFailedRecvDur>>

\* The operator picks a non-empty category: its first error is printed
\* and removed.
MenuShow(k) ==
  /\ rpt = "menu"
  /\ errs[k] # <<>>
  /\ errs' = [errs EXCEPT ![k] = Tail(@)]
  /\ UNCHANGED <<nres, numPassed, failedMsgsSentSum, minMsgsSent,
                 maxMsgsSent, failedMsgsRecvdSum, minMsgsRecvd, maxMsgsRecvd,
                 maxFailedSendDur, maxFailedRecvDur, rpt>>

\* The operator picks 0, or every category is empty: runTest returns.
MenuLeave ==
  /\ rpt = "menu"
  /\ rpt' = "exit"
  /\ UNCHANGED <<nres, numPassed, errs, failedMsgsSentSum, minMsgsSent,
                 maxMsgsSent, failedMsgsRecvdSum, minMsgsRecvd, maxMsgsRecvd,
                 maxFailedSendDur, maxFailedRecvDur>>

=============================================================================
