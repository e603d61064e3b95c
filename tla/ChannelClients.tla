--------------------------- MODULE ChannelClients ---------------------------
(***************************************************************************)
(* A Channel used on its own, the way section 8 of the spec stresses it:  *)
(* several goroutines each call Send once, several call Close once (Close *)
(* must be idempotent), and one consumer per channel ranges over ch.c as  *)
(* the hub's writer goroutine does (src/wschat-go/main.go, lines 92-96).  *)
(***************************************************************************)
EXTENDS Channel

VARIABLES
  calledS,       \* senders whose Send call has started
  calledC,       \* closers whose Close call has started
  out,           \* out[ch]: values the consumer of ch has received
  consumerDone   \* consumerDone[ch]: the range loop over ch.c has ended

vars == <<chanVars, sendVars, closeVars, calledS, calledC, out, consumerDone>>

Init ==
  /\ ChanInit
  /\ calledS = {}
  /\ calledC = {}
  /\ out = [ch \in Chans |-> <<>>]
  /\ consumerDone = [ch \in Chans |-> FALSE]

envVars == <<calledS, calledC, out, consumerDone>>

StartSend(s) ==
  /\ s \notin calledS
  /\ \E ch \in Chans : SendLoad(s, ch)
  /\ calledS' = calledS \cup {s}
  /\ UNCHANGED <<calledC, out, consumerDone>>

StartClose(k) ==
  /\ k \notin calledC
  /\ \E ch \in Chans : CallClose(k, ch)
  /\ calledC' = calledC \cup {k}
  /\ UNCHANGED <<calledS, out, consumerDone>>

\* for msg := range channel.c: receive the next buffered value ...
Consume(ch) ==
  /\ ~consumerDone[ch]
  /\ Recv(ch)
  /\ out' = [out EXCEPT ![ch] = Append(@, Head(buf[ch]))]
  /\ UNCHANGED <<chClosed, closed, readers, wlock, sendVars, closeVars,
                 calledS, calledC, consumerDone>>

\* ... until ch.c is closed and empty.
ConsumerExit(ch) ==
  /\ ~consumerDone[ch]
  /\ RangeOver(ch)
  /\ consumerDone' = [consumerDone EXCEPT ![ch] = TRUE]
  /\ UNCHANGED <<chanVars, sendVars, closeVars, calledS, calledC, out>>

\* A step of a Send or Close call already under way.
SenderStep(s) == SendPush(s) /\ UNCHANGED envVars
CloserStep(k) == CloseChan(k) /\ UNCHANGED envVars

\* Every call has been made and has returned, and every consumer has ended.
Finished ==
  /\ calledS = Senders /\ calledC = Closers
  /\ \A s \in Senders : spc[s] = "idle"
  /\ \A k \in Closers : cpc[k] = "idle"
  /\ \A ch \in Chans : consumerDone[ch]

\* The program has ended: only stuttering remains.
Terminate == Finished /\ UNCHANGED vars

Next ==
  \/ \E s \in Senders : StartSend(s) \/ SenderStep(s)
  \/ \E k \in Closers : StartClose(k) \/ CloserStep(k)
  \/ \E ch \in Chans : Consume(ch) \/ ConsumerExit(ch)
  \/ Terminate

\* Goroutines that can run eventually run (Go's scheduler), and the test
\* driving the channel makes every call it was written to make.
Fairness ==
  /\ \A s \in Senders : WF_vars(StartSend(s)) /\ WF_vars(SenderStep(s))
  /\ \A k \in Closers : WF_vars(StartClose(k)) /\ WF_vars(CloserStep(k))
  /\ \A ch \in Chans : WF_vars(Consume(ch)) /\ WF_vars(ConsumerExit(ch))

Spec == Init /\ [][Next]_vars /\ Fairness

---------------------------------------------------------------------------
TypeOK ==
  /\ ChanTypeOK
  /\ calledS \subseteq Senders
  /\ calledC \subseteq Closers
  /\ out \in [Chans -> Seq(Senders)]
  /\ consumerDone \in [Chans -> BOOLEAN]

\* No goroutine ever sends on, or closes, a Go channel that close(c.c) has
\* already closed: the RLock/Lock discipline of Send and Close keeps every
\* in-flight send ahead of the close, however many senders race closers.
NoPanic ==
  /\ \A s \in Senders : spc[s] # "panic"
  /\ \A k \in Closers : cpc[k] # "panic"

\* Every Send and every Close call returns, and every consumer's range loop
\* ends: a sender blocked on a full buffer while holding the read lock is
\* freed by the consumer, so the closer waiting for the write lock gets it.
AllCallsReturn == <>Finished

\* The Channel implements the atomic SafeQueue: a value enters the buffer
\* only while close(c.c) has not run, the buffer stays within Cap, and
\* every value that entered is handed to the consumer, in FIFO order.
SQ == INSTANCE SafeQueue
        WITH queue <- buf, isClosed <- chClosed, delivered <- out,
             Values <- Senders

ImplementsSafeQueue == SQ!Spec

=============================================================================
