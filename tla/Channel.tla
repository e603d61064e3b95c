------------------------------ MODULE Channel ------------------------------
(***************************************************************************)
(* The hub's closable outbound queue, Channel[T] in src/wschat-go/main.go. *)
(*                                                                         *)
(* A Channel wraps a buffered Go channel c of capacity Cap, an atomic      *)
(* closed flag and a sync.RWMutex.  Send takes the read lock, loads the    *)
(* flag and, if it is clear, performs the (possibly blocking) channel      *)
(* send; Close swaps the flag to TRUE and, if it was clear, takes the      *)
(* write lock and closes the Go channel.  One consumer ranges over c.      *)
(*                                                                         *)
(* Every step of Send and Close is its own action so that a Close may      *)
(* interleave anywhere in a Send.  A sender or closer is a process with    *)
(* a program counter; a call is started by its caller with SendLoad or     *)
(* CallClose and has returned when the pc is back at "idle".  Sending on  *)
(* or closing an already closed Go channel panics in Go: the process then *)
(* moves to "panic" and stays there.                                       *)
(*                                                                         *)
(* Go's RWMutex prefers writers: once Lock has been called, new RLock     *)
(* calls block until the writer has unlocked (wlock = "pending" from the  *)
(* call of Lock until Unlock).                                             *)
(***************************************************************************)
EXTENDS Naturals, Sequences, FiniteSets

CONSTANTS
  Chans,     \* the Channel objects
  Senders,   \* goroutines that call Send
  Closers,   \* goroutines that call Close
  Cap        \* buffer length given to NewChannel (50 in the hub)

ASSUME Cap \in Nat \ {0}

VARIABLES
  buf,       \* buf[ch]: contents of the Go channel ch.c
  chClosed,  \* chClosed[ch]: close(ch.c) has been executed
  closed,    \* closed[ch]: the atomic.Bool ch.closed
  readers,   \* readers[ch]: senders holding ch.mtx for reading
  wlock,     \* wlock[ch]: state of the writer side of ch.mtx
  spc,       \* spc[s]: where sender s is in Send
  starget,   \* starget[s]: the Channel s is sending on
  cpc,       \* cpc[k]: where closer k is in Close
  ctarget    \* ctarget[k]: the Channel k is closing

chanVars  == <<buf, chClosed, closed, readers, wlock>>
sendVars  == <<spc, starget>>
closeVars == <<cpc, ctarget>>

SendPCs  == {"idle", "push", "panic"}
ClosePCs == {"idle", "wait", "panic"}
WLockStates == {"free", "pending"}

\* A sender's target is kept only while its call is under way.
NoChan == CHOOSE ch \in Chans : TRUE

\* NewChannel: an empty, open channel with an unlocked mutex.
ChanInit ==
  /\ buf      = [ch \in Chans |-> <<>>]
  /\ chClosed = [ch \in Chans |-> FALSE]
  /\ closed   = [ch \in Chans |-> FALSE]
  /\ readers  = [ch \in Chans |-> {}]
  /\ wlock    = [ch \in Chans |-> "free"]
  /\ spc      = [s \in Senders |-> "idle"]
  /\ starget  = [s \in Senders |-> NoChan]
  /\ cpc      = [k \in Closers |-> "idle"]
  /\ ctarget  = [k \in Closers |-> CHOOSE ch \in Chans : TRUE]

SetPC(s, to) == spc' = [spc EXCEPT ![s] = to]

SetCPC(k, to) == cpc' = [cpc EXCEPT ![k] = to]

---------------------------------------------------------------------------
(* Send(val), lines 31-37.  The call, RLock and the Load of the flag are  *)
(* one step, and so are the channel send and RUnlock: the read lock is    *)
(* held across the (possibly blocking) send, and nothing but a waiting    *)
(* closer observes the lock, so finer steps add no outcome.               *)

\* The caller invokes ch.Send(v): c.mtx.RLock(), which blocks while a
\* writer holds or waits for the lock; then if !c.closed.Load(), else
\* RUnlock and return.  A sender sends one fixed value, named by the
\* sender itself (in the hub, a broadcast and the message it carries).
SendLoad(s, ch) ==
  /\ spc[s] = "idle"
  /\ wlock[ch] = "free"
  /\ IF closed[ch]
       THEN UNCHANGED <<readers, starget>> /\ SetPC(s, "idle")
       ELSE /\ readers' = [readers EXCEPT ![ch] = @ \cup {s}]
            /\ starget' = [starget EXCEPT ![s] = ch]
            /\ SetPC(s, "push")
  /\ UNCHANGED <<buf, chClosed, closed, wlock, closeVars>>

\* Variant: a send that does not wait for room in the buffer.
SendPushNoBlock(s) ==
  LET ch == starget[s] IN
  /\ spc[s] = "push"
  /\ IF chClosed[ch]
       THEN SetPC(s, "panic") /\ UNCHANGED <<buf, readers, starget>>
       ELSE /\ buf' = [buf EXCEPT ![ch] = Append(@, s)]
            /\ readers' = [readers EXCEPT ![ch] = @ \ {s}]
            /\ SetPC(s, "idle")
            /\ starget' = [starget EXCEPT ![s] = NoChan]
  /\ UNCHANGED <<chClosed, closed, wlock, closeVars>>

\* Variant: a return path that skips RUnlock after the send.
SendPushNoUnlock(s) ==
  LET ch == starget[s] IN
  /\ spc[s] = "push"
  /\ chClosed[ch] \/ Len(buf[ch]) < Cap
  /\ IF chClosed[ch]
       THEN SetPC(s, "panic") /\ UNCHANGED <<buf, starget>>
       ELSE /\ buf' = [buf EXCEPT ![ch] = Append(@, s)]
            /\ SetPC(s, "idle")
            /\ starget' = [starget EXCEPT ![s] = NoChan]
  /\ UNCHANGED <<chClosed, closed, readers, wlock, closeVars>>

\* c.c <- val, which blocks while the buffer is full and panics on a
\* closed channel; then c.mtx.RUnlock() and Send returns.
SendPush(s) ==
  LET ch == starget[s] IN
  /\ spc[s] = "push"
  /\ chClosed[ch] \/ Len(buf[ch]) < Cap
  /\ IF chClosed[ch]
       THEN SetPC(s, "panic") /\ UNCHANGED <<buf, readers, starget>>
       ELSE /\ buf' = [buf EXCEPT ![ch] = Append(@, s)]
            /\ readers' = [readers EXCEPT ![ch] = @ \ {s}]
            /\ SetPC(s, "idle")
            /\ starget' = [starget EXCEPT ![s] = NoChan]
  /\ UNCHANGED <<chClosed, closed, wlock, closeVars>>

---------------------------------------------------------------------------
(* Close(), lines 39-45.  The Swap and the writer's announcement in Lock  *)
(* are one step, and so are the grant of the lock, close(c.c) and Unlock: *)
(* a reader arriving in between blocks, then finds the flag set.          *)

\* The caller invokes ch.Close(): if !c.closed.Swap(true) { c.mtx.Lock() }.
\* The writer announces itself, so that no new reader gets in; a Close
\* that finds the flag already set returns at once.
CallClose(k, ch) ==
  /\ cpc[k] = "idle"
  /\ closed' = [closed EXCEPT ![ch] = TRUE]
  /\ IF closed[ch]
       THEN SetCPC(k, "idle") /\ UNCHANGED wlock
       ELSE /\ wlock[ch] = "free"
            /\ wlock' = [wlock EXCEPT ![ch] = "pending"]
            /\ SetCPC(k, "wait")
  /\ ctarget' = [ctarget EXCEPT ![k] = ch]
  /\ UNCHANGED <<buf, chClosed, readers, sendVars>>

\* Variant: close(c.c) without waiting for the readers to leave.
CloseChanNoWait(k) ==
  LET ch == ctarget[k] IN
  /\ cpc[k] = "wait"
  /\ chClosed' = [chClosed EXCEPT ![ch] = TRUE]
  /\ wlock' = [wlock EXCEPT ![ch] = "free"]
  /\ SetCPC(k, IF chClosed[ch] THEN "panic" ELSE "idle")
  /\ UNCHANGED <<buf, closed, readers, sendVars, ctarget>>

\* Lock is granted once every reader has left; close(c.c), which panics on
\* a closed channel; c.mtx.Unlock() and Close returns.
CloseChan(k) ==
  LET ch == ctarget[k] IN
  /\ cpc[k] = "wait"
  /\ readers[ch] = {}
  /\ chClosed' = [chClosed EXCEPT ![ch] = TRUE]
  /\ wlock' = [wlock EXCEPT ![ch] = "free"]
  /\ SetCPC(k, IF chClosed[ch] THEN "panic" ELSE "idle")
  /\ UNCHANGED <<buf, closed, readers, sendVars, ctarget>>

---------------------------------------------------------------------------
(* The consumer: for msg := range channel.c (the hub's writer goroutine). *)

\* One receive from ch.c; the caller decides what is done with Head(buf[ch]).
Recv(ch) ==
  /\ buf[ch] # <<>>
  /\ buf' = [buf EXCEPT ![ch] = Tail(@)]

\* Variant: a consumer loop that stops as soon as the channel is closed.
RangeOverEarly(ch) == chClosed[ch]

\* The range loop ends once ch.c is closed and drained.
RangeOver(ch) == chClosed[ch] /\ buf[ch] = <<>>

---------------------------------------------------------------------------
ChanTypeOK ==
  /\ buf \in [Chans -> Seq(Senders)]
  /\ \A ch \in Chans : Len(buf[ch]) <= Cap
  /\ chClosed \in [Chans -> BOOLEAN]
  /\ closed \in [Chans -> BOOLEAN]
  /\ readers \in [Chans -> SUBSET Senders]
  /\ wlock \in [Chans -> WLockStates]
  /\ spc \in [Senders -> SendPCs]
  /\ starget \in [Senders -> Chans]
  /\ cpc \in [Closers -> ClosePCs]
  /\ ctarget \in [Closers -> Chans]

=============================================================================
