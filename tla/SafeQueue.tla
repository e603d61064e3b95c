----------------------------- MODULE SafeQueue -----------------------------
(***************************************************************************)
(* What a Channel promises its users (spec section 4.2), stated           *)
(* atomically: a bounded FIFO per channel that accepts values only while  *)
(* it is open, is closed at most once, and hands every accepted value to  *)
(* its consumer in order.  A Send that finds the queue closed is a silent *)
(* no-op and therefore a stuttering step here.                             *)
(***************************************************************************)
EXTENDS Naturals, Sequences

CONSTANTS Chans, Values, Cap

VARIABLES queue, isClosed, delivered

vars == <<queue, isClosed, delivered>>

Init ==
  /\ queue     = [ch \in Chans |-> <<>>]
  /\ isClosed  = [ch \in Chans |-> FALSE]
  /\ delivered = [ch \in Chans |-> <<>>]

Enqueue(ch, v) ==
  /\ ~isClosed[ch]
  /\ Len(queue[ch]) < Cap
  /\ queue' = [queue EXCEPT ![ch] = Append(@, v)]
  /\ UNCHANGED <<isClosed, delivered>>

Close(ch) ==
  /\ ~isClosed[ch]
  /\ isClosed' = [isClosed EXCEPT ![ch] = TRUE]
  /\ UNCHANGED <<queue, delivered>>

Deliver(ch) ==
  /\ queue[ch] # <<>>
  /\ delivered' = [delivered EXCEPT ![ch] = Append(@, Head(queue[ch]))]
  /\ queue' = [queue EXCEPT ![ch] = Tail(@)]
  /\ UNCHANGED isClosed

Next ==
  \E ch \in Chans :
    \/ \E v \in Values : Enqueue(ch, v)
    \/ Close(ch)
    \/ Deliver(ch)

\* The consumer keeps draining: every accepted value is eventually delivered.
Spec == Init /\ [][Next]_vars /\ \A ch \in Chans : WF_vars(Deliver(ch))

=============================================================================
