-------------------------------- MODULE Hub --------------------------------
(***************************************************************************)
(* The broadcast hub of src/wschat-go/main.go.                             *)
(*                                                                         *)
(* Each accepted connection c gets a handler goroutine (handler), a       *)
(* Channel of Cap messages registered in the sync.Map clients under c's   *)
(* uuid, and a writer goroutine that ranges over that Channel writing to  *)
(* the websocket.  The connection's uuid is c itself: uuids are fresh, so *)
(* a connection never shares one with another.                            *)
(*                                                                         *)
(* Broadcasting (broadcastMsgBytes) ranges over clients and calls Send on *)
(* every Channel it visits.  The connect broadcast runs inside the        *)
(* handler; each chat and the disconnect are broadcast by a goroutine of  *)
(* their own (go broadcastMsg).  A broadcast is identified with the       *)
(* message it carries, which is also the value it Sends.                  *)
(*                                                                         *)
(* The client at the other end is the environment: it connects, sends     *)
(* frames drawn from Inbound (at most MaxChats decode, over all clients)  *)
(* and may close at any time.                                             *)
(***************************************************************************)
EXTENDS Naturals, Sequences, FiniteSets, SequencesExt, Message

CONSTANTS
  Conns,     \* the connections (and their uuids)
  Cap,       \* NewChannel[[]byte](50)
  MaxChats,  \* bound on the chat frames all clients send together
  Inbound    \* the frames a client may send

ASSUME Inbound \subseteq Frames

ConnectMsgs    == {ConnectMsg(c) : c \in Conns}
ChatMsgs       == {ChatMsg(c, n) : c \in Conns, n \in 1..MaxChats}
DisconnectMsgs == {DisconnectMsg(c) : c \in Conns}
Broadcasts     == ConnectMsgs \cup ChatMsgs \cup DisconnectMsgs

VARIABLES
  buf, chClosed, closed, readers, wlock, spc, starget, cpc, ctarget,
  registry,  \* the uuids stored in clients
  hpc,       \* hpc[c]: where handler(ws) for c is
  nchats,    \* nchats[c]: chat frames c's handler has decoded
  readErr,   \* readErr[c]: why c's read loop ended: io.EOF, an
             \* UnmarshalTypeError, or another decoding error
  clientUp,  \* clientUp[c]: the client has not closed its end
  inbox,     \* inbox[c][a]: the messages about a that the client c has
             \* received, in order
  firstMsg,  \* firstMsg[c]: the first message c received, if any
  wpc,       \* wpc[c]: c's writer goroutine
  bpc,       \* bpc[m]: the broadcast of m
  bsnap,     \* bsnap[m]: the keys of clients when the Range of m began
  visited    \* visited[m]: the keys the Range of m has visited

\* One Channel per connection, closed by its own handler.
Ch == INSTANCE Channel WITH Chans <- Conns, Senders <- Broadcasts, Closers <- Conns

chanVars  == <<buf, chClosed, closed, readers, wlock>>
sendVars  == <<spc, starget>>
closeVars == <<cpc, ctarget>>
received  == <<inbox, firstMsg>>
hubVars   == <<registry, hpc, nchats, readErr, clientUp, received, wpc, bpc, bsnap, visited>>
vars == <<chanVars, sendVars, closeVars, hubVars>>

HandlerPCs == {"idle", "bconnect", "read", "close", "closing",
               "wsclose", "done"}

Init ==
  /\ Ch!ChanInit
  /\ registry = {}
  /\ hpc      = [c \in Conns |-> "idle"]
  /\ nchats   = [c \in Conns |-> 0]
  /\ readErr  = [c \in Conns |-> "none"]
  /\ clientUp = [c \in Conns |-> FALSE]
  /\ inbox    = [c \in Conns |-> [a \in Conns |-> <<>>]]
  /\ firstMsg = [c \in Conns |-> <<>>]
  /\ wpc      = [c \in Conns |-> "none"]
  /\ bpc      = [m \in Broadcasts |-> "none"]
  /\ bsnap    = [m \in Broadcasts |-> {}]
  /\ visited  = [m \in Broadcasts |-> {}]

\* The websocket of c is open at both ends: a write reaches the client.
Reachable(c) == clientUp[c] /\ hpc[c] \notin {"idle", "done"}

\* ws.Write / webs.JSON.Send: the message is lost once either end closed.
\* The client's stream is kept per message origin (m.from), which is all
\* the properties compare, and its first message.
WriteWS(c, m) ==
  IF Reachable(c)
    THEN /\ inbox' = [inbox EXCEPT ![c][m.from] = Append(@, m)]
         /\ firstMsg' = [firstMsg EXCEPT ![c] = IF @ = <<>> THEN <<m>> ELSE @]
    ELSE UNCHANGED received

SetH(c, to) == hpc' = [hpc EXCEPT ![c] = to]

---------------------------------------------------------------------------
(* broadcastMsgBytes: clients.Range(... Send(b) ...), lines 135-141.       *)
(* sync.Map.Range is no consistent snapshot: it visits each key at most    *)
(* once, every key present for the whole Range, and perhaps keys stored   *)
(* or deleted meanwhile.  The value it passes to f may be a Channel that   *)
(* its handler is closing or has closed.                                  *)

\* A broadcast goroutine starts running and its Range begins.
BcastBegin(m) ==
  /\ bpc[m] = "spawned"
  /\ bpc' = [bpc EXCEPT ![m] = "range"]
  /\ bsnap' = [bsnap EXCEPT ![m] = registry]
  /\ UNCHANGED <<chanVars, sendVars, closeVars, registry, hpc, nchats,
                 readErr, clientUp, received, wpc, visited>>

\* f(key, channel): iChannel.Send(b) on a key not yet visited, up to the
\* load of its closed flag.
BcastVisit(m) ==
  /\ bpc[m] = "range"
  /\ \E k \in registry \ visited[m] :
       /\ Ch!SendLoad(m, k)
       /\ visited' = [visited EXCEPT ![m] = @ \cup {k}]
  /\ UNCHANGED <<registry, hpc, nchats, readErr, clientUp, received, wpc, bpc,
                 bsnap>>

\* The channel send of the Send under way, and RUnlock.
BcastSend(m) ==
  /\ Ch!SendPush(m)
  /\ UNCHANGED hubVars

\* Range's bookkeeping is dropped when it returns.
EndRange(m) ==
  /\ bsnap' = [bsnap EXCEPT ![m] = {}]
  /\ visited' = [visited EXCEPT ![m] = {}]

\* Variant: f returns false, which stops the Range after one Send.
BcastEndAfterOne(m) ==
  /\ bpc[m] = "range"
  /\ spc[m] = "idle"
  /\ visited[m] # {} \/ (bsnap[m] \cap registry) \subseteq visited[m]
  /\ bpc' = [bpc EXCEPT ![m] = "done"]
  /\ EndRange(m)
  /\ UNCHANGED <<chanVars, sendVars, closeVars, registry, hpc, nchats,
                 readErr, clientUp, received, wpc>>

\* f returns true, so Range ends only after every key present throughout.
BcastEnd(m) ==
  /\ bpc[m] = "range"
  /\ spc[m] = "idle"
  /\ (bsnap[m] \cap registry) \subseteq visited[m]
  /\ bpc' = [bpc EXCEPT ![m] = "done"]
  /\ EndRange(m)
  /\ UNCHANGED <<chanVars, sendVars, closeVars, registry, hpc, nchats,
                 readErr, clientUp, received, wpc>>

Broadcaster(m) == BcastBegin(m) \/ BcastVisit(m) \/ BcastSend(m) \/ BcastEnd(m)

---------------------------------------------------------------------------
(* The writer goroutine: for msg := range channel.c { ws.Write(msg) },     *)
(* lines 92-96.  A failed Write is ignored and the loop goes on draining.  *)

\* Variant: the writer returns on the first failed ws.Write.
WriterWriteOrQuit(c) ==
  /\ wpc[c] = "running"
  /\ Ch!Recv(c)
  /\ WriteWS(c, Head(buf[c]))
  /\ wpc' = [wpc EXCEPT ![c] = IF Reachable(c) THEN "running" ELSE "done"]
  /\ UNCHANGED <<chClosed, closed, readers, wlock, sendVars, closeVars,
                 registry, hpc, nchats, readErr, clientUp, bpc, bsnap, visited>>

WriterWrite(c) ==
  /\ wpc[c] = "running"
  /\ Ch!Recv(c)
  /\ WriteWS(c, Head(buf[c]))
  /\ UNCHANGED <<chClosed, closed, readers, wlock, sendVars, closeVars,
                 registry, hpc, nchats, readErr, clientUp, wpc, bpc, bsnap, visited>>

WriterExit(c) ==
  /\ wpc[c] = "running"
  /\ Ch!RangeOver(c)
  /\ wpc' = [wpc EXCEPT ![c] = "done"]
  /\ UNCHANGED <<chanVars, sendVars, closeVars, registry, hpc, nchats,
                 readErr, clientUp, received, bpc, bsnap, visited>>

Writer(c) == WriterWrite(c) \/ WriterExit(c)

---------------------------------------------------------------------------
(* handler(ws), lines 64-124.                                              *)

\* Variant: channel created and clients.Store done before the broadcast.
AcceptRegisterFirst(c) ==
  /\ hpc[c] = "idle"
  /\ clientUp' = [clientUp EXCEPT ![c] = TRUE]
  /\ registry' = registry \cup {c}
  /\ wpc' = [wpc EXCEPT ![c] = "running"]
  /\ bpc' = [bpc EXCEPT ![ConnectMsg(c)] = "range"]
  /\ bsnap' = [bsnap EXCEPT ![ConnectMsg(c)] = registry \cup {c}]
  /\ SetH(c, "bconnect")
  /\ UNCHANGED <<chanVars, sendVars, closeVars, nchats, readErr, received,
                 visited>>

\* A client dials; the handler names it and broadcasts its connect message
\* to the registered connections, itself not yet among them (lines 66-86).
Accept(c) ==
  /\ hpc[c] = "idle"
  /\ clientUp' = [clientUp EXCEPT ![c] = TRUE]
  /\ bpc' = [bpc EXCEPT ![ConnectMsg(c)] = "range"]
  /\ bsnap' = [bsnap EXCEPT ![ConnectMsg(c)] = registry]
  /\ SetH(c, "bconnect")
  /\ UNCHANGED <<chanVars, sendVars, closeVars, registry, nchats, readErr,
                 received, wpc, visited>>

\* Variant: the connect broadcast left running in its own goroutine.
JoinEarly(c) ==
  /\ hpc[c] = "bconnect"
  /\ WriteWS(c, ConnectMsg(c))
  /\ registry' = registry \cup {c}
  /\ wpc' = [wpc EXCEPT ![c] = "running"]
  /\ SetH(c, "read")
  /\ UNCHANGED <<chanVars, sendVars, closeVars, nchats, readErr, clientUp,
                 bpc, bsnap, visited>>

\* Once broadcastMsgBytes has returned: ws.Write(connect), NewChannel,
\* clients.Store(uuid, channel) and go the writer (lines 86-96).
Join(c) ==
  /\ hpc[c] = "bconnect"
  /\ bpc[ConnectMsg(c)] = "done"
  /\ WriteWS(c, ConnectMsg(c))
  /\ registry' = registry \cup {c}
  /\ wpc' = [wpc EXCEPT ![c] = "running"]
  /\ SetH(c, "read")
  /\ UNCHANGED <<chanVars, sendVars, closeVars, nchats, readErr, clientUp,
                 bpc, bsnap, visited>>

\* The read loop returns and the deferred teardown (lines 98-110) begins
\* with go broadcastMsg(disconnect); nothing else happens in between.
SpawnDisconnect(c) ==
  /\ bpc' = [bpc EXCEPT ![DisconnectMsg(c)] = "spawned"]
  /\ SetH(c, "close")

\* webs.JSON.Receive returns a frame the client sent (lines 113-123).  A
\* decoded frame is re-broadcast as a chat from c by a new goroutine; an
\* UnmarshalTypeError is answered with an error message; any other error
\* ends the loop silently.
ReadFrame(c) ==
  /\ hpc[c] = "read"
  /\ clientUp[c]
  /\ \E f \in Inbound :
       LET r == Decode(f) IN
       \/ /\ r = "ok"
          /\ FoldFunction(+, 0, nchats) < MaxChats
          /\ nchats' = [nchats EXCEPT ![c] = @ + 1]
          /\ bpc' = [bpc EXCEPT ![ChatMsg(c, nchats[c] + 1)] = "spawned"]
          /\ UNCHANGED <<hpc, readErr, received>>
       \/ /\ r # "ok"
          /\ IF r = "type" THEN WriteWS(c, ErrorMsg(c)) ELSE UNCHANGED received
          /\ readErr' = [readErr EXCEPT ![c] = IF r = "type" THEN "type" ELSE "other"]
          /\ SpawnDisconnect(c)
          /\ UNCHANGED nchats
  /\ UNCHANGED <<chanVars, sendVars, closeVars, registry, clientUp, wpc,
                 bsnap, visited>>

\* Variant: the read loop also ends while the client is still connected,
\* as an idle read deadline would make it.
ReadEOFAnyTime(c) ==
  /\ hpc[c] = "read"
  /\ readErr' = [readErr EXCEPT ![c] = "eof"]
  /\ SpawnDisconnect(c)
  /\ UNCHANGED <<chanVars, sendVars, closeVars, registry, nchats, clientUp,
                 received, wpc, bsnap, visited>>

\* The client has closed: Receive returns io.EOF and the loop ends.
ReadEOF(c) ==
  /\ hpc[c] = "read"
  /\ ~clientUp[c]
  /\ readErr' = [readErr EXCEPT ![c] = "eof"]
  /\ SpawnDisconnect(c)
  /\ UNCHANGED <<chanVars, sendVars, closeVars, registry, nchats, clientUp,
                 received, wpc, bsnap, visited>>

\* Then channel.Close() ...
CloseChannel(c) ==
  /\ hpc[c] = "close"
  /\ Ch!CallClose(c, c)
  /\ SetH(c, "closing")
  /\ UNCHANGED <<sendVars, registry, nchats, readErr, clientUp, received, wpc,
                 bpc, bsnap, visited>>

\* A deleted uuid is never stored again, so the Ranges under way need not
\* remember it: it is neither in the registry nor owed a visit.
Forget(c) ==
  /\ bsnap' = [m \in Broadcasts |-> bsnap[m] \ {c}]
  /\ visited' = [m \in Broadcasts |-> visited[m] \ {c}]

\* ... Close returns once its writer lock is granted, then
\* clients.Delete(uuid).  Close and Delete are one step: a broadcast
\* visiting c in between finds the flag set and does nothing.
Unregister(c) ==
  /\ hpc[c] = "closing"
  /\ Ch!CloseChan(c)
  /\ registry' = registry \ {c}
  /\ Forget(c)
  /\ SetH(c, "wsclose")
  /\ UNCHANGED <<sendVars, nchats, readErr, clientUp, received, wpc, bpc>>

\* ... and the first defer, ws.Close(), which closes the connection for
\* both ends.
CloseWS(c) ==
  /\ hpc[c] = "wsclose"
  /\ SetH(c, "done")
  /\ clientUp' = [clientUp EXCEPT ![c] = FALSE]
  /\ UNCHANGED <<chanVars, sendVars, closeVars, registry, nchats, readErr,
                 received, wpc, bpc, bsnap, visited>>

Handler(c) ==
  \/ Join(c) \/ ReadEOF(c) \/ CloseChannel(c)
  \/ Unregister(c) \/ CloseWS(c)

\* The client closes its end of the websocket.
ClientClose(c) ==
  /\ clientUp[c]
  /\ clientUp' = [clientUp EXCEPT ![c] = FALSE]
  /\ UNCHANGED <<chanVars, sendVars, closeVars, registry, hpc, nchats,
                 readErr, received, wpc, bpc, bsnap, visited>>

---------------------------------------------------------------------------
\* Every connection has come and gone and every goroutine has ended.
Quiescent ==
  /\ \A c \in Conns : hpc[c] = "done" /\ wpc[c] = "done"
  /\ \A m \in Broadcasts : bpc[m] \in {"none", "done"}

Terminate == Quiescent /\ UNCHANGED vars

Next ==
  \/ \E c \in Conns :
       Accept(c) \/ ReadFrame(c) \/ ClientClose(c) \/ Handler(c) \/ Writer(c)
  \/ \E m \in Broadcasts : Broadcaster(m)
  \/ Terminate

\* Goroutines that can run eventually run.  The client's actions are not
\* fair: a client may stay connected and silent for ever.
Fairness ==
  /\ \A c \in Conns : WF_vars(Handler(c)) /\ WF_vars(Writer(c))
  /\ \A m \in Broadcasts : WF_vars(Broadcaster(m))

Spec == Init /\ [][Next]_vars /\ Fairness

---------------------------------------------------------------------------
TypeOK ==
  /\ Ch!ChanTypeOK
  /\ registry \subseteq Conns
  /\ hpc \in [Conns -> HandlerPCs]
  /\ nchats \in [Conns -> 0..MaxChats]
  /\ readErr \in [Conns -> {"none", "eof", "other", "type"}]
  /\ clientUp \in [Conns -> BOOLEAN]
  /\ inbox \in [Conns -> [Conns -> Seq(Broadcasts \cup {ErrorMsg(c) : c \in Conns})]]
  /\ \A c, a \in Conns : \A i \in DOMAIN inbox[c][a] : inbox[c][a][i].from = a
  /\ firstMsg \in [Conns -> Seq(Broadcasts \cup {ErrorMsg(c) : c \in Conns})]
  /\ wpc \in [Conns -> {"none", "running", "done"}]
  /\ bpc \in [Broadcasts -> {"none", "spawned", "range", "done"}]
  /\ bsnap \in [Broadcasts -> SUBSET Conns]
  /\ visited \in [Broadcasts -> SUBSET Conns]

\* Client c received a message about a satisfying P before one satisfying Q.
Before(c, a, P(_), Q(_)) ==
  LET s == inbox[c][a] IN
  \E i, j \in DOMAIN s : i < j /\ P(s[i]) /\ Q(s[j])

\* Every message client c has received.
Received(c) == UNION {ToSet(inbox[c][a]) : a \in Conns}

\* No broadcast goroutine ever sends on, and no handler ever closes, a
\* closed Go channel, although Range hands a broadcast the Channel of a
\* connection whose handler is tearing it down (Close runs before Delete).
NoPanic ==
  /\ \A m \in Broadcasts : spc[m] # "panic"
  /\ \A c \in Conns : cpc[c] # "panic"

\* A connection's first message is the connect announcing its own uuid, and
\* it never receives that connect a second time: the connect broadcast
\* completes before clients.Store, and the direct ws.Write comes first.
OwnConnectOnce ==
  \A c \in Conns :
    /\ firstMsg[c] \in {<<>>, <<ConnectMsg(c)>>}
    /\ Len(SelectSeq(inbox[c][c], LAMBDA m : m = ConnectMsg(c))) <= 1

\* A client that receives the connect of a uuid receives it before any chat
\* or disconnect from that uuid, although chats are broadcast by goroutines
\* of their own: the connect is enqueued to every Channel before the sender
\* is registered and can read its first frame, and Channels are FIFO.
IntroducedBeforeTraffic ==
  \A c, a \in Conns :
    ~Before(c, a, LAMBDA m : m.kind \in {"chat", "disconnect"},
                  LAMBDA m : m = ConnectMsg(a))

\* A client receives its own disconnect only after the hub rejected one of
\* its frames.  The deferred go broadcastMsg(disconnect) starts before
\* channel.Close() and clients.Delete (lines 98-110), so its Range may
\* still find the departing connection's own Channel; but by then the
\* read loop has ended, and when it ended on io.EOF the client is gone.
\* runRecvTest (client lines 243-247) treats its own disconnect as a
\* protocol violation, which a client that sends only well-formed frames
\* therefore never meets.
OwnDisconnectOnlyAfterRejection ==
  \A c \in Conns :
    DisconnectMsg(c) \in Received(c) => readErr[c] \in {"type", "other"}

\* Teardown never hangs: once a handler's read loop has ended, Close
\* returns (the writer drains the Channel that a blocked Send holds the
\* read lock on), the handler ends, its writer exits and its disconnect
\* broadcast finishes.
TeardownCompletes ==
  \A c \in Conns :
    hpc[c] = "close" ~>
      (hpc[c] = "done" /\ wpc[c] = "done" /\ bpc[DisconnectMsg(c)] = "done")

\* When a's disconnect broadcast starts while b is registered, b eventually
\* receives it unless b's websocket has closed.
DisconnectReachesPeers ==
  \A a, b \in Conns :
    a # b =>
      ((bpc[DisconnectMsg(a)] = "range" /\ b \in bsnap[DisconnectMsg(a)] \cap registry)
         ~> (DisconnectMsg(a) \in Received(b) \/ ~Reachable(b)))

---------------------------------------------------------------------------
(* What the spec says of the hub and the code does not do.                 *)

\* Messages enqueued for, or already received by, connection c.
Known(c) == Received(c) \cup ToSet(buf[c])

\* Section 3: connect is broadcast before registration "so no peer misses
\* it": two connections that are both registered and reading have been
\* introduced to each other, one way or the other.
PeersIntroduced ==
  \A a, b \in Conns :
    (a # b /\ {a, b} \subseteq registry
       /\ hpc[a] = "read" /\ hpc[b] = "read" /\ clientUp[a] /\ clientUp[b])
      => ConnectMsg(a) \in Known(b) \/ ConnectMsg(b) \in Known(a)

\* Section 4.1: disconnect is the last message about a connection; no
\* client receives a chat from a uuid after that uuid's disconnect.
NoChatAfterDisconnect ==
  \A c, a \in Conns :
    ~Before(c, a, LAMBDA m : m = DisconnectMsg(a),
                  LAMBDA m : m.kind = "chat")

\* Sections 4.1 and 7: a malformed inbound message is answered with one
\* error message before the connection is terminated.
MalformedAnswered ==
  \A c \in Conns :
    readErr[c] \in {"other", "type"} => ErrorMsg(c) \in Received(c)

=============================================================================
