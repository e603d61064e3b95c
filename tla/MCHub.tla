--------------------------------- MODULE MCHub ---------------------------------
EXTENDS Hub, TLC

CONSTANTS c1, c2

\* Two connections and Channels of one slot, so that a broadcast blocks on
\* a full Channel while its owner's handler is closing it.
MCConns == {c1, c2}
MCCap   == 1

\* Frames decoding to each outcome of webs.JSON.Receive.
OkFrame      == [wellFormed |-> TRUE,  action |-> "chat",   contents |-> "string"]
TypeFrame    == [wellFormed |-> TRUE,  action |-> "chat",   contents |-> "number"]
InvalidFrame == [wellFormed |-> TRUE,  action |-> "bogus",  contents |-> "string"]
SyntaxFrame  == [wellFormed |-> FALSE, action |-> "chat",   contents |-> "string"]

\* Teardown after every kind of read error; no chats.
ErrInbound   == Frames
NoChats      == 0
\*\* One chat in all, from either client.
ChatInbound  == {OkFrame}
OneChat      == 1
\* Clients only connect and close.
NoInbound    == {}
\* A client may also send one malformed frame, which ends its read loop
\* while its websocket stays open.
BadInbound   == {TypeFrame}

Symmetry == Permutations(MCConns)

=============================================================================
