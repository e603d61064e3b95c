------------------------------ MODULE Message ------------------------------
(***************************************************************************)
(* The wire message of src/wschat-go/common/message.go and what decoding  *)
(* an inbound frame into it yields.                                        *)
(*                                                                         *)
(* A message is abstracted to its action and the connection it is about   *)
(* (the sender of a chat, the identity a connect or disconnect announces, *)
(* the recipient of an error); n numbers the chats of one sender.         *)
(* Timestamps are informational and left out.                             *)
(***************************************************************************)
EXTENDS Naturals

\* type Action string and its four constants.
Actions == {"connect", "chat", "disconnect", "error"}

\* The switch of MarshalJSON and UnmarshalJSON: only these four are accepted.
ValidAction(a) == a \in Actions

\* NewSystemMessage(action, uuid) and NewChatMessage(uuid, contents).
Msg(kind, c, n) == [kind |-> kind, from |-> c, n |-> n]
ConnectMsg(c)    == Msg("connect", c, 0)
ChatMsg(c, n)    == Msg("chat", c, n)
DisconnectMsg(c) == Msg("disconnect", c, 0)
ErrorMsg(c)      == Msg("error", c, 0)

(***************************************************************************)
(* An inbound frame, abstracted to what json decoding into Message         *)
(* distinguishes: whether it is well-formed JSON, what its "action" field *)
(* holds (a valid action, another string, or a non-string), and whether   *)
(* "contents" is a string.                                                 *)
(***************************************************************************)
Frames ==
  [wellFormed : BOOLEAN,
   action     : {"chat", "bogus", "number"},
   contents   : {"string", "number"}]

(***************************************************************************)
(* webs.JSON.Receive into Message.  A syntax error is returned as such.   *)
(* Action.UnmarshalJSON first decodes a string (a non-string gives an     *)
(* UnmarshalTypeError) and then rejects a string outside the enumeration  *)
(* with a plain error; either error from UnmarshalJSON aborts decoding.   *)
(* A non-string "contents" is an UnmarshalTypeError that encoding/json    *)
(* records and returns only if nothing aborts decoding later.             *)
(***************************************************************************)
Decode(f) ==
  CASE ~f.wellFormed                 -> "syntax"
    [] f.action = "number"           -> "type"
    [] ~ValidAction(f.action)        -> "invalid"
    [] f.contents = "number"         -> "type"
    [] OTHER                         -> "ok"

=============================================================================
