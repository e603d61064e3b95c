----------------------------- MODULE Directory -----------------------------
(***************************************************************************)
(* The directory server of src/server/main.go: a name -> URL map served on *)
(* /servers and reloaded from a JSON file on disk by /admin/servers.       *)
(*                                                                         *)
(* A reload opens the file and stats it outside any lock, then, holding    *)
(* serversMtx for writing, compares the file's modification time (whole    *)
(* seconds) with serversLastUpdate, records the new time, decodes the      *)
(* file, validates every entry and only then replaces the map.  Everything *)
(* under the lock is one step: /servers readers and other reloads wait on  *)
(* serversMtx, so nothing observes the section half done.                  *)
(*                                                                         *)
(* A file's content is one of a few documents, abstracted to how decoding *)
(* and validation treat it.  Writers replace the file atomically (write   *)
(* and rename), so an open file keeps the document it was opened on.      *)
(* The clock counts seconds up to MaxTime; a write stamps the file with   *)
(* the current second.                                                     *)
(***************************************************************************)
EXTENDS Naturals

CONSTANTS
  Requests,      \* concurrent /admin/servers requests
  GoodDocs,      \* documents that decode and pass validation
  InvalidDocs,   \* decode, but an entry has an empty name or a bad URL
  TypeErrDocs,   \* JSON of the wrong shape: a json.UnmarshalTypeError
  SyntaxDocs,    \* not JSON: any other decoding error
  MaxTime        \* the last second the clock reaches

Docs == GoodDocs \cup InvalidDocs \cup TypeErrDocs \cup SyntaxDocs

\* No file at serversPath, and the nil map servers holds before any load.
NoFile == "nofile"
Nil    == "null"

ASSUME MaxTime \in Nat \ {0} /\ NoFile \notin Docs /\ Nil \notin Docs

Responses == {"none", "pending", "ok", "notfound", "error", "malformed", "invalid"}

VARIABLES
  file,        \* the document at serversPath, or NoFile
  mtime,       \* its modification time in seconds
  clock,       \* the current second
  servers,     \* the map served, Nil until a reload succeeds
  lastUpdate,  \* serversLastUpdate
  rpc,         \* rpc[r]: "idle", or "opened" once Open and Stat returned
  rdoc,        \* rdoc[r]: the document request r opened
  rts,         \* rts[r]: info.ModTime().Unix() of that file
  resp,        \* resp[r]: the status request r answered with
  loadedAt,    \* history: mtime of the document servers was loaded from
  served       \* the body of the last /servers response

vars == <<file, mtime, clock, servers, lastUpdate, rpc, rdoc, rts, resp,
          loadedAt, served>>

\* The package variables (lines 17-24) at start-up; the file may or may
\* not exist already.  Seconds start at 1: a real file's mtime is positive.
Init ==
  /\ file \in Docs \cup {NoFile}
  /\ mtime = 1 /\ clock = 1
  /\ servers = Nil /\ lastUpdate = 0
  /\ rpc = [r \in Requests |-> "idle"]
  /\ rdoc = [r \in Requests |-> Nil]
  /\ rts = [r \in Requests |-> 0]
  /\ resp = [r \in Requests |-> "none"]
  /\ loadedAt = 0
  /\ served = Nil

---------------------------------------------------------------------------
(* The operator's side: time passes and the file is rewritten or removed. *)

Tick ==
  /\ clock < MaxTime
  /\ clock' = clock + 1
  /\ UNCHANGED <<file, mtime, servers, lastUpdate, rpc, rdoc, rts, resp,
                 loadedAt, served>>

WriteFile(d) ==
  /\ file' = d
  /\ mtime' = clock
  /\ UNCHANGED <<clock, servers, lastUpdate, rpc, rdoc, rts, resp, loadedAt,
                 served>>

RemoveFile ==
  /\ file # NoFile
  /\ file' = NoFile
  /\ UNCHANGED <<mtime, clock, servers, lastUpdate, rpc, rdoc, rts, resp,
                 loadedAt, served>>

---------------------------------------------------------------------------
(* The handlers.                                                           *)

\* serversHandler: under the read lock, encode servers (lines 56-60).
ServeList ==
  /\ served' = servers
  /\ UNCHANGED <<file, mtime, clock, servers, lastUpdate, rpc, rdoc, rts,
                 resp, loadedAt>>

\* Variant: the error of os.Open is not checked.
OpenUnchecked(r) ==
  /\ rpc[r] = "idle"
  /\ \E statOk \in BOOLEAN :
       IF statOk
         THEN /\ rpc' = [rpc EXCEPT ![r] = "opened"]
              /\ rdoc' = [rdoc EXCEPT ![r] = file]
              /\ rts' = [rts EXCEPT ![r] = mtime]
              /\ resp' = [resp EXCEPT ![r] = "pending"]
         ELSE resp' = [resp EXCEPT ![r] = "error"] /\ UNCHANGED <<rpc, rdoc, rts>>
  /\ UNCHANGED <<file, mtime, clock, servers, lastUpdate, loadedAt, served>>

\* adminServersHandler up to the lock (lines 62-80): os.Open answers 404
\* when the file does not exist; f.Stat may fail (500).
Open(r) ==
  /\ rpc[r] = "idle"
  /\ IF file = NoFile
       THEN resp' = [resp EXCEPT ![r] = "notfound"] /\ UNCHANGED <<rpc, rdoc, rts>>
       ELSE \E statOk \in BOOLEAN :
              IF statOk
                THEN /\ rpc' = [rpc EXCEPT ![r] = "opened"]
                     /\ rdoc' = [rdoc EXCEPT ![r] = file]
                     /\ rts' = [rts EXCEPT ![r] = mtime]
                     /\ resp' = [resp EXCEPT ![r] = "pending"]
                ELSE resp' = [resp EXCEPT ![r] = "error"] /\ UNCHANGED <<rpc, rdoc, rts>>
  /\ UNCHANGED <<file, mtime, clock, servers, lastUpdate, loadedAt, served>>

\* What json.NewDecoder(f).Decode(&srvrs) and the validation loop make of
\* a document (lines 89-109).
Verdict(d) ==
  CASE d \in TypeErrDocs -> "malformed"
    [] d \in SyntaxDocs  -> "error"
    [] d \in InvalidDocs -> "invalid"
    [] OTHER             -> "ok"

\* Variant: the file is loaded without comparing its time.
ReloadUnchecked(r) ==
  LET v == Verdict(rdoc[r]) IN
  /\ rpc[r] = "opened"
  /\ lastUpdate' = rts[r]
  /\ resp' = [resp EXCEPT ![r] = v]
  /\ IF v = "ok"
       THEN servers' = rdoc[r] /\ loadedAt' = rts[r]
       ELSE UNCHANGED <<servers, loadedAt>>
  /\ rpc' = [rpc EXCEPT ![r] = "idle"]
  /\ UNCHANGED <<file, mtime, clock, rdoc, rts, served>>

\* The section under serversMtx.Lock() (lines 81-112): a file no newer
\* than serversLastUpdate is acknowledged and ignored; otherwise its time
\* is recorded first, and the map replaced only if decoding and
\* validation succeed.
Reload(r) ==
  LET v == Verdict(rdoc[r]) IN
  /\ rpc[r] = "opened"
  /\ IF lastUpdate >= rts[r]
       THEN resp' = [resp EXCEPT ![r] = "ok"]
            /\ UNCHANGED <<servers, lastUpdate, loadedAt>>
       ELSE /\ lastUpdate' = rts[r]
            /\ resp' = [resp EXCEPT ![r] = v]
            /\ IF v = "ok"
                 THEN servers' = rdoc[r] /\ loadedAt' = rts[r]
                 ELSE UNCHANGED <<servers, loadedAt>>
  /\ rpc' = [rpc EXCEPT ![r] = "idle"]
  /\ UNCHANGED <<file, mtime, clock, rdoc, rts, served>>

Next ==
  \/ Tick \/ RemoveFile \/ \E d \in Docs : WriteFile(d)
  \/ ServeList
  \/ \E r \in Requests : Open(r) \/ Reload(r)

\* No fairness: every request is the operator's or a client's choice.
Spec == Init /\ [][Next]_vars

---------------------------------------------------------------------------
TypeOK ==
  /\ file \in Docs \cup {NoFile}
  /\ mtime \in 1..MaxTime /\ clock \in 1..MaxTime
  /\ servers \in Docs \cup {Nil}
  /\ lastUpdate \in 0..MaxTime /\ loadedAt \in 0..MaxTime
  /\ rpc \in [Requests -> {"idle", "opened"}]
  /\ rdoc \in [Requests -> Docs \cup {Nil}]
  /\ rts \in [Requests -> 0..MaxTime]
  /\ resp \in [Requests -> Responses]
  /\ served \in Docs \cup {Nil}

\* However reloads interleave with writes and with each other, the map
\* /servers returns never goes back to a document older than the one it
\* already returned: a request that opened an older file before a newer
\* one was loaded finds serversLastUpdate ahead of its file's time.
NeverOlder == [][loadedAt' >= loadedAt]_loadedAt

\* Spec section 6: the directory is reloadable from the JSON document on
\* disk.  A reload of a valid document answered 200 leaves the map
\* holding that document, or one written later.
OkMeansCurrent ==
  \A r \in Requests :
    (resp[r] = "ok" /\ rdoc[r] \in GoodDocs) =>
      (servers = rdoc[r] \/ loadedAt > rts[r])

=============================================================================
