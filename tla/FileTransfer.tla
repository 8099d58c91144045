---------------------------- MODULE FileTransfer ----------------------------
(***************************************************************************)
(* File operations of the web on one path of one device: the HTTP handlers *)
(* with files.Service in the server (service.go), and the file handlers of *)
(* the agent with its UploadManager (fs.rs).                               *)
(*                                                                         *)
(* An operation is a sequence of round trips.  Each puts an entry into     *)
(* Service.pending under a new request identifier, sends the request, and  *)
(* waits for the answer, a timeout or the end of the HTTP request; after   *)
(* the latter two the operation is over.  So at most one entry of an       *)
(* operation exists, and it is the operation's name here.                  *)
(*                                                                         *)
(* Files are versions (who wrote them, how long they are): an upload's     *)
(* file is its operation, any other file is "device".  Lengths count       *)
(* bytes; Chunk bytes are sent at a time.                                  *)
(***************************************************************************)
EXTENDS Integers, Sequences, FiniteSets

CONSTANTS
    Ops,            \* file operations
    Requests,       \* what an operation may ask for, see Request
    Chunk,          \* Service.chunkSize
    MaxActive,      \* Service.maxPerDevice
    MaxChanges,     \* bound: changes of the file by programs on the device
    MaxDrops        \* bound: ends of the agent's connection

\* An upload announces size bytes (Content-Length) and its body has avail bytes.
UploadRequest == [t : {"upload"}, size : Nat, avail : Nat, overwrite : BOOLEAN]
ReadRequest == [t : {"download", "list"}]

ASSUME TransferAssumption ==
    /\ Requests \subseteq UploadRequest \union ReadRequest
    /\ \A r \in Requests : r.t = "upload" => r.avail <= r.size
    /\ Chunk \in Nat \ {0}
    /\ MaxActive \in Nat /\ MaxChanges \in Nat /\ MaxDrops \in Nat
    /\ Ops \intersect {"none", "device"} = {}

VARIABLES
    \* the operation's request, its place in Service, the bytes sent so far,
    \* the answer in its channel, and its result
    req, at, off, answer, result,
    pend,           \* Service.pending
    conn,           \* the agent's connection
    down, up,       \* requests and replies on it
    \* UploadManager.uploads: the bytes written of each, and temporary files;
    \* orphans have no process any more
    uploads, temps, orphans,
    file,           \* the file at the path
    \* history: uploads that became the file, what a download has read, and
    \* the operations whose path was free, or changed, since they began
    committed, seen, raced,
    changes, drops

serverVars == <<req, at, off, answer, result, pend>>
agentVars  == <<uploads, temps, orphans, file, committed, raced>>
bounds     == <<changes, drops>>
vars == <<serverVars, conn, down, up, agentVars, seen, bounds>>

NoFile == [by |-> "none", len |-> 0]
NoRequest == [t |-> "none"]
NoAnswer == [t |-> "none"]

\* The operations that hold one of the device's slots (Service.active).
Running == {o \in Ops : at[o] \notin {"idle", "done"}}

Init ==
    /\ req = [o \in Ops |-> NoRequest]
    /\ at = [o \in Ops |-> "idle"]
    /\ off = [o \in Ops |-> 0]
    /\ answer = [o \in Ops |-> NoAnswer]
    /\ result = [o \in Ops |-> "none"]
    /\ pend = {}
    /\ conn = "up" /\ down = <<>> /\ up = <<>>
    /\ uploads = [o \in Ops |-> -1] /\ temps = {} /\ orphans = {}
    /\ file \in {NoFile, [by |-> "device", len |-> Chunk]}
    /\ committed = {} /\ raced = {} /\ seen = [o \in Ops |-> {}]
    /\ changes = 0 /\ drops = 0

-----------------------------------------------------------------------------
(* files.Service *)

\* Slip: the place gets the name of the result.
ReturnMisplaced(o, res) ==
    /\ at' = [at EXCEPT ![o] = res]
    /\ result' = [result EXCEPT ![o] = res]

\* The operation returns and gives its slot back.
Return(o, res) ==
    /\ at' = [at EXCEPT ![o] = "done"]
    /\ result' = [result EXCEPT ![o] = res]

\* A body that was shorter than announced is refused whatever the close returns.
Truncated(o) == req[o].t = "upload" /\ req[o].avail < req[o].size

\* What is reported when the request at place wait gets no answer.
Unanswered(o, wait) == IF wait = "close" /\ Truncated(o) THEN "failed" ELSE "unknown"

\* roundTrip, up to its select: a broken connection may fail the send at once
\* or swallow the request.
Ask(o, wait, msg) ==
    \/ /\ conn = "up"
       /\ down' = Append(down, msg)
       /\ at' = [at EXCEPT ![o] = wait]
       /\ pend' = pend \union {o}
       /\ UNCHANGED result
    \/ /\ conn = "down"
       /\ at' = [at EXCEPT ![o] = wait]
       /\ pend' = pend \union {o}
       /\ UNCHANGED <<down, result>>
    \/ /\ conn = "down"
       /\ Return(o, Unanswered(o, wait))
       /\ UNCHANGED <<down, pend>>

Message(o, t, n, offset) == [o |-> o, t |-> t, n |-> n, offset |-> offset]

\* List, Download or Upload begins.  One that finds no slot is refused.
Begin(o) ==
    /\ at[o] = "idle"
    /\ Cardinality(Running) < MaxActive
    /\ \E r \in Requests :
        /\ req' = [req EXCEPT ![o] = r]
        /\ \/ r.t = "upload"   /\ Ask(o, "open", Message(o, "open", r.size, 0))
           \/ r.t = "download" /\ Ask(o, "read", Message(o, "read", Chunk, 0))
           \/ r.t = "list"     /\ Ask(o, "list", Message(o, "list", 0, 0))
    /\ raced' = IF file = NoFile THEN raced \union {o} ELSE raced
    /\ UNCHANGED <<off, answer, conn, up, uploads, temps, orphans, file, committed, seen, bounds>>

\* The agent's reply: HandleAgentResponse takes the entry and fills the
\* channel; a reply without an entry is late and dropped.
ReplyArrives ==
    /\ up # <<>>
    /\ up' = Tail(up)
    /\ LET r == Head(up) IN
       IF r.o \in pend
       THEN pend' = pend \ {r.o} /\ answer' = [answer EXCEPT ![r.o] = r]
       ELSE UNCHANGED <<pend, answer>>
    /\ UNCHANGED <<req, at, off, result, conn, down, agentVars, seen, bounds>>

Waiting(o) == at[o] \in {"open", "chunk", "close", "read", "list"}

\* The timer fires or the request is cancelled: also when the answer is already
\* in the channel, for select may take either.
TimesOut(o) ==
    /\ Waiting(o)
    /\ pend' = pend \ {o}
    /\ answer' = [answer EXCEPT ![o] = NoAnswer]
    /\ Return(o, Unanswered(o, at[o]))
    /\ UNCHANGED <<req, off, conn, down, up, agentVars, seen, bounds>>

\* Slip: fs_error is not told from the expected reply.
AnsweredAny(o, place, ok) ==
    /\ at[o] = place /\ answer[o].t # "none"
    /\ answer' = [answer EXCEPT ![o] = NoAnswer]

\* What follows an answer; fs_error ends the operation.
Answered(o, place, ok) ==
    /\ at[o] = place /\ answer[o].t = (IF ok THEN "ok" ELSE "error")
    /\ answer' = [answer EXCEPT ![o] = NoAnswer]

AnswerError(o) ==
    /\ Waiting(o)
    /\ Answered(o, at[o], FALSE)
    /\ Return(o, "failed")
    /\ UNCHANGED <<req, off, pend, conn, down, up, agentVars, seen, bounds>>

\* The upload is open, or a chunk is written: the next part of the body is read.
UploadContinues(o) ==
    /\ \E place \in {"open", "chunk"} : Answered(o, place, TRUE)
    /\ off' = [off EXCEPT ![o] = @ + answer[o].n]
    /\ at' = [at EXCEPT ![o] = "body"]
    /\ UNCHANGED <<req, result, pend, conn, down, up, agentVars, seen, bounds>>

Least(a, b) == IF a < b THEN a ELSE b

\* The size that fs_write_close gives: the one that was announced, also when the
\* body was shorter.
Total(o) == req[o].size

\* io.ReadFull gives up to Chunk bytes of the body; at its end the upload is
\* closed.
ReadBody(o) ==
    /\ at[o] = "body"
    /\ LET n == Least(Chunk, req[o].avail - off[o]) IN
       IF n > 0 THEN Ask(o, "chunk", Message(o, "chunk", n, off[o]))
                ELSE Ask(o, "close", Message(o, "close", Total(o), 0))
    /\ UNCHANGED <<req, off, answer, conn, up, agentVars, seen, bounds>>

\* Reading the body fails: the upload is left open at the agent.
BodyFails(o) ==
    /\ at[o] = "body" /\ off[o] < req[o].size
    /\ Return(o, "failed")
    /\ UNCHANGED <<req, off, answer, pend, conn, down, up, agentVars, seen, bounds>>

UploadEnds(o) ==
    /\ Answered(o, "close", TRUE)
    /\ Return(o, IF Truncated(o) THEN "failed" ELSE "ok")
    /\ UNCHANGED <<req, off, pend, conn, down, up, agentVars, seen, bounds>>

\* A part of a download: written to the client, and the next one asked for.
DownloadContinues(o) ==
    /\ Answered(o, "read", TRUE)
    /\ off' = [off EXCEPT ![o] = @ + answer[o].n]
    /\ seen' = [seen EXCEPT ![o] = @ \union {answer[o].file}]
    /\ IF answer[o].eof
       THEN Return(o, "ok") /\ UNCHANGED <<down, pend>>
       ELSE Ask(o, "read", Message(o, "read", Chunk, off'[o]))
    /\ UNCHANGED <<req, conn, up, agentVars, bounds>>

\* The part cannot be written to the client.
DownloadStops(o) ==
    /\ Answered(o, "read", TRUE) /\ answer[o].n > 0
    /\ Return(o, "failed")
    /\ UNCHANGED <<req, off, pend, conn, down, up, agentVars, seen, bounds>>

ListEnds(o) ==
    /\ Answered(o, "list", TRUE)
    /\ Return(o, "ok")
    /\ UNCHANGED <<req, off, pend, conn, down, up, agentVars, seen, bounds>>

-----------------------------------------------------------------------------
(* The agent: handle_fs_message *)

Reply(o, t, n, eof, v) ==
    up' = Append(up, [o |-> o, t |-> t, n |-> n, eof |-> eof, file |-> v])

ReplyOk(o, n) == Reply(o, "ok", n, FALSE, NoFile)
ReplyError(o) == Reply(o, "error", 0, FALSE, NoFile)

Handles(t) ==
    /\ conn = "up" /\ down # <<>> /\ Head(down).t = t
    /\ down' = Tail(down)
    /\ UNCHANGED <<serverVars, conn, seen, bounds>>

\* Slip: the upload is forgotten and its file left.
DroppedFromMap(o) ==
    /\ uploads' = [uploads EXCEPT ![o] = -1]
    /\ UNCHANGED temps

\* The upload leaves the map and its temporary file is removed (Drop).
Dropped(o) ==
    /\ uploads' = [uploads EXCEPT ![o] = -1]
    /\ temps' = temps \ {o}

\* Slip: an existing file is accepted.
MayOpenAny(o) == TRUE

\* An existing file needs overwrite.
MayOpen(o) == req[o].overwrite \/ file = NoFile

\* UploadManager::open; the temporary file may not be created.
AgentOpens ==
    /\ Handles("open")
    /\ LET o == Head(down).o IN
       \/ /\ MayOpen(o)
          /\ uploads' = [uploads EXCEPT ![o] = 0]
          /\ temps' = temps \union {o}
          /\ ReplyOk(o, 0)
       \/ UNCHANGED <<uploads, temps>> /\ ReplyError(o)
    /\ UNCHANGED <<orphans, file, committed, raced>>

\* UploadManager::write_chunk: an upload that is not known (any more), a wrong
\* offset or a failed write is an error and drops the upload.
AgentWrites ==
    /\ Handles("chunk")
    /\ LET m == Head(down) IN
       \/ /\ uploads[m.o] = m.offset
          /\ uploads' = [uploads EXCEPT ![m.o] = @ + m.n]
          /\ ReplyOk(m.o, m.n)
          /\ UNCHANGED temps
       \/ Dropped(m.o) /\ ReplyError(m.o)
    /\ UNCHANGED <<orphans, file, committed, raced>>

\* UploadManager::close: the upload leaves the map; one of the announced size
\* is renamed to the path, unless that fails.
AgentCloses ==
    /\ Handles("close")
    /\ LET m == Head(down) IN
       /\ Dropped(m.o)
       /\ \/ /\ uploads[m.o] = m.n
             /\ file' = [by |-> m.o, len |-> m.n]
             /\ committed' = committed \union {m.o}
             /\ raced' = raced \union Running
             /\ ReplyOk(m.o, 0)
          \/ UNCHANGED <<file, committed, raced>> /\ ReplyError(m.o)
    /\ UNCHANGED orphans

\* Slip: a full chunk is taken for the last one, too.
AtEofFull(n, m) == n <= m.n

\* read_chunk: fewer bytes than asked for mean the end of the file.
AtEof(n, m) == n < m.n

\* The file is opened anew for each chunk: it may have been replaced.
AgentReads ==
    /\ Handles("read")
    /\ LET m == Head(down)
           left == IF m.offset < file.len THEN file.len - m.offset ELSE 0
           n == Least(m.n, left)
       IN  IF file = NoFile THEN ReplyError(m.o)
           ELSE Reply(m.o, "ok", n, AtEof(n, m), file)
    /\ UNCHANGED agentVars

\* list_dir
AgentLists ==
    /\ Handles("list")
    /\ ReplyOk(Head(down).o, 0) \/ ReplyError(Head(down).o)
    /\ UNCHANGED agentVars

\* UploadManager::cleanup_stale on a tick: uploads without activity for 60 s.
\* Time is not modelled, an upload may be stale at any time.
CleanUpStale(o) ==
    /\ conn = "up" /\ uploads[o] # -1
    /\ Dropped(o)
    /\ UNCHANGED <<serverVars, conn, down, up, orphans, file, committed, raced, seen, bounds>>

\* The connection ends and the agent's process with it: dropping the manager
\* removes the temporary files, unless the process is killed.
AgentGoes ==
    /\ conn = "up" /\ drops < MaxDrops
    /\ drops' = drops + 1
    /\ conn' = "down" /\ down' = <<>> /\ up' = <<>>
    /\ uploads' = [o \in Ops |-> -1]
    /\ temps' = {}
    /\ \/ UNCHANGED orphans
       \/ orphans' = orphans \union temps
    /\ UNCHANGED <<serverVars, file, committed, raced, seen, changes>>

AgentReturns ==
    /\ conn = "down"
    /\ conn' = "up"
    /\ UNCHANGED <<serverVars, down, up, agentVars, seen, bounds>>

\* A program on the device, such as a shell's, writes or removes the file.
DeviceChanges ==
    /\ changes < MaxChanges
    /\ changes' = changes + 1
    /\ file' \in {NoFile, [by |-> "device", len |-> Chunk]} \ {file}
    /\ raced' = raced \union Running
    /\ UNCHANGED <<serverVars, conn, down, up, uploads, temps, orphans, committed, seen,
                   drops>>

-----------------------------------------------------------------------------
Serve(o) == \/ Begin(o) \/ TimesOut(o) \/ AnswerError(o) \/ UploadContinues(o)
            \/ ReadBody(o) \/ BodyFails(o) \/ UploadEnds(o) \/ DownloadContinues(o)
            \/ DownloadStops(o) \/ ListEnds(o)

Agent == AgentOpens \/ AgentWrites \/ AgentCloses \/ AgentReads \/ AgentLists

Next == \/ \E o \in Ops : Serve(o) \/ CleanUpStale(o)
        \/ ReplyArrives \/ Agent \/ AgentGoes \/ AgentReturns \/ DeviceChanges

Spec == Init /\ [][Next]_vars

\* The tick runs every 30 ms and an upload without activity becomes stale.
FairSpec == Spec /\ \A o \in Ops : WF_vars(CleanUpStale(o))

-----------------------------------------------------------------------------
(* Properties *)

Versions == [by : Ops \union {"none", "device"}, len : Nat]

TypeOK ==
    /\ req \in [Ops -> Requests \union {NoRequest}]
    /\ at \in [Ops -> {"idle", "open", "body", "chunk", "close", "read", "list", "done"}]
    /\ off \in [Ops -> Nat]
    /\ result \in [Ops -> {"none", "ok", "failed", "unknown"}]
    /\ pend \subseteq Ops /\ temps \subseteq Ops /\ orphans \subseteq Ops
    /\ conn \in {"up", "down"}
    /\ down \in Seq([o : Ops, t : {"open", "chunk", "close", "read", "list"},
                     n : Nat, offset : Nat])
    /\ up \in Seq([o : Ops, t : {"ok", "error"}, n : Nat, eof : BOOLEAN, file : Versions])
    /\ uploads \in [Ops -> Nat \union {-1}]
    /\ file \in Versions
    /\ committed \subseteq Ops /\ raced \subseteq Ops
    /\ seen \in [Ops -> SUBSET Versions]

\* The path never holds part of an upload: whichever of the body's end, late
\* answers, timeouts, stale clean-ups and new connections of the agent comes
\* when, what is renamed to the path is as long as announced.
NeverTruncated == file.by \in Ops => file.len = req[file.by].size /\ ~Truncated(file.by)

\* The answer to the client is true: an upload that is reported as done has
\* become the file, and one that is reported as refused or too short has not
\* and will not (after a timeout either is possible); a download that ends well
\* and read one version of the file has all of it, also when the length is a
\* multiple of Chunk.
ResultIsTrue ==
    \A o \in Ops :
        /\ req[o].t = "upload" /\ result[o] = "ok" => o \in committed
        /\ req[o].t = "upload" /\ result[o] = "failed" => o \notin committed
        /\ req[o].t = "download" /\ result[o] = "ok" /\ Cardinality(seen[o]) = 1
              => \A v \in seen[o] : off[o] = v.len

\* A file that was at the path when the request of an upload without overwrite
\* came, and that has not been touched since, is not replaced by it, however long
\* the upload takes and whatever else is under way.  (The agent looks when the
\* upload opens: a file that comes later may be replaced.)
OldFileKept ==
    [][\A o \in committed' \ committed : req[o].overwrite \/ o \in raced]_vars

\* Temporary files are removed: by the close, an error, the clean-up of stale
\* uploads or the end of the process, though the server never aborts an upload
\* that it gives up.  (A killed process leaves them.)
TempsGo == \A o \in Ops : o \in temps ~> o \notin temps

Files == INSTANCE WholeFiles WITH
    asked <- req, told <- result, replaced <- committed, loose <- raced

\* Service and agent together implement whole files: whatever is lost, late or
\* given up, the file changes at one step and reports agree with it, also with
\* what is still on its way.
ImplementsFiles == Files!Spec

=============================================================================
