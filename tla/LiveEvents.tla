----------------------------- MODULE LiveEvents -----------------------------
(***************************************************************************)
(* The command mosdat live (src/automation/live_dashboard.py): a watcher   *)
(* thread tails the events.jsonl of a run (EventWatcher, live_events.py)   *)
(* and fans out what it reads to the queues of the connected browsers      *)
(* (SSEBroadcaster), each of which a handler thread empties                *)
(* (DashboardHandler._serve_sse, live_dashboard_handler.py).  The run      *)
(* itself is another process (_emit, runners/functional.py): it appends    *)
(* lines, and a second run in the same directory begins by deleting the    *)
(* file.                                                                   *)
(*                                                                         *)
(* A line is written as a whole or, when it is longer than the buffer of   *)
(* the file, in two parts; offsets count parts.                            *)
(***************************************************************************)
EXTENDS Process, Enumeration, SequencesExt

CONSTANTS Clients,    \* browsers
          LiveRuns,   \* runs in the directory, one after the other
          LiveLines   \* bound on the lines of a run

ASSUME LiveAssumption == LiveRuns \in Nat /\ LiveLines \in Nat

VARIABLES
  file,       \* events.jsonl: the parts of its lines
  emitted,    \* the lines written so far: <<run, number>> (ghost)
  tick,       \* the clock of the file system
  mtime,      \* of the file
  watcher,    \* where the watcher thread stands
  seen_mtime, \* _mtimes[key]
  position,   \* _positions[key]
  chunk,      \* events decoded from what was read and not yet broadcast
  queues,     \* SSEBroadcaster._queues: whose they are
  queue_of,   \* the list that the handler of a client holds
  handler,    \* where the handler of a client stands
  drained,    \* pending, in _serve_sse
  shown,      \* what was written to a client (ghost)
  due         \* what was broadcast since it subscribed (ghost)

theFile  == <<file, emitted, tick, mtime>>
poll     == <<watcher, seen_mtime, position, chunk>>
browsers == <<queues, queue_of, handler, drained, shown, due>>
lVars    == <<theFile, poll, browsers>>

Nobody == [c \in Clients |-> <<>>]

LInit == /\ file = <<>> /\ emitted = <<>> /\ tick = 1 /\ mtime = 0
         /\ watcher = "off" /\ seen_mtime = -1 /\ position = 0 /\ chunk = <<>>
         /\ queues = <<>> /\ queue_of = Nobody /\ handler = [c \in Clients |-> "away"]
         /\ drained = Nobody /\ shown = Nobody /\ due = Nobody

-----------------------------------------------------------------------------
(* the run that is watched *)

RunOf(id)  == id[1]
LastRun    == IF emitted = <<>> THEN 1 ELSE RunOf(Last(emitted))
NextLine   == <<LastRun, Cardinality({i \in DOMAIN emitted : RunOf(emitted[i]) = LastRun}) + 1>>
Whole      == IF file = <<>> THEN TRUE ELSE Last(file)[2] = 2
Stamp      == mtime' = tick /\ UNCHANGED tick

\* one call of _emit
EmitLine == /\ Whole /\ NextLine[2] <= LiveLines /\ emitted' = Append(emitted, NextLine)
            /\ \/ file' = file \o <<<<NextLine, 1>>, <<NextLine, 2>>>>
               \/ file' = Append(file, <<NextLine, 1>>)
            /\ Stamp
EmitRest == /\ ~Whole /\ file' = Append(file, <<Last(file)[1], 2>>)
            /\ Stamp /\ UNCHANGED emitted
\* a FunctionalRunner of another run deletes the file and emits its first line
RunAgain == /\ Whole /\ LastRun < LiveRuns /\ emitted # <<>>
            /\ emitted' = Append(emitted, <<LastRun + 1, 1>>)
            /\ file' = <<<<<<LastRun + 1, 1>>, 1>>, <<<<LastRun + 1, 1>>, 2>>>>
            /\ Stamp
\* two writes may get the same time
TimePasses == tick = mtime /\ tick' = tick + 1 /\ UNCHANGED <<file, emitted, mtime>>
LWriter == /\ pc # "exited" /\ watcher # "off"
           /\ EmitLine \/ EmitRest \/ RunAgain \/ TimePasses
           /\ UNCHANGED <<process, poll, browsers>>

-----------------------------------------------------------------------------
(* EventWatcher._poll_once *)

Watch == UNCHANGED <<process, theFile, queues, queue_of, handler, drained, shown>>

\* the time is remembered before the file is read
Poll == /\ watcher = "poll" /\ emitted # <<>> /\ mtime # seen_mtime
        /\ seen_mtime' = mtime /\ watcher' = "read"
        /\ UNCHANGED <<position, chunk, due>> /\ Watch

\* lines of which the chunk has both parts; json.loads refuses the others
Complete(parts) == {i \in DOMAIN parts : /\ parts[i][2] = 1 /\ i < Len(parts)
                                         /\ parts[i + 1] = <<parts[i][1], 2>>}
Decoded(parts) == LET lines == Picked(parts, Complete(parts)) IN [k \in DOMAIN lines |-> lines[k][1]]
\* mutant: the offset is not moved
ReadChunk_again == /\ watcher = "read" /\ watcher' = "send"
                   /\ chunk' = Decoded(SubSeq(file, position + 1, Len(file)))
                   /\ UNCHANGED <<seen_mtime, position, due>> /\ Watch

\* from the offset to the end, whatever file has the name now
ReadChunk == /\ watcher = "read" /\ watcher' = "send"
             /\ LET parts == SubSeq(file, position + 1, Len(file))
                IN  position' = position + Len(parts) /\ chunk' = Decoded(parts)
             /\ UNCHANGED <<seen_mtime, due>> /\ Watch

\* broadcast_event, push: every queue of the list, under the lock
PushTo(qs, id) == [c \in Clients |-> IF c \in qs THEN Append(queue_of[c], id) ELSE queue_of[c]]
Connected(c)   == handler[c] \in {"idle", "copied"}
broadcast_event == /\ watcher = "send" /\ chunk # <<>> /\ chunk' = Tail(chunk)
                   /\ queue_of' = PushTo({queues[i] : i \in DOMAIN queues}, Head(chunk))
                   /\ due' = [c \in Clients |-> IF Connected(c) THEN Append(due[c], Head(chunk)) ELSE due[c]]
                   /\ UNCHANGED <<process, theFile, watcher, seen_mtime, position, queues, handler, drained, shown>>
PollEnds == /\ watcher = "send" /\ chunk = <<>> /\ watcher' = "poll"
            /\ UNCHANGED <<seen_mtime, position, chunk, due>> /\ Watch
LWatch == pc # "exited" /\ (Poll \/ ReadChunk \/ broadcast_event \/ PollEnds)

-----------------------------------------------------------------------------
(* _serve_sse, one thread per client *)

Serves(c) == UNCHANGED <<process, theFile, poll>>

subscribe(c) == /\ handler[c] = "away" /\ handler' = [handler EXCEPT ![c] = "idle"]
                /\ queues' = Append(queues, c) /\ queue_of' = [queue_of EXCEPT ![c] = <<>>]
                /\ UNCHANGED <<drained, shown, due>> /\ Serves(c)
\* pending = list(q)
CopyQueue(c) == /\ handler[c] = "idle" /\ queue_of[c] # <<>>
                /\ handler' = [handler EXCEPT ![c] = "copied"] /\ drained' = [drained EXCEPT ![c] = queue_of[c]]
                /\ UNCHANGED <<queues, queue_of, shown, due>> /\ Serves(c)
\* del q[:], without the lock, and the chunks are written to the socket
EmptyQueue(c) == /\ handler[c] = "copied" /\ handler' = [handler EXCEPT ![c] = "idle"]
                 /\ queue_of' = [queue_of EXCEPT ![c] = <<>>]
                 /\ shown' = [shown EXCEPT ![c] = @ \o drained[c]] /\ drained' = [drained EXCEPT ![c] = <<>>]
                 /\ UNCHANGED <<queues, due>> /\ Serves(c)
\* the socket is broken: _queues.remove(queue) takes the first list that is equal
unsubscribe(c) == /\ handler[c] = "idle" /\ handler' = [handler EXCEPT ![c] = "gone"]
                  /\ queues' = RemoveFirstMatch(queues, LAMBDA d : queue_of[d] = queue_of[c])
                  /\ UNCHANGED <<queue_of, drained, shown, due>> /\ Serves(c)
LServe == /\ pc = "l.serving"
          /\ \E c \in Clients : subscribe(c) \/ CopyQueue(c) \/ EmptyQueue(c) \/ unsubscribe(c)

-----------------------------------------------------------------------------
(* cli: starts the watcher and the server; Ctrl-C *)

StartLive == At("main") /\ Goto("l.serving") /\ watcher' = "poll"
             /\ UNCHANGED <<faults, theFile, seen_mtime, position, chunk, browsers>>
\* (with the process its queues and the browsers are gone, and what the run goes on to
\* write concerns nobody)
Interrupt == /\ At("l.serving") /\ Exit(0) /\ UNCHANGED faults
             /\ file' = <<>> /\ emitted' = <<>> /\ tick' = 1 /\ mtime' = 0
             /\ watcher' = "off" /\ seen_mtime' = -1 /\ position' = 0 /\ chunk' = <<>>
             /\ queues' = <<>> /\ queue_of' = Nobody /\ handler' = [c \in Clients |-> "away"]
             /\ drained' = Nobody /\ shown' = Nobody /\ due' = Nobody

LNext == LWriter \/ LWatch \/ LServe \/ Interrupt

-----------------------------------------------------------------------------
(* Properties *)

Place(id) == CHOOSE i \in DOMAIN emitted : emitted[i] = id

\* What a browser was shown are lines the runs wrote, each at most once and in the
\* order in which they were written, also after the file was begun anew, with lines
\* read in parts, and with clients that come and go.
ShownInOrder == \A c \in Clients : \A i, j \in DOMAIN shown[c] :
                  i < j => Place(shown[c][i]) < Place(shown[c][j])

\* "fan-out of SSE messages to all connected clients": what was broadcast while a
\* client was connected has been shown to it or waits for it.
AllClientsGet == \A c \in Clients :
                   Connected(c) => due[c] = shown[c] \o queue_of[c]
=============================================================================
