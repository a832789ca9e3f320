-------------------------- MODULE SessionRecorder --------------------------
(***************************************************************************)
(* The recording of one VM's session: the capture thread of                *)
(* SessionRecorder (src/automation/recording/session_recorder.py), the     *)
(* single-slot LatestFrameBus it feeds (recording/frame_bus.py), the       *)
(* Screenshotter from which the main thread takes its frames               *)
(* (vlm/screenshot.py), and the VNC connection that both share             *)
(* (transport/vnc.py): requests and replies carry no number, so a reply to *)
(* a request that was given up may be taken for the next one.              *)
(*                                                                         *)
(* A frame is the time since which its picture can be (the request that it *)
(* answers) and the time at which its capture is taken to have returned    *)
(* (done), which the capture thread reads only after it released the lock. *)
(***************************************************************************)
EXTENDS Process, Enumeration

CONSTANT MaxFrames     \* bound on the frames of one recording

ASSUME RecorderAssumption == MaxFrames \in Nat \ {0}

VARIABLES
  clock,     \* time, which passes when the main thread does something
  wire,      \* the connection: when the requests that are not answered were sent
  lock,      \* _capture_lock: who is inside Screenshotter._capture_vnc_direct
  thread,    \* where the capture thread stands
  mine,      \* the frame it has in its hands
  frame_id,  \* _frame_id
  stopping,  \* the Event _stop
  attached,  \* is the bus attached (and is it the recorder's)?
  slot,      \* LatestFrameBus._frame
  raw,       \* the files in raw/, frame number -> file
  index,     \* index.jsonl, frame number -> ts, until it is exported
  filtered,  \* filtered/ with filtered_index.jsonl, in their order
  asked,     \* t0 of the capture call that the main thread makes
  got,       \* the frame it got, while it looks at it
  before,    \* t0 of the call before that one (ghost)
  stalled    \* did a whole capture of the main thread pass between two
             \* statements of the capture thread, capture and time? (ghost)

recorder == <<thread, mine, frame_id, stopping, raw, index, filtered>>
screen   == <<clock, wire, lock, attached, slot, asked, got, before, stalled>>

NoFrame == [since |-> 0, done |-> 0]
NoFiles == [n \in {} |-> 0]
Frames  == [since : Nat, done : Nat]

-----------------------------------------------------------------------------
(* the VNC connection *)

\* VncClient.capture: drop the replies that have arrived, and ask for the screen
Ask(who) == /\ lock = "free" /\ lock' = who
            /\ \E k \in 0..Len(wire) : wire' = Append(SubSeq(wire, k + 1, Len(wire)), clock)
\* _grab_framebuffer reads exactly one reply, whichever request it answers
Grab(who) == lock = who /\ lock' = "free" /\ wire # <<>> /\ wire' = Tail(wire)
Grabbed   == [since |-> Head(wire), done |-> clock]
\* recv times out or the reply is garbled: the reply may still come
Lose(who) == lock = who /\ lock' = "free" /\ Fault /\ UNCHANGED wire

-----------------------------------------------------------------------------
(* the capture thread *)

ThreadFrame == UNCHANGED <<pc, code, clock, attached, asked, got, before, stalled, filtered, stopping>>

\* a tick of _capture_loop: _capture_vnc_direct, which bypasses the bus
CaptureTick == /\ thread = "tick" /\ ~stopping /\ frame_id < MaxFrames
               /\ Ask("thread") /\ thread' = "asked"
               /\ UNCHANGED <<faults, mine, frame_id, slot, raw, index>> /\ ThreadFrame
\* any exception: _capture_errors is counted, the loop goes on
CaptureLost == /\ thread = "asked" /\ Lose("thread") /\ thread' = "tick"
               /\ UNCHANGED <<mine, frame_id, slot, raw, index>> /\ ThreadFrame
\* the picture has come and the lock is released
CaptureDone == /\ thread = "asked" /\ Grab("thread")
               /\ thread' = "grabbed" /\ mine' = [since |-> Head(wire), done |-> 0]
               /\ UNCHANGED <<faults, frame_id, slot, raw, index>> /\ ThreadFrame
\* capture_time, and img.save begins
FrameStamped == /\ thread = "grabbed"
               /\ frame_id' = frame_id + 1
               /\ thread' = "saving" /\ mine' = [mine EXCEPT !.done = clock]
               /\ raw' = [n \in DOMAIN raw \cup {frame_id'} |->
                            IF n = frame_id' THEN [whole |-> FALSE, own |-> TRUE] ELSE raw[n]]
               /\ UNCHANGED <<faults, lock, wire, slot, index>> /\ ThreadFrame
\* the file is complete; _append_index (a later record of a frame name wins when
\* the index is read); push, unless the bus is gone, also between test and use:
\* that error is caught
FrameKept == /\ thread = "saving" /\ thread' = "tick" /\ mine' = NoFrame
             /\ raw' = [raw EXCEPT ![frame_id].whole = TRUE]
             /\ index' = [n \in DOMAIN index \cup {frame_id} |-> IF n = frame_id THEN clock ELSE index[n]]
             /\ slot' = IF attached THEN mine ELSE slot
             /\ UNCHANGED <<faults, lock, wire, frame_id>> /\ ThreadFrame
CaptureEnds == /\ thread = "tick" /\ stopping /\ thread' = "ended"
               /\ UNCHANGED <<faults, lock, wire, mine, frame_id, slot, raw, index>> /\ ThreadFrame

_capture_loop == CaptureTick \/ CaptureLost \/ CaptureDone \/ FrameStamped \/ FrameKept \/ CaptureEnds

-----------------------------------------------------------------------------
(* start, stop_and_export: called by the main thread *)

\* a new directory, or one in which an earlier session left frames and an index
NewRecording(old) ==
  /\ thread' = "none" /\ mine' = NoFrame /\ frame_id' = 0 /\ stopping' = FALSE
  /\ attached' = FALSE /\ slot' = NoFrame /\ filtered' = <<>>
  /\ raw' = IF old THEN [n \in {MaxFrames} |-> [whole |-> TRUE, own |-> FALSE]]
                   ELSE NoFiles
  /\ index' = IF old THEN [n \in {MaxFrames} |-> 0] ELSE NoFiles
  /\ wire' = <<>> /\ lock' = "free" /\ asked' = 0 /\ got' = NoFrame /\ before' = 0 /\ stalled' = FALSE

start == /\ thread' = "tick" /\ stopping' = FALSE /\ frame_id' = 0
         /\ index' = NoFiles /\ filtered' = <<>>
         /\ attached' = TRUE /\ slot' = NoFrame
         /\ UNCHANGED <<clock, wire, lock, asked, got, before, stalled, mine, raw>>

SetStop     == stopping' = TRUE /\ UNCHANGED <<screen, thread, mine, frame_id, raw, index, filtered>>
\* join(timeout=5) returns: the thread ended, or it is busy with a capture or a file
Joined      == thread \in {"ended", "asked", "grabbed", "saving"}
_stop_capture == /\ Joined /\ attached' = FALSE /\ slot' = NoFrame
                 /\ UNCHANGED <<clock, wire, lock, asked, got, before, stalled, recorder>>

\* _record_for: the time in the index, else the one of the copied file, which an
\* earlier session wrote or the thread just now
TsOf(n)     == CASE n \in DOMAIN index -> index[n]
                 [] n \notin DOMAIN index /\ raw[n].own -> clock
                 [] OTHER -> 0
\* the first and the last frame, and every frame that differs from the last one kept
Kept(ns)    == {k \in SUBSET ns : \A n \in ns : (\A m \in ns : n <= m) \/ (\A m \in ns : m <= n) => n \in k}
Unreadable  == \E n \in DOMAIN raw : ~raw[n].whole

\* what a thread that was not joined still captures goes into raw/ only, which nobody
\* reads any more and which is removed, unless --record-keep-raw; then its saves fail
_filter_and_copy ==
  \E k \in Kept(DOMAIN raw) :
    /\ LET s == InOrder(k)
       IN  filtered' = [i \in DOMAIN s |-> [ts |-> TsOf(s[i]), own |-> raw[s[i]].own]]
    /\ index' = NoFiles /\ raw' = NoFiles
    /\ thread' = "ended" /\ mine' = NoFrame /\ frame_id' = 0 /\ wire' = <<>> /\ lock' = "free" /\ clock' = 1
    /\ UNCHANGED <<stopping, attached, slot, asked, got, before, stalled>>

-----------------------------------------------------------------------------
(* Screenshotter.capture, called by the main thread *)

\* mutant: whatever is in the slot
Fresh_any(f, t) == f # NoFrame

\* get_after: a frame whose capture had not returned when the call was made
Fresh(f, t) == f # NoFrame /\ f.done >= t

Hand(f) == got' = f /\ UNCHANGED <<asked, before>>

Look          == /\ clock' = clock + 1 /\ asked' = clock'
                 /\ Goto(IF attached THEN "s.wait" ELSE "s.direct")
                 /\ UNCHANGED <<faults, wire, lock, attached, slot, got, before, stalled, recorder>>
\* the frame is there, or the capture thread pushes it within timeout_s
BusDelivers(back) == /\ At("s.wait") /\ Fresh(slot, asked) /\ Hand(slot) /\ Goto(back)
                     /\ UNCHANGED <<faults, clock, wire, lock, attached, slot, stalled, recorder>>
\* no frame within 3 s: the fallback
BusTimesOut   == /\ At("s.wait") /\ ~Fresh(slot, asked) /\ Goto("s.direct")
                 /\ UNCHANGED <<faults, screen, recorder>>
DirectAsks    == /\ At("s.direct") /\ Ask("main") /\ Goto("s.read")
                 /\ UNCHANGED <<faults, clock, attached, slot, asked, got, before, stalled, recorder>>
DirectDone(back) == /\ At("s.read") /\ Grab("main") /\ Hand(Grabbed) /\ Goto(back)
                    /\ stalled' = (stalled \/ thread = "grabbed")
                    /\ UNCHANGED <<faults, clock, attached, slot, recorder>>
\* ScreenshotError
DirectLost(handler) == /\ At("s.read") /\ Lose("main") /\ Goto(handler)
                       /\ UNCHANGED <<clock, attached, slot, asked, got, before, stalled, recorder>>
\* the runner has seen enough of the frame, and may look again
Seen(again) == /\ got' = NoFrame /\ asked' = 0 /\ before' = IF again THEN asked ELSE 0
               /\ stalled' = (again /\ stalled)
               /\ UNCHANGED <<clock, wire, lock, attached, slot, recorder>>
=============================================================================
