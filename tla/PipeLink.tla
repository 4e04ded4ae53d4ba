------------------------------ MODULE PipeLink ------------------------------
(***************************************************************************)
(* One connection over a Windows named pipe (serve_split and pipe_writer   *)
(* in bridge/src/transport/ipc.rs).  Reads and writes block, so a reader   *)
(* thread and a writer thread own the two halves and the accept thread     *)
(* supervises: it moves what is owed to the peer into the write queue and  *)
(* holds the deadlines the blocking calls cannot carry.                    *)
(*                                                                         *)
(* A frame is its number of chunks.  A unit of time passes only when the   *)
(* reader and the writer are parked and the supervisor made a whole pass.  *)
(***************************************************************************)
EXTENDS Integers, Sequences

CONSTANTS
  Stall,        \* WRITE_STALL_TIMEOUT
  AskAfter,     \* PING_AFTER
  Silence,      \* LIVENESS_TIMEOUT
  Grace,        \* WRITE_DRAIN_GRACE
  BufferRoom,   \* chunks the pipe takes before a write blocks
  BigFrame,     \* chunks of a large response
  MaxMade,      \* bound on what the dispatcher and the peer send
  MaxTime       \* bound on the time that passes

ASSUME PipeAssumption ==
  /\ {Stall, AskAfter, Silence, Grace, BufferRoom, BigFrame} \subseteq Nat \ {0}
  /\ {MaxMade, MaxTime} \subseteq Nat

\* The drain's grace is 250 ms, many passes of the supervisor.
ASSUME GraceAssumption == Grace >= 2

Parked == -1     \* the writer waits for a frame
Channels == {"raw", "local", "outbound", "events"}

VARIABLES
  pipe,        \* "serving", "draining" once the loop is left, "ended"
  why,         \* why the loop was left
  atStep,      \* what the supervisor does next: "drain", "check" or "finish"
  worked,      \* did_work of this pass
  sawDone,     \* reader_done as this pass read it
  passed,      \* a whole pass was made since the last tick
  owed,        \* what each channel holds
  frames,      \* the write queue, behind the writer's current frame
  writer,      \* chunks left of the writer's frame, or Parked
  inflight,    \* WriteState.inflight
  stamp,       \* units since WriteState.stamp
  broken,      \* WriteState.broken; the writer thread is gone
  readerDone,  \* reader_done
  pongSeen,       \* a pong was seen
  quiet,       \* units since last_input
  asked,       \* units since last_ping, AskAfter if none
  peer,        \* "open" or "closed"
  buffered,    \* chunks in the pipe that the peer has not read
  stopping,    \* the stop flag
  made, time,  \* the bounds' counters
  stuck,       \* units the writer has waited in a row for the peer to take anything
  leaving      \* units since the peer closed or the listener was stopped

supervisor == <<pipe, why, atStep, worked, sawDone, passed>>
queue == <<frames, writer, inflight, stamp, broken>>
heartbeat == <<pongSeen, quiet, asked>>
clocks == <<time, stuck, leaving>>
pipeVars == <<supervisor, owed, queue, readerDone, heartbeat, peer, buffered, stopping, made, clocks>>

\* The hello is pushed before the loop starts.
PipeInit ==
  /\ pipe = "serving" /\ why = "none" /\ atStep = "drain"
  /\ worked = FALSE /\ sawDone = FALSE /\ passed = FALSE
  /\ owed = [c \in Channels |-> 0]
  /\ frames = <<1>> /\ writer = Parked /\ inflight = 1 /\ stamp = 0 /\ broken = FALSE
  /\ readerDone = FALSE
  /\ pongSeen = FALSE /\ quiet = 0 /\ asked = AskAfter
  /\ peer = "open" /\ buffered = 0 /\ stopping = FALSE
  /\ made = 0 /\ time = 0 /\ stuck = 0 /\ leaving = 0

Push(sizes) ==
  /\ frames' = frames \o sizes
  /\ inflight' = inflight + Len(sizes)
  /\ stamp' = IF inflight = 0 THEN 0 ELSE stamp
  /\ UNCHANGED <<writer, broken>>

Pending == inflight > 0
Stalled == Pending /\ stamp >= Stall

Leave(reason) ==
  /\ pipe' = "draining" /\ why' = reason
  /\ atStep' = "drain" /\ worked' = FALSE /\ sawDone' = FALSE
  /\ UNCHANGED <<leaving, passed>>

Goes(step) == /\ atStep' = step
              /\ UNCHANGED <<pipe, why, passed>>

\* What the channels hold goes into the write queue; a response may be large.
\* One step stands for the four loops: what arrives meanwhile came before the
\* step or waits for the next pass.
Drain ==
  /\ pipe = "serving" /\ ~stopping /\ atStep = "drain"
  /\ owed' = [c \in Channels |-> 0]
  /\ LET work == \E c \in Channels : owed[c] > 0 IN
     \/ ~work /\ Goes("check") /\ UNCHANGED <<worked, sawDone, queue, leaving>>
     \/ /\ work /\ ~broken /\ Goes("check") /\ worked' = TRUE /\ UNCHANGED <<sawDone, leaving>>
        /\ \E size \in IF owed["outbound"] > 0 THEN {1, BigFrame} ELSE {1} :
             Push([i \in 1..owed["raw"] + owed["local"] |-> 1]
                  \o [i \in 1..owed["outbound"] |-> size] \o [i \in 1..owed["events"] |-> 1])
     \/ work /\ broken /\ Leave("broken") /\ UNCHANGED queue
  /\ UNCHANGED <<readerDone, heartbeat, peer, buffered, stopping, made, time, stuck>>

StopSeen ==
  /\ pipe = "serving" /\ stopping /\ atStep = "drain"
  /\ Leave("stopped")
  /\ UNCHANGED <<owed, queue, readerDone, heartbeat, peer, buffered, stopping, made, time, stuck>>

\* A broken pipe or a stall ends the connection on any pass, idle or not.
Check ==
  /\ pipe = "serving" /\ atStep = "check"
  /\ \/ broken /\ Leave("broken")
     \/ ~broken /\ Stalled /\ Leave("stalled")
     \/ /\ ~broken /\ ~Stalled /\ Goes("finish")
        /\ sawDone' = readerDone
        /\ UNCHANGED <<worked, leaving>>
  /\ UNCHANGED <<owed, queue, readerDone, heartbeat, peer, buffered, stopping, made, time, stuck>>

Finished == sawDone /\ (\A c \in Channels : owed[c] = 0) /\ ~Pending

PingIsDue == quiet >= AskAfter /\ asked >= AskAfter

NextPass == /\ atStep' = "drain" /\ passed' = TRUE
            /\ worked' = FALSE /\ sawDone' = FALSE
            /\ UNCHANGED <<pipe, why, leaving>>

\* The end of a pass: finish, or, when it was idle, ask or give up.
EndPass ==
  /\ pipe = "serving" /\ atStep = "finish"
  /\ \/ Finished /\ Leave("finished") /\ UNCHANGED <<queue, asked>>
     \/ ~Finished /\ worked /\ NextPass /\ UNCHANGED <<queue, asked>>
     \/ /\ ~Finished /\ ~worked
        /\ \/ pongSeen /\ quiet >= Silence /\ Leave("silent") /\ UNCHANGED <<queue, asked>>
           \/ /\ ~(pongSeen /\ quiet >= Silence) /\ PingIsDue /\ asked' = 0
              /\ \/ broken /\ Leave("broken") /\ UNCHANGED queue
                 \/ ~broken /\ Push(<<1>>) /\ NextPass
           \/ /\ ~(pongSeen /\ quiet >= Silence) /\ ~PingIsDue /\ NextPass
              /\ UNCHANGED <<queue, asked>>
  /\ UNCHANGED <<owed, readerDone, pongSeen, quiet, peer, buffered, stopping, made, time, stuck>>

Drained == ~Pending \/ broken \/ leaving >= Grace

\* The queue is dropped; the threads are not joined.
ServeEnds ==
  /\ pipe = "draining" /\ Drained
  /\ pipe' = "ended"
  /\ UNCHANGED <<why, atStep, worked, sawDone, passed, owed, queue, readerDone, heartbeat,
                 peer, buffered, stopping, made, clocks>>

TakeFrame ==
  /\ pipe # "ended" /\ writer = Parked /\ ~broken /\ frames # <<>>
  /\ writer' = Head(frames) /\ frames' = Tail(frames)
  /\ UNCHANGED <<supervisor, owed, inflight, stamp, broken, readerDone, heartbeat, peer,
                 buffered, stopping, made, clocks>>

\* Slip: progress is a whole frame.
ProgressOfFrames == writer = 1

Progress == TRUE

WriteChunk ==
  /\ pipe # "ended" /\ writer > 0 /\ ~broken
  /\ IF peer = "closed"
     THEN broken' = TRUE /\ UNCHANGED <<writer, stamp, buffered, stuck>>
     ELSE /\ buffered < BufferRoom /\ buffered' = buffered + 1
          /\ writer' = writer - 1 /\ stuck' = IF pipe = "serving" THEN 0 ELSE stuck
          /\ stamp' = IF Progress THEN 0 ELSE stamp
          /\ UNCHANGED broken
  /\ UNCHANGED <<supervisor, owed, frames, inflight, readerDone, heartbeat, peer, stopping,
                 made, time, leaving>>

FrameOut ==
  /\ pipe # "ended" /\ writer = 0 /\ ~broken
  /\ inflight' = inflight - 1 /\ writer' = Parked
  /\ UNCHANGED <<supervisor, owed, frames, stamp, broken, readerDone, heartbeat, peer,
                 buffered, stopping, made, clocks>>

\* The reader: a ping is owed a pong, a command refused as busy or malformed is
\* owed an answer, one that is accepted goes to the dispatcher.
FrameRead(kind) ==
  /\ pipe = "serving" /\ peer = "open" /\ ~readerDone /\ ~stopping
  /\ kind \in {"pong", "command"} \/ made < MaxMade
  /\ quiet' = 0
  /\ pongSeen' = (pongSeen \/ kind = "pong")
  /\ owed' = IF kind = "ping" THEN [owed EXCEPT !["raw"] = @ + 1]
             ELSE IF kind = "refused" THEN [owed EXCEPT !["local"] = @ + 1] ELSE owed
  /\ made' = IF kind \in {"pong", "command"} THEN made ELSE made + 1
  /\ UNCHANGED <<supervisor, queue, readerDone, asked, peer, buffered, stopping, clocks>>

\* The end of the input, or bytes that are no frame.
ReaderEnds ==
  /\ pipe # "ended" /\ ~readerDone
  /\ readerDone' = TRUE
  /\ UNCHANGED <<supervisor, owed, queue, heartbeat, peer, buffered, stopping, made, clocks>>

DispatcherSends(c) ==
  /\ pipe = "serving" /\ made < MaxMade
  /\ owed' = [owed EXCEPT ![c] = @ + 1] /\ made' = made + 1
  /\ UNCHANGED <<supervisor, queue, readerDone, heartbeat, peer, buffered, stopping, clocks>>

PeerReads ==
  /\ peer = "open" /\ buffered > 0 /\ pipe # "ended"
  /\ buffered' = buffered - 1
  /\ UNCHANGED <<supervisor, owed, queue, readerDone, heartbeat, peer, stopping, made, clocks>>

PeerCloses ==
  /\ peer = "open" /\ pipe # "ended"
  /\ peer' = "closed" /\ buffered' = 0
  /\ UNCHANGED <<supervisor, owed, queue, readerDone, heartbeat, stopping, made, clocks>>

StopListener ==
  /\ ~stopping /\ pipe = "serving"
  /\ stopping' = TRUE
  /\ UNCHANGED <<supervisor, owed, queue, readerDone, heartbeat, peer, buffered, made, clocks>>

WriterWaits == broken \/ (writer = Parked /\ frames = <<>>)
                      \/ (writer > 0 /\ peer = "open" /\ buffered = BufferRoom)
ReaderWaits == readerDone \/ peer = "open"

Capped(n, most) == IF n < most THEN n + 1 ELSE n

PipeTick ==
  /\ time < MaxTime /\ WriterWaits /\ ReaderWaits
  /\ \/ pipe = "serving" /\ atStep = "drain" /\ passed
     \/ pipe = "draining" /\ ~Drained
  /\ time' = time + 1 /\ passed' = FALSE
  /\ stamp' = Capped(stamp, Stall)
  /\ quiet' = Capped(quiet, Silence)
  /\ asked' = Capped(asked, AskAfter)
  /\ stuck' = IF writer > 0 /\ ~broken THEN stuck + 1 ELSE stuck
  /\ leaving' = IF peer = "closed" \/ stopping \/ pipe = "draining" THEN leaving + 1 ELSE 0
  /\ UNCHANGED <<pipe, why, atStep, worked, sawDone, owed, frames, writer, inflight, broken,
                 readerDone, pongSeen, peer, buffered, stopping, made>>

PipeNext ==
  \/ Drain \/ StopSeen \/ Check \/ EndPass \/ ServeEnds
  \/ TakeFrame \/ WriteChunk \/ FrameOut
  \/ \E kind \in {"ping", "pong", "refused", "command"} : FrameRead(kind)
  \/ ReaderEnds
  \/ \E c \in {"outbound", "events"} : DispatcherSends(c)
  \/ PeerReads \/ PeerCloses \/ StopListener
  \/ PipeTick

PipeSpec == PipeInit /\ [][PipeNext]_pipeVars

----------------------------------------------------------------------------
(* Properties. *)

\* A connection that ends because its peer finished leaves nothing behind: the
\* answers the reader owed and every frame queued are on the pipe.
FinishedIsDelivered ==
  why = "finished" => /\ owed["raw"] = 0 /\ owed["local"] = 0
                      /\ frames = <<>> /\ writer = Parked

\* The accept slot is given up in time and not before: a peer is dropped for
\* not reading only after it took nothing for the whole timeout, however large
\* the frame it reads slowly; one that takes nothing is not kept longer,
\* whatever the dispatcher and the heartbeat go on queueing for it; and once
\* the peer has closed, or the listener is stopped, serving ends within the
\* grace given to the backlog, even if nobody reads that.
StallIsJust == why = "stalled" => stuck >= Stall
DeafPeerIsDropped == pipe = "serving" => stuck <= Stall
SlotIsFreed == pipe # "ended" => leaving <= Grace + 1

\* Neither early nor late, and complete.
ServingEndsWell == FinishedIsDelivered /\ StallIsJust /\ DeafPeerIsDropped /\ SlotIsFreed

=============================================================================
