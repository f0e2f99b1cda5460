------------------------------ MODULE RunFrames ------------------------------
(***************************************************************************)
(* The frame log of one run, and those who follow it: runs.ts (append,     *)
(* finalize, cancel, the grace window, live fan-out, the boot sweep),      *)
(* bridgeSendMessage of mobile-channel-host.ts (what it appends, and       *)
(* when), subscribeToRun (replay, live tail, terminal drain) and the       *)
(* frames restart-finalizer.ts writes on a shutdown.                       *)
(*                                                                         *)
(* Logs of different runs share nothing, so one run is enough.  Appending, *)
(* replay and attaching are synchronous: each action is what the process   *)
(* does between two returns to the event loop.                             *)
(***************************************************************************)
EXTENDS Naturals, FiniteSets, Sequences

CONSTANTS
  Sub,          \* clients that subscribe to the run, one connection each
  RingMax,      \* RING_MAX
  SynthBase,    \* 900_000: synthesized tool returns are numbered from here
  MaxFrames,    \* bound: frames the turn streams, in all its attempts
  MaxTools,     \* bound: tool calls whose return has to be synthesized
  MaxAttempts,  \* bound: attempts of the turn
  MaxBreaks     \* bound: connections lost, and crashes

\* The run's own numbers stay below those of the synthesized returns
ASSUME FramesAssumption ==
  /\ RingMax \in Nat /\ MaxTools \in Nat /\ MaxBreaks \in Nat
  /\ MaxFrames \in Nat /\ MaxAttempts \in Nat \ {0}
  /\ SynthBase \in Nat /\ MaxFrames + 2 <= SynthBase

VARIABLES
  log,       \* frames.jsonl: entries in the order of its lines
  status,    \* run.json; "torn" if it cannot be parsed
  stopped,   \* run.json: metadata.user_stopped
  mem,       \* the handle is in _activeRuns, in the append window, or gone
  count,     \* handle.frameCount
  ring,      \* handle._ring
  bridge,    \* where bridgeSendMessage is
  attempt,
  produced,  \* stream frames so far
  missing,   \* tool returns to synthesize once the transcript is read
  sub,       \* client -> subscribeToRun's locals
  unread,    \* client -> entries sent on its connection and not read
  client,    \* client -> what it has read
  shut,      \* the restart finalizer has written to this run
  owed,      \* history: stream frames logged when the run became terminal
  breaks

recordVars == <<log, status, stopped>>
handleVars == <<mem, count, ring>>
bridgeVars == <<bridge, attempt, produced, missing>>
subVars == <<sub, unread, client>>
framesVars == <<log, status, stopped, mem, count, ring, bridge, attempt,
          produced, missing, sub, unread, client, shut, owed, breaks>>

(* stream: from the SDK; synth: a tool return found on disk; tail: the      *)
(* buffered stop_reason and usage_statistics; final: stop_reason and        *)
(* turn_done of a run that ended with its process.                          *)
Frame == [kind : {"stream", "synth", "tail", "final"}, n : Nat]
Entry == [seq : Nat, frame : Frame]
TurnDoneFrame == [kind |-> "final", n |-> 2]
(* Mutant: the sweep writes turn_done alone.                                *)
FinalsShort == <<TurnDoneFrame>>

Finals == <<[kind |-> "final", n |-> 1], TurnDoneFrame>>

(* A line no reader can parse; its number is below every cursor.            *)
Junk == [seq |-> 0, frame |-> [kind |-> "final", n |-> 0]]

RunStatuses == {"running", "completed", "failed", "cancelled", "torn"}
Terminal == {"completed", "failed", "cancelled"}
Phases == {"off", "live", "draining", "watching", "done", "told"}

FramesTypeOK ==
  /\ log \in Seq(Entry)
  /\ status \in RunStatuses /\ stopped \in BOOLEAN
  /\ mem \in {"active", "grace", "gone"}
  /\ count \in Nat
  /\ ring \in Seq(Entry) /\ Len(ring) <= RingMax
  /\ bridge \in {"streaming", "backoff", "settled", "posting", "over",
                 "threw", "lost"}
  /\ attempt \in 1 .. MaxAttempts /\ produced \in 0 .. MaxFrames
  /\ missing \in 0 .. MaxTools
  /\ sub \in [Sub -> [phase : Phases, last : Nat, mark : BOOLEAN]]
  /\ unread \in [Sub -> Seq(Entry)]
  /\ client \in [Sub -> [cursor : Nat, has : Seq(Frame), mark : BOOLEAN]]
  /\ shut \in BOOLEAN /\ owed \subseteq Frame /\ breaks \in 0 .. MaxBreaks

Unsubscribed == [phase |-> "off", last |-> 0, mark |-> FALSE]

(* createRun() has returned; the log is there once a first frame is.        *)
FramesInit ==
  /\ log = <<>> /\ status = "running" /\ stopped = FALSE
  /\ mem = "active" /\ count = 0 /\ ring = <<>>
  /\ bridge = "streaming" /\ attempt = 1 /\ produced = 0 /\ missing = 0
  /\ sub = [s \in Sub |-> Unsubscribed]
  /\ unread = [s \in Sub |-> <<>>]
  /\ client = [s \in Sub |-> [cursor |-> 0, has |-> <<>>, mark |-> FALSE]]
  /\ shut = FALSE /\ owed = {} /\ breaks = 0

-----------------------------------------------------------------------------
(* Appending *)

(* Mutant: the ring is not bounded.                                         *)
NewestAll(entries) == entries

Newest(entries) ==
  IF Len(entries) > RingMax
  THEN SubSeq(entries, Len(entries) - RingMax + 1, Len(entries)) ELSE entries

Listening(s) == sub[s].phase \in {"live", "draining"}

(* A finite set of numbers, in order.                                       *)
InOrder(Q) ==
  [k \in 1 .. Cardinality(Q) |->
     CHOOSE i \in Q : Cardinality({j \in Q : j <= i}) = k]

(* Where the entries stand that a reader at `last` is sent of a sequence:   *)
(* each has a higher number than the one sent before, that is, than all     *)
(* before it.                                                               *)
Rises(entries, last) ==
  {i \in 1 .. Len(entries) :
     /\ last < entries[i].seq
     /\ \A j \in 1 .. (i - 1) : entries[j].seq < entries[i].seq}

Rising(entries, last) ==
  LET at == InOrder(Rises(entries, last))
  IN [last |-> IF at = <<>> THEN last ELSE entries[at[Len(at)]].seq,
      sent |-> [k \in 1 .. Len(at) |-> entries[at[k]]]]

(* Mutant: what a draining subscription is sent does not count.             *)
SentForgets(s, entries) ==
  LET r == Rising(entries, sub[s].last)
  IN [last |-> IF sub[s].phase = "draining" THEN sub[s].last ELSE r.last,
      sent |-> r.sent]

(* What the listener of s passes on.                                        *)
Sent(s, entries) == Rising(entries, sub[s].last)

Counted(frames) ==
  [i \in 1 .. Len(frames) |-> [seq |-> count + i, frame |-> frames[i]]]

(* The frames get their numbers, go to the ring and to the listeners.       *)
FannedOut(frames) ==
  LET new == Counted(frames)
  IN /\ count' = count + Len(frames)
     /\ ring' = Newest(ring \o new)
     /\ sub' = [s \in Sub |->
                  IF Listening(s)
                  THEN [sub[s] EXCEPT !.last = Sent(s, new).last] ELSE sub[s]]
     /\ unread' = [s \in Sub |->
                     IF Listening(s) THEN unread[s] \o Sent(s, new).sent
                     ELSE unread[s]]

(* appendRunFrame() of each frame, first to disk; nothing happens once the  *)
(* handle is gone.                                                          *)
Appended(frames) ==
  IF mem = "gone" THEN UNCHANGED <<log, count, ring, sub, unread>>
  ELSE log' = log \o Counted(frames) /\ FannedOut(frames)

(* appendRunFrameOnDisk() of each frame, numbered by the lines of the file. *)
(* After a partial line, which counts as one, the first frame completes     *)
(* that line, and is lost.                                                  *)
OnDisk(frames, partial) ==
  LET lines == [i \in 1 .. Len(frames) |->
                  [seq |-> Len(log) + i, frame |-> frames[i]]]
  IN log' = log \o (IF partial THEN <<Junk>> \o Tail(lines) ELSE lines)

(* Mutant: listeners are dropped with the handle.                           *)
NotifiedNever(subs) == subs

(* notifyTerminalToListeners(): a live subscription starts its drain timer. *)
Notified(subs) ==
  [s \in Sub |-> IF subs[s].phase = "live"
                 THEN [subs[s] EXCEPT !.phase = "draining"] ELSE subs[s]]

Streamed == {x \in {log[i].frame : i \in 1 .. Len(log)} : x.kind = "stream"}

(* The record turns terminal, the handle moves to the append window,        *)
(* listeners hear of it.                                                    *)
Ended(st) ==
  /\ status' = st
  /\ mem' = "grace"
  /\ sub' = Notified(sub)
  /\ owed' = IF status = "running" THEN Streamed ELSE owed

-----------------------------------------------------------------------------
(* The turn *)

(* emit() of a frame the SDK sent.                                          *)
Emit ==
  /\ bridge = "streaming" /\ produced < MaxFrames
  /\ produced' = produced + 1
  /\ Appended(<<[kind |-> "stream", n |-> produced + 1]>>)
  /\ UNCHANGED <<status, stopped, mem, bridge, attempt, missing, client,
                 shut, owed, breaks>>

(* The stream of an attempt ends: finalizeRun(), unless the attempt was     *)
(* cancelled, which a Stop has recorded; then another attempt, or the end   *)
(* of runTurnWithHeal.                                                      *)
AttemptEnds ==
  /\ bridge = "streaming"
  /\ \/ \E st \in {"completed", "failed"} : Ended(st)
     \/ status = "cancelled" /\ UNCHANGED <<status, mem, sub, owed>>
  /\ \/ bridge' = "settled"
     \/ /\ bridge' = "backoff" /\ attempt < MaxAttempts
        /\ status # "cancelled" /\ status' = "failed"
  /\ UNCHANGED <<log, stopped, count, ring, attempt, produced, missing,
                 unread, client, shut, breaks>>

Retry ==
  /\ bridge = "backoff"
  /\ bridge' = "streaming"
  /\ attempt' = attempt + 1
  /\ UNCHANGED <<recordVars, handleVars, produced, missing, subVars, shut,
                 owed, breaks>>

(* A turn that throws is not finalized: its run stays among the active.     *)
Throws ==
  /\ bridge = "streaming"
  /\ bridge' = "threw"
  /\ UNCHANGED <<recordVars, handleVars, attempt, produced, missing, subVars,
                 shut, owed, breaks>>

(* cancelRun()                                                              *)
Cancel ==
  /\ mem = "active"
  /\ Ended("cancelled")
  /\ stopped' = TRUE
  /\ UNCHANGED <<log, count, ring, bridgeVars, unread, client, shut,
                 breaks>>

(* The buffered stop_reason and usage; a cancelled turn has no usage.       *)
Tails == {<<>>, <<[kind |-> "tail", n |-> 1]>>,
          <<[kind |-> "tail", n |-> 1], [kind |-> "tail", n |-> 2]>>}

(* bridgeSendMessage goes on.  Without tool calls to look up it emits the   *)
(* tail at once; otherwise it reads the transcript first.                   *)
TurnSettles ==
  /\ bridge = "settled"
  /\ \/ /\ missing' \in 1 .. MaxTools /\ bridge' = "posting"
        /\ UNCHANGED <<log, count, ring, sub, unread>>
     \/ /\ bridge' = "over" /\ UNCHANGED missing
        /\ \E tail \in Tails : Appended(tail)
  /\ UNCHANGED <<status, stopped, mem, attempt, produced, client, shut,
                 owed, breaks>>

(* The synthesized returns go to the file alone, with numbers of their own; *)
(* the tail, emitted after them, continues the run's count.                 *)
TurnPosts ==
  /\ bridge = "posting"
  /\ bridge' = "over"
  /\ LET synth == [i \in 1 .. missing |->
                     [seq |-> SynthBase + i,
                      frame |-> [kind |-> "synth", n |-> i]]]
     IN IF mem = "gone"
        THEN log' = log \o synth /\ UNCHANGED <<count, ring, sub, unread>>
        ELSE \E tail \in Tails :
               log' = log \o synth \o Counted(tail) /\ FannedOut(tail)
  /\ UNCHANGED <<status, stopped, mem, attempt, produced, missing, client,
                 shut, owed, breaks>>

(* FINALIZED_APPEND_GRACE_MS is over, long after any drain: no more         *)
(* appends, the ring is dropped.                                            *)
GraceExpires ==
  /\ mem = "grace" /\ \A s \in Sub : sub[s].phase # "draining"
  /\ mem' = "gone"
  /\ ring' = <<>>
  /\ UNCHANGED <<recordVars, count, bridgeVars, subVars, shut, owed, breaks>>

-----------------------------------------------------------------------------
(* Subscriptions *)

(* Mutant: a live run is followed from the ring alone.                      *)
CatchUpFromRing(last) ==
  Rising(IF mem = "active" THEN ring ELSE log, last)

(* readAndEmit()                                                            *)
CatchUp(last) == Rising(log, last)

(* subscribeToRun(), from the client's cursor: a run its user stopped is    *)
(* over without replay; otherwise the file is replayed, and then a terminal *)
(* run is done, a run with a handle is followed live (nothing can come in   *)
(* between, so the ring adds nothing), any other is watched on disk.        *)
Subscribe(s) ==
  LET replay == CatchUp(client[s].cursor)
      Become(phase, last, mark) ==
        sub' = [sub EXCEPT ![s] = [phase |-> phase, last |-> last,
                                   mark |-> mark]]
  IN /\ sub[s].phase = "off" /\ log # <<>>
     /\ IF status \in Terminal /\ stopped
        THEN /\ Become("done", client[s].cursor, TRUE)
             /\ UNCHANGED unread
        ELSE /\ Become(IF status \in Terminal THEN "done"
                       ELSE IF mem # "gone" THEN "live" ELSE "watching",
                       replay.last, FALSE)
             /\ unread' = [unread EXCEPT ![s] = replay.sent]
     /\ UNCHANGED <<recordVars, handleVars, bridgeVars, client, shut, owed,
                    breaks>>

(* SHIM_SUBSCRIBE_TERMINAL_DRAIN_MS after the sentinel: one last read, and  *)
(* onDone.                                                                  *)
DrainExpires(s) ==
  /\ sub[s].phase = "draining"
  /\ LET rest == CatchUp(sub[s].last)
     IN /\ sub' = [sub EXCEPT ![s].phase = "done", ![s].last = rest.last]
        /\ unread' = [unread EXCEPT ![s] = @ \o rest.sent]
  /\ UNCHANGED <<recordVars, handleVars, bridgeVars, client, shut, owed,
                 breaks>>

(* The client reads k entries of its connection.                            *)
HasRead(s, k) ==
  LET got == SubSeq(unread[s], 1, k)
  IN [client[s] EXCEPT !.cursor = IF k = 0 THEN @ ELSE got[k].seq,
                       !.has = @ \o [i \in 1 .. k |-> got[i].frame]]

(* It reads them all, and subscribe_done.                                   *)
Told(s) ==
  /\ sub[s].phase = "done"
  /\ sub' = [sub EXCEPT ![s].phase = "told"]
  /\ client' = [client EXCEPT ![s] = [HasRead(s, Len(unread[s]))
                                      EXCEPT !.mark = sub[s].mark]]
  /\ unread' = [unread EXCEPT ![s] = <<>>]
  /\ UNCHANGED <<recordVars, handleVars, bridgeVars, shut, owed, breaks>>

(* The connection breaks when k entries have been read: stop().  The client *)
(* will subscribe again with the cursor it has.                             *)
Disconnect(s) ==
  /\ sub[s].phase \notin {"off", "told"} /\ breaks < MaxBreaks
  /\ breaks' = breaks + 1
  /\ \E k \in 0 .. Len(unread[s]) :
       client' = [client EXCEPT ![s] = HasRead(s, k)]
  /\ unread' = [unread EXCEPT ![s] = <<>>]
  /\ sub' = [sub EXCEPT ![s] = Unsubscribed]
  /\ UNCHANGED <<recordVars, handleVars, bridgeVars, shut, owed>>

-----------------------------------------------------------------------------
(* The process ends *)

(* SIGTERM: finalizeRestartingRunsOnShutdown() for a run still running.     *)
(* The turn may go on until the process is gone.                            *)
RestartCloses ==
  /\ status = "running" /\ mem = "active"
  /\ shut' = TRUE
  /\ OnDisk(Finals, FALSE)
  /\ Ended("failed")
  /\ UNCHANGED <<stopped, count, ring, bridgeVars, unread, client, breaks>>

(* The process dies, perhaps while it writes a line of the log or run.json, *)
(* and is started again: sweepOrphanedRunningRunsOnBoot() before any        *)
(* connection is accepted.                                                  *)
RunDies ==
  /\ bridge \notin {"lost"} /\ breaks < MaxBreaks
  /\ breaks' = breaks + 1
  /\ bridge' = "lost"
  /\ mem' = "gone" /\ ring' = <<>>
  /\ sub' = [s \in Sub |-> IF sub[s].phase = "told" THEN sub[s]
                           ELSE Unsubscribed]
  /\ unread' = [s \in Sub |-> <<>>]
  /\ IF status # "running" THEN UNCHANGED <<log, status, owed>>
     ELSE \/ /\ \E partial \in BOOLEAN :
                  /\ partial => bridge = "streaming"
                  /\ OnDisk(Finals, partial)
             /\ status' = "failed" /\ owed' = Streamed
          \/ status' = "torn" /\ UNCHANGED <<log, owed>>
  /\ UNCHANGED <<stopped, count, attempt, produced, missing, client, shut>>

FramesNext ==
  \/ Emit \/ AttemptEnds \/ Retry \/ Throws \/ Cancel
  \/ TurnSettles \/ TurnPosts \/ GraceExpires
  \/ \E s \in Sub : \/ Subscribe(s) \/ DrainExpires(s) \/ Told(s)
                    \/ Disconnect(s)
  \/ RestartCloses \/ RunDies

FramesSpec == FramesInit /\ [][FramesNext]_framesVars

(* Streams end (TurnEngine) and timers fire.                                *)
FramesFairness ==
  WF_framesVars(AttemptEnds) /\ \A s \in Sub : WF_framesVars(DrainExpires(s))

FramesLiveSpec == FramesSpec /\ FramesFairness

-----------------------------------------------------------------------------
(* Properties *)

(* No number is given twice in the log, by the handle, by the synthesized   *)
(* returns and by appendRunFrameOnDisk, which counts lines: through         *)
(* retries, the append window, a crash in the middle of a line and the      *)
(* sweep that follows.  (A graceful shutdown is another matter: the sweep   *)
(* and the turn then number the same log.)                                  *)
SeqNamesOneFrame ==
  ~shut => \A i, j \in 1 .. Len(log) :
             i # j => log[i].seq # log[j].seq

(* However often a client loses its connection and subscribes again from    *)
(* its cursor, while the log grows, is read back and is fanned out, no      *)
(* frame reaches it twice (subscribeToRun).                                 *)
Delivered(s) ==
  client[s].has \o [i \in 1 .. Len(unread[s]) |-> unread[s][i].frame]

NoFrameTwice ==
  \A s \in Sub : \A i, j \in 1 .. Len(Delivered(s)) :
    i # j => Delivered(s)[i] # Delivered(s)[j]

(* Numbers name frames, and each frame comes once.                          *)
EachFrameOnce == SeqNamesOneFrame /\ NoFrameTwice

(* What client s has read.                                                  *)
Has(s) == {client[s].has[i] : i \in 1 .. Len(client[s].has)}

(* A client told that the run is over has every frame the turn had logged   *)
(* when the run's record turned terminal, over all its connections.  It     *)
(* does not speak of the tail, which may come after subscribe_done.         *)
DoneIsComplete ==
  \A s \in Sub :
    sub[s].phase = "told" /\ ~client[s].mark =>
      owed \subseteq Has(s)

(* A run that died with its process, and whose record can be read, is       *)
(* closed for its followers by a turn_done frame, also when the crash tore  *)
(* the last line of its log (sweepOrphanedRunningRunsOnBoot).               *)
SweptRunsAreClosed ==
  \A s \in Sub :
    /\ sub[s].phase = "told" /\ ~client[s].mark /\ ~shut
    /\ \E i \in 1 .. Len(log) : log[i].frame.kind = "final"
    => TurnDoneFrame \in Has(s)

(* Whoever is told that a run is over has what there is of it: its stream,  *)
(* or after a crash the frame that closes it.                               *)
FollowersHaveAll == DoneIsComplete /\ SweptRunsAreClosed

(* Who follows a run is told when it ends, however it ends: finalized,      *)
(* cancelled, shut down.  A turn that throws is not finalized, and its      *)
(* followers wait until somebody cancels the run.                           *)
SubscriptionsEnd ==
  \A s \in Sub :
    Listening(s) ~> (~Listening(s) \/ bridge = "threw")
=============================================================================
