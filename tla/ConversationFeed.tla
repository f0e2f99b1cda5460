-------------------------- MODULE ConversationFeed --------------------------
(***************************************************************************)
(* How the frames of a conversation reach the mobile clients: the durable  *)
(* cursor and replay log of each conversation                              *)
(* (mobile-conversation-cursors.ts), the WebSocket sessions that run turns *)
(* and follow conversations (ws-handler.mjs), the channel push used by     *)
(* cron turns (plugin.mjs, server.ts), the connection, which loses what    *)
(* was not read when it breaks, and the client's cursor, kept by the rules *)
(* of MOBILE_WS_PROTOCOL.md 12.3.                                          *)
(*                                                                         *)
(* One action is one callback or one stretch of a handler between two      *)
(* awaits; a frame is stamped, logged, fanned out and sent in one of them. *)
(***************************************************************************)
EXTENDS Naturals, FiniteSets, Sequences, SequencesExt

CONSTANTS
  Device,
  Conv,
  Opened,        \* conversations the clients use; cron may use them all
  Turn,          \* turns, of the devices' own or of the scheduler
  MaxFrames,     \* SHIM_MOBILE_CONV_REPLAY_MAX_FRAMES
  CacheMax,      \* SHIM_MOBILE_CONV_CURSOR_CACHE_MAX
  CompactEvery,  \* SHIM_MOBILE_CONV_REPLAY_COMPACT_APPENDS
  MaxChunks,     \* bound: frames one turn produces
  MaxSeq,        \* bound: frames stamped in one conversation
  MaxWire,       \* bound: unread frames with which a client still asks
  MaxEvents,     \* bound: requests, cron fires, closes, restarts, expiries
  None           \* null; and the device of a turn that no device asked for

ASSUME FeedAssumption ==
  /\ MaxFrames \in Nat \ {0} /\ CacheMax \in Nat \ {0}
  /\ CompactEvery \in Nat \ {0}
  /\ MaxChunks \in Nat /\ MaxSeq \in Nat /\ MaxWire \in Nat
  /\ MaxEvents \in Nat
  /\ Opened \subseteq Conv
  /\ None \notin Device /\ None \notin Turn /\ None \notin Conv

VARIABLES
  sidecar,   \* disk: conversation -> highest seq assigned and acked
  log,       \* disk: conversation -> entries of its replay log, a set:
             \* whoever reads the file sorts what it keeps of it
  expired,   \* conversation -> highest seq whose entry is past its TTL
  states,    \* process: conversation -> its cached CursorState
  lru,       \* keys of that cache, the least recently used first
  ready,     \* devices with a session past hello
  subs,      \* device -> keys of activeConversationSubscriptions
  inFlight,  \* device -> the inFlight flag of its session
  action,    \* device -> conversation of an accepted user_action, or None
  turn,      \* turn -> its closure's locals
  wire,      \* device -> frames on its connection, not read yet
  cursor,    \* device -> conversation -> last_conv_seq of the client
  fed,       \* device -> conversations whose conversation_subscribed it read
  stamped,   \* history: conversation -> entries handed to a sender
  events     \* requests, fires and faults so far

disk == <<sidecar, log>>
cacheVars == <<states, lru>>
sessionVars == <<ready, subs, inFlight, action>>
clientVars == <<cursor, fed>>
vars == <<sidecar, log, expired, states, lru, ready, subs, inFlight, action,
          turn, wire, cursor, fed, stamped, events>>

(* A conversation frame, as far as anything here looks at it: whose turn it *)
(* belongs to, and for turn_done whether it reports dropped frames.         *)
Frame == [turn : Turn, kind : {"turn_started", "chunk", "error", "turn_done"},
          n : 0 .. MaxChunks, lossy : BOOLEAN]
Entry == [seq : 1 .. MaxSeq, frame : Frame]

(* What a client can read: a stamped frame, error{cursor_expired}, and      *)
(* conversation_subscribed.  The other replies do not touch its cursor.     *)
Message == [type : {"frame", "cursor_expired", "subscribed"}, conv : Conv,
            seq : 0 .. MaxSeq]

(* lost: the process died; failing: between the two frames of a failed fire *)
Phases == {"idle", "preparing", "running", "failing", "over", "lost"}

TypeOK ==
  /\ sidecar \in [Conv -> [assigned : 0 .. MaxSeq, ack : 0 .. MaxSeq]]
  /\ log \in [Conv -> SUBSET Entry]
  /\ expired \in [Conv -> 0 .. MaxSeq]
  /\ states \in [Conv -> [assigned : 0 .. MaxSeq, ack : 0 .. MaxSeq,
                          appends : 0 .. CompactEvery]]
  /\ lru \in Seq(Conv) /\ Len(lru) <= CacheMax
  /\ ready \in SUBSET Device
  /\ subs \in [Device -> SUBSET Conv]
  /\ inFlight \in [Device -> BOOLEAN]
  /\ action \in [Device -> Conv \cup {None}]
  /\ turn \in [Turn -> [phase : Phases, by : Device \cup {None},
                        conv : Conv \cup {None}, open : BOOLEAN,
                        chunks : 0 .. MaxChunks, dropped : 0 .. MaxChunks]]
  /\ wire \in [Device -> Seq(Message)]
  /\ cursor \in [Device -> [Conv -> 0 .. MaxSeq]]
  /\ fed \in [Device -> SUBSET Conv]
  /\ stamped \in [Conv -> SUBSET Entry]
  /\ events \in 0 .. MaxEvents

(* The cache entry of a conversation that is not cached.                    *)
NoState == [assigned |-> 0, ack |-> 0, appends |-> 0]

Fresh == [phase |-> "idle", by |-> None, conv |-> None, open |-> FALSE,
          chunks |-> 0, dropped |-> 0]

Init ==
  /\ sidecar = [c \in Conv |-> [assigned |-> 0, ack |-> 0]]
  /\ log = [c \in Conv |-> {}]
  /\ expired = [c \in Conv |-> 0]
  /\ states = [c \in Conv |-> NoState]
  /\ lru = <<>>
  /\ ready = {}
  /\ subs = [d \in Device |-> {}]
  /\ inFlight = [d \in Device |-> FALSE]
  /\ action = [d \in Device |-> None]
  /\ turn = [t \in Turn |-> Fresh]
  /\ wire = [d \in Device |-> <<>>]
  /\ cursor = [d \in Device |-> [c \in Conv |-> 0]]
  /\ fed = [d \in Device |-> {}]
  /\ stamped = [c \in Conv |-> {}]
  /\ events = 0

-----------------------------------------------------------------------------
(* The cursor of a conversation *)

(* getState(): the cached state, or the sidecar read from disk.             *)
Loaded(c) ==
  IF c \in ToSet(lru) THEN states[c]
  ELSE [assigned |-> sidecar[c].assigned, ack |-> sidecar[c].ack,
        appends |-> 0]

(* ... which makes c the most recent key and drops the oldest past the cap. *)
Touched(c) ==
  LET others == IF c \in ToSet(lru)
                THEN RemoveAt(lru, CHOOSE i \in DOMAIN lru : lru[i] = c)
                ELSE lru
      keys == Append(others, c)
      over == IF Len(keys) > CacheMax THEN Len(keys) - CacheMax ELSE 0
  IN SubSeq(keys, over + 1, Len(keys))

(* readReplayFrames(): unacked, within the TTL, the last MaxFrames.         *)
Replayable(entries, c, ack) ==
  LET ok == {x \in entries : x.seq > ack /\ x.seq > expired[c]}
  IN {x \in ok : Cardinality({y \in ok : y.seq > x.seq}) < MaxFrames}

(* ... and its sort: a set of numbers, in order.                            *)
InOrder(Q) ==
  CHOOSE s \in [1 .. Cardinality(Q) -> Q] :
    \A i, j \in 1 .. Cardinality(Q) : i < j => s[i] < s[j]

(* writeSidecar(): tmp and rename, before the frame is logged or sent.      *)
WriteSidecar(c, st) ==
  sidecar' = [sidecar EXCEPT ![c] = [assigned |-> st.assigned, ack |-> st.ack]]

Keep(c, st) ==
  /\ lru' = Touched(c)
  /\ states' = [k \in Conv |-> IF k = c THEN st
                              ELSE IF k \in ToSet(Touched(c)) THEN states[k]
                              ELSE NoState]

FrameMsg(c, q) == [type |-> "frame", conv |-> c, seq |-> q]

(* Mutant: the live listener is taken off the sessions that run a turn.     *)
FannedOutIdle(c, msg, direct) ==
  [d \in Device |->
     wire[d] \o (IF c \in subs[d] /\ ~inFlight[d] THEN <<msg>> ELSE <<>>)
             \o (IF d \in direct THEN <<msg>> ELSE <<>>)]

(* emitConversationFrame() to the subscribed sessions, then the caller's    *)
(* own send to the sessions in direct.                                      *)
FannedOut(c, msg, direct) ==
  [d \in Device |->
     wire[d] \o (IF c \in subs[d] THEN <<msg>> ELSE <<>>)
             \o (IF d \in direct THEN <<msg>> ELSE <<>>)]

(* stampConversationFrame(), and the send of the frame it returns.          *)
Stamp(c, f, direct) ==
  LET st == Loaded(c)
      q == st.assigned + 1
      entry == [seq |-> q, frame |-> f]
      compact == st.appends + 1 >= CompactEvery
      new == [st EXCEPT !.assigned = q,
                        !.appends = IF compact THEN 0 ELSE @ + 1]
      grown == log[c] \cup {entry}
  IN /\ q <= MaxSeq
     /\ WriteSidecar(c, new)
     /\ log' = [log EXCEPT ![c] =
                  IF compact THEN Replayable(grown, c, st.ack) ELSE grown]
     /\ Keep(c, new)
     /\ stamped' = [stamped EXCEPT ![c] = @ \cup {entry}]
     /\ wire' = FannedOut(c, FrameMsg(c, q), direct)

(* Mutant: the window is tested against the newest frame of the log only.   *)
CursorExpiredLax(c, after) == after < Loaded(c).assigned /\ log[c] = {}

(* resumeConversation(): the cursor lies before the window of the log.      *)
CursorExpired(c, after) ==
  /\ after < Loaded(c).assigned
  /\ \A x \in Replayable(log[c], c, Loaded(c).ack) : after + 1 < x.seq

(* emitConversationResume(): error{cursor_expired}, or the missed frames.   *)
ResumeReply(c, after) ==
  IF CursorExpired(c, after)
  THEN <<[type |-> "cursor_expired", conv |-> c, seq |-> Loaded(c).assigned]>>
  ELSE LET replay == Replayable(log[c], c, Loaded(c).ack)
           missed == {q \in {x.seq : x \in replay} : q > after}
       IN [i \in 1 .. Cardinality(missed) |-> FrameMsg(c, InOrder(missed)[i])]

Say(d, msgs) == wire' = [wire EXCEPT ![d] = @ \o msgs]
Room(d) == Len(wire[d]) <= MaxWire
(* The bound on what comes from outside.                                   *)
Occurs == events < MaxEvents /\ events' = events + 1

(* The client waits for the answer to its last subscribe_conversation.      *)
Settled(d, c) ==
  \A i \in 1 .. Len(wire[d]) :
    wire[d][i].conv = c => wire[d][i].type # "subscribed"

-----------------------------------------------------------------------------
(* A session: hello, subscriptions, acks *)

(* The first frame has to be hello; it may carry a cursor to resume.  A     *)
(* socket refused here never becomes a session.                             *)
Hello(d) ==
  /\ d \notin ready
  /\ ready' = ready \cup {d}
  /\ Occurs
  /\ \/ UNCHANGED <<wire, states, lru>>
     \/ \E c \in Opened : /\ Say(d, ResumeReply(c, cursor[d][c]))
                          /\ Keep(c, Loaded(c))
  /\ UNCHANGED <<sidecar, log, expired, subs, inFlight, action, turn,
                 clientVars, stamped>>

(* resume_conversation: the client sends the cursor it has.                 *)
Resume(d, c) ==
  /\ d \in ready /\ Room(d)
  /\ Say(d, ResumeReply(c, cursor[d][c]))
  /\ Keep(c, Loaded(c))
  /\ Occurs
  /\ UNCHANGED <<disk, expired, sessionVars, turn, clientVars, stamped>>

(* subscribe_conversation: the old listener goes, replay, the new listener, *)
(* conversation_subscribed; all in one piece.                               *)
Subscribe(d, c) ==
  /\ d \in ready /\ Room(d) /\ Settled(d, c)
  /\ Say(d, Append(ResumeReply(c, cursor[d][c]),
                   [type |-> "subscribed", conv |-> c, seq |-> 0]))
  /\ subs' = [subs EXCEPT ![d] = @ \cup {c}]
  /\ Keep(c, Loaded(c))
  /\ Occurs
  /\ UNCHANGED <<disk, expired, ready, inFlight, action, turn, clientVars,
                 stamped>>

Unsubscribe(d, c) ==
  /\ d \in ready /\ c \in subs[d] /\ Settled(d, c)
  /\ subs' = [subs EXCEPT ![d] = @ \ {c}]
  /\ fed' = [fed EXCEPT ![d] = @ \ {c}]
  /\ Occurs
  /\ UNCHANGED <<disk, expired, cacheVars, ready, inFlight, action, turn, wire,
                 cursor, stamped>>

(* ack: one mark per conversation, shared by all its devices.               *)
Ack(d, c) ==
  LET st == Loaded(c)
      new == [st EXCEPT !.ack = IF cursor[d][c] > @ THEN cursor[d][c] ELSE @]
  IN /\ d \in ready
     /\ WriteSidecar(c, new)
     /\ Keep(c, new)
     /\ Occurs
     /\ UNCHANGED <<log, expired, sessionVars, turn, wire, clientVars,
                    stamped>>

-----------------------------------------------------------------------------
(* Turns of a session *)

Begun(t, d, c) ==
  turn' = [turn EXCEPT ![t] = [Fresh EXCEPT !.phase = "preparing", !.by = d,
                                            !.conv = c, !.open = TRUE]]

(* send_message; refused while inFlight is set.                             *)
SendMessage(d, c, t) ==
  /\ d \in ready /\ ~inFlight[d]
  /\ turn[t].phase = "idle"
  /\ Begun(t, d, c)
  /\ inFlight' = [inFlight EXCEPT ![d] = TRUE]
  /\ Occurs
  /\ UNCHANGED <<disk, expired, cacheVars, ready, subs, action, wire,
                 clientVars, stamped>>

(* user_action: acknowledged, then the handler awaits.                      *)
UserAction(d, c) ==
  /\ d \in ready /\ action[d] = None
  /\ action' = [action EXCEPT ![d] = c]
  /\ Occurs
  /\ UNCHANGED <<disk, expired, cacheVars, ready, subs, inFlight, turn, wire,
                 clientVars, stamped>>

(* Mutant: the synthetic turn starts whatever runs on the session.          *)
SessionFree(d) == TRUE

(* the inFlight test of dispatchSyntheticTurn                               *)
SessionIdle(d) == ~inFlight[d]

(* dispatchSyntheticTurn(), after the await: another message of the same    *)
(* client may have taken the session meanwhile, and the action is rejected. *)
DispatchAction(d, t) ==
  /\ action[d] # None
  /\ action' = [action EXCEPT ![d] = None]
  /\ IF SessionIdle(d)
     THEN /\ turn[t].phase = "idle"
          /\ Begun(t, d, action[d])
          /\ inFlight' = [inFlight EXCEPT ![d] = TRUE]
     ELSE UNCHANGED <<turn, inFlight>>
  /\ UNCHANGED <<disk, expired, cacheVars, ready, subs, wire, clientVars,
                 stamped, events>>

(* fireTask of the cron scheduler: bridgeSendMessage with a push for every  *)
(* frame, and no session.                                                   *)
CronFires(c, t) ==
  /\ turn[t].phase = "idle"
  /\ Begun(t, None, c)
  /\ Occurs
  /\ UNCHANGED <<disk, expired, cacheVars, sessionVars, wire, clientVars,
                 stamped>>

(* Sessions a frame of turn t is sent to by name: the one that asked; or,   *)
(* for a push, every registered one subscribed to the conversation.         *)
Direct(t) ==
  IF turn[t].by # None THEN {turn[t].by}
  ELSE {d \in ready : turn[t].conv \in subs[d]}

Publish(t, kind, n, lossy) ==
  Stamp(turn[t].conv, [turn |-> t, kind |-> kind, n |-> n, lossy |-> lossy],
        Direct(t))

Unpublished == UNCHANGED <<sidecar, log, cacheVars, wire, stamped>>

Frees(t) ==
  inFlight' = IF turn[t].by # None /\ turn[t].open
              THEN [inFlight EXCEPT ![turn[t].by] = FALSE] ELSE inFlight

(* onRunCreated: emitTurnStarted(), unless the socket has closed.           *)
RunCreated(t) ==
  /\ turn[t].phase = "preparing"
  /\ turn' = [turn EXCEPT ![t].phase = "running"]
  /\ IF turn[t].open THEN Publish(t, "turn_started", 0, FALSE) ELSE Unpublished
  /\ UNCHANGED <<expired, sessionVars, clientVars, events>>

(* Mutant: a drop is logged and not counted.                                *)
DropUncounted(t) ==
  turn' = [turn EXCEPT ![t].chunks = @ + 1]

(* bufferedAmount above the high-water mark: the frame gets no conv_seq.    *)
Drop(t) ==
  turn' = [turn EXCEPT ![t].chunks = @ + 1, ![t].dropped = @ + 1]

(* onFrame: ignored after close, dropped under backpressure (some bytes are *)
(* still unread; how many is the connection's affair), or stamped and sent. *)
Chunk(t) ==
  /\ turn[t].phase = "running" /\ turn[t].chunks < MaxChunks
  /\ \/ /\ turn' = [turn EXCEPT ![t].chunks = @ + 1]
        /\ IF turn[t].open THEN Publish(t, "chunk", turn[t].chunks, FALSE)
                           ELSE Unpublished
     \/ /\ turn[t].by # None /\ turn[t].open /\ wire[turn[t].by] # <<>>
        /\ Drop(t)
        /\ Unpublished
  /\ UNCHANGED <<expired, sessionVars, clientVars, events>>

(* host.sendMessage settles, or throws, before a run exists or after:       *)
(* turn_done, and the session is free.                                      *)
TurnOver(t) ==
  /\ turn[t].phase \in {"preparing", "running"}
  /\ turn[t].phase = "preparing" => turn[t].by # None
  /\ turn' = [turn EXCEPT ![t].phase = "over", ![t].open = FALSE]
  /\ Frees(t)
  /\ IF turn[t].open
     THEN Publish(t, "turn_done", 0, turn[t].dropped > 0) ELSE Unpublished
  /\ UNCHANGED <<expired, ready, subs, action, clientVars, events>>

(* The catch of fireTask pushes an error frame and then turn_done.  No      *)
(* callback runs between the two; the model lets one.                       *)
FireFails(t) ==
  /\ turn[t].by = None /\ turn[t].phase \in {"preparing", "running"}
  /\ turn' = [turn EXCEPT ![t].phase = "failing"]
  /\ Publish(t, "error", 0, FALSE)
  /\ UNCHANGED <<expired, sessionVars, clientVars, events>>

FireFailed(t) ==
  /\ turn[t].phase = "failing"
  /\ turn' = [turn EXCEPT ![t].phase = "over", ![t].open = FALSE]
  /\ Publish(t, "turn_done", 0, FALSE)
  /\ UNCHANGED <<expired, sessionVars, clientVars, events>>

-----------------------------------------------------------------------------
(* Faults, time, the client *)

(* bye, idle timeout, socket error or loss: stopAll().  The turn goes on,   *)
(* with its closed flag set.                                                *)
Close(d) ==
  /\ d \in ready
  /\ Occurs
  /\ ready' = ready \ {d}
  /\ subs' = [subs EXCEPT ![d] = {}]
  /\ inFlight' = [inFlight EXCEPT ![d] = FALSE]
  /\ action' = [action EXCEPT ![d] = None]
  /\ turn' = [t \in Turn |-> IF turn[t].by = d
                             THEN [turn[t] EXCEPT !.open = FALSE] ELSE turn[t]]
  /\ wire' = [wire EXCEPT ![d] = <<>>]
  /\ fed' = [fed EXCEPT ![d] = {}]
  /\ UNCHANGED <<disk, expired, cacheVars, cursor, stamped>>

(* The process dies inside a stamp: the counter is on disk, the frame not.  *)
TornStamp(c) ==
  /\ sidecar' = [sidecar EXCEPT ![c].assigned = @ + 1]
  /\ UNCHANGED log

Live(t) == turn[t].phase \in {"preparing", "running", "failing"}

(* The shim stops and starts, perhaps in the middle of a stamp.             *)
Restart ==
  /\ Occurs
  /\ \/ UNCHANGED disk
     \/ \E c \in Conv : /\ sidecar[c].assigned < MaxSeq
                        /\ \E t \in Turn : Live(t) /\ turn[t].conv = c
                        /\ TornStamp(c)
  /\ lru' = <<>>
  /\ states' = [c \in Conv |-> NoState]
  /\ ready' = {}
  /\ subs' = [d \in Device |-> {}]
  /\ inFlight' = [d \in Device |-> FALSE]
  /\ action' = [d \in Device |-> None]
  /\ turn' = [t \in Turn |-> IF Live(t)
                 THEN [turn[t] EXCEPT !.phase = "lost", !.open = FALSE]
                 ELSE turn[t]]
  /\ wire' = [d \in Device |-> <<>>]
  /\ fed' = [d \in Device |-> {}]
  /\ UNCHANGED <<expired, cursor, stamped>>

(* Entries pass their TTL, the oldest first.                                *)
Expire(c) ==
  /\ \E q \in expired[c] + 1 .. sidecar[c].assigned :
       expired' = [expired EXCEPT ![c] = q]
  /\ Occurs
  /\ UNCHANGED <<disk, cacheVars, sessionVars, turn, wire, clientVars, stamped>>

(* The client reads a frame.  A duplicate is dropped; a gap, and            *)
(* cursor_expired, make it fetch the transcript and take the number it saw. *)
Read(d) ==
  /\ wire[d] # <<>>
  /\ wire' = [wire EXCEPT ![d] = Tail(@)]
  /\ LET m == Head(wire[d]) IN
       IF m.type = "subscribed"
       THEN /\ fed' = [fed EXCEPT ![d] = @ \cup {m.conv}]
            /\ UNCHANGED cursor
       ELSE /\ cursor' = [cursor EXCEPT ![d][m.conv] =
                            IF m.seq > @ THEN m.seq ELSE @]
            /\ UNCHANGED fed
  /\ UNCHANGED <<disk, expired, cacheVars, sessionVars, turn, stamped,
                 events>>

Next ==
  \/ \E d \in Device : Hello(d) \/ Close(d) \/ Read(d)
  \/ \E d \in Device, c \in Opened :
       \/ Resume(d, c) \/ Subscribe(d, c) \/ Unsubscribe(d, c) \/ Ack(d, c)
       \/ UserAction(d, c)
       \/ \E t \in Turn : SendMessage(d, c, t)
  \/ \E d \in Device, t \in Turn : DispatchAction(d, t)
  \/ \E c \in Conv, t \in Turn : CronFires(c, t)
  \/ \E t \in Turn : RunCreated(t) \/ Chunk(t) \/ TurnOver(t) \/ FireFails(t)
                     \/ FireFailed(t)
  \/ \E c \in Conv : Expire(c)
  \/ Restart

Spec == Init /\ [][Next]_vars

-----------------------------------------------------------------------------
(* Properties *)

(* Between the replay and the live tail of subscribe_conversation nothing   *)
(* is lost: every frame of the conversation beyond the client's cursor is   *)
(* on its connection, or word that its cursor expired is.                   *)
NothingFallsBetween ==
  \A d \in ready : \A c \in subs[d] : \A x \in stamped[c] :
    x.seq <= cursor[d][c] \/
    \E i \in 1 .. Len(wire[d]) :
      /\ wire[d][i].conv = c
      /\ \/ wire[d][i] = FrameMsg(c, x.seq)
         \/ wire[d][i].type = "cursor_expired" /\ wire[d][i].seq >= x.seq

(* A turn_done that does not say lossy closes a turn of which every frame   *)
(* has a conv_seq (droppedFrameCount of the turn's closure).                *)
LossIsReported ==
  \A c \in Conv : \A x \in stamped[c] :
    x.frame.kind = "turn_done" /\ ~x.frame.lossy =>
      Cardinality({y \in stamped[c] : y.frame.kind = "chunk" /\
                                      y.frame.turn = x.frame.turn})
        = turn[x.frame.turn].chunks

(* In the feed, turn_started opens a turn, turn_done closes it, and two     *)
(* turns of one device do not interleave, whether they come from            *)
(* send_message, from a user_action or from another session of the device.  *)
TurnsAreBracketed ==
  \A c \in Conv : \A x, y \in stamped[c] :
    LET t == x.frame.turn
        u == y.frame.turn
    IN /\ t = u /\ y.frame.kind = "turn_started" => y.seq <= x.seq
       /\ t = u /\ y.frame.kind = "turn_done" => x.seq <= y.seq
       /\ t # u /\ turn[t].by = turn[u].by /\ turn[t].by # None =>
            ~\E z \in stamped[c] : /\ z.frame.turn = t
                                   /\ x.seq < y.seq /\ y.seq < z.seq

(* The sessions, the log and the connections implement the feed a client    *)
(* may rely on: numbers only grow and name one frame for ever, over cache   *)
(* evictions, compactions, restarts and a crash inside a stamp; and a       *)
(* device that has read conversation_subscribed gets the frames in order    *)
(* without a gap.                                                           *)
Feed == INSTANCE OrderedFeed WITH
          published <- [c \in Conv |-> {x.seq : x \in stamped[c]}],
          frames <- [c \in Conv |-> Cardinality(stamped[c])],
          at <- cursor,
          follows <- fed
ImplementsFeed == Feed!Spec

=============================================================================
