------------------------ MODULE DistributedReference ------------------------
(***************************************************************************)
(* TwoInstanceCoordinator of modules/distributed_reference: an authority   *)
(* and a follower that are advanced separately, and reconcile, which sends *)
(* the authority's input of one frame over the link and has the follower   *)
(* corrected by whatever the receiver's socket gives back for that frame.  *)
(*                                                                         *)
(* A call of reconcile runs in one thread: only the network acts during    *)
(* it, and what it does between the steps of the call is in the choices of *)
(* the actions.  Calls that return before they change anything (converged, *)
(* other frames, nothing to export, refused enqueue) are stuttering steps. *)
(* Both replicas are D-Core adapters: the schemas are equal.               *)
(***************************************************************************)
EXTENDS Integers, Sequences

---------------------------------------------------------------------------
(***************************************************************************)
(* UdpReferenceEndpoint of modules/distributed_reference: one endpoint     *)
(* that sends to another over UDP.  The sender numbers its datagrams       *)
(* within a session epoch, the receiver's ReferenceReplayWindow takes each *)
(* number at most once and none that is older than the newest.             *)
(*                                                                         *)
(* The wire loses, duplicates, delays, reorders and damages datagrams.  A  *)
(* datagram that is lost is one that is never taken off the wire, and so   *)
(* is one for a receiver that is not connected; a damaged one never passes *)
(* the SHA-256 of its envelope and is refused without a trace.  An         *)
(* endpoint's operations are operators on its state, so that the           *)
(* coordinator's reconcile can use several of them in one call.            *)
(***************************************************************************)

CONSTANTS
  MaxEpoch,     \* the largest session epoch, at which reconnect stops counting
  MaxPending,   \* limits.maximum_pending_datagrams
  MaxSent       \* bound: datagrams that are enqueued

ASSUME LinkAssumption ==
  /\ MaxEpoch \in Nat /\ MaxEpoch >= 2
  /\ MaxPending \in Nat \ {0}
  /\ MaxSent \in Nat

VARIABLES
  sender,     \* [connected, epoch, next, pending]
  receiver,   \* its replay window: [epoch, highest]
  wire,       \* datagrams sent, of which a copy may still come
  sent,       \* how many were ever enqueued; numbers them
  delivered   \* history: the numbers receive accepted, in order

linkVars == <<sender, receiver, wire, sent, delivered>>

\* The loopback pair: both endpoints have connected once.
LinkInit ==
  /\ sender = [connected |-> TRUE, epoch |-> 2, next |-> 1, pending |-> <<>>]
  /\ receiver = [epoch |-> 0, highest |-> 0]
  /\ wire = {}
  /\ sent = 0
  /\ delivered = <<>>

-----------------------------------------------------------------------------
(* The operations of an endpoint *)

\* enqueue refuses when not connected or at the limit, and changes nothing
CanEnqueue == sender.connected /\ Len(sender.pending) < MaxPending

Enqueued(body) ==
  [sender EXCEPT
     !.next = @ + 1,
     !.pending = Append(@, [id |-> sent + 1, epoch |-> sender.epoch,
                            sequence |-> sender.next, body |-> body])]

\* flush that got n datagrams out before send failed, or all of them
Flushed(endpoint, n) ==
  [endpoint EXCEPT !.pending = SubSeq(@, n + 1, Len(@))]

OnWire(endpoint, n) == wire \cup {endpoint.pending[i] : i \in 1..n}

\* A mutant: a repeated sequence passes.
AcceptsRepeated(window, datagram) ==
  \/ datagram.epoch > window.epoch
  \/ datagram.epoch = window.epoch /\ datagram.sequence >= window.highest

\* ReferenceReplayWindow::accept: neither StaleEpoch nor Replay.  Sequences
\* start at 1.
Accepts(window, datagram) ==
  \/ datagram.epoch > window.epoch
  \/ datagram.epoch = window.epoch /\ datagram.sequence > window.highest

WindowAfter(window, datagram) ==
  IF Accepts(window, datagram)
  THEN [epoch |-> datagram.epoch, highest |-> datagram.sequence]
  ELSE window

\* What select and recv take off a wire: one of its datagrams, of which
\* another copy may follow.
TakenFrom(datagrams, datagram) == {datagrams, datagrams \ {datagram}}

-----------------------------------------------------------------------------
(* Calls of the host and what the network does *)

\* enqueue of a datagram that no reconcile waits for
EnqueueOther ==
  /\ CanEnqueue /\ sent < MaxSent
  /\ sender' = Enqueued([frame |-> -1, input |-> "other"])
  /\ sent' = sent + 1
  /\ UNCHANGED <<receiver, wire, delivered>>

Flush ==
  /\ sender.connected
  /\ \E n \in 0..Len(sender.pending) :
       /\ sender' = Flushed(sender, n)
       /\ wire' = OnWire(sender, n)
  /\ UNCHANGED <<receiver, sent, delivered>>

\* receive, called by the host itself
Receive ==
  /\ \E datagram \in wire :
       /\ wire' \in TakenFrom(wire, datagram)
       /\ receiver' = WindowAfter(receiver, datagram)
       /\ delivered' = IF Accepts(receiver, datagram)
                       THEN Append(delivered, datagram.id) ELSE delivered
  /\ UNCHANGED <<sender, sent>>

\* A mutant: the sequence starts again in the same epoch.
ReconnectSameEpoch ==
  /\ sender' = [connected |-> TRUE, epoch |-> sender.epoch,
                next |-> 1, pending |-> <<>>]
  /\ UNCHANGED <<receiver, wire, sent, delivered>>

Reconnect ==
  /\ sender' = [connected |-> TRUE,
                epoch |-> IF sender.epoch = MaxEpoch THEN MaxEpoch
                          ELSE sender.epoch + 1,
                next |-> 1, pending |-> <<>>]
  /\ UNCHANGED <<receiver, wire, sent, delivered>>

\* reconnect whose connect fails: what is pending stays
ReconnectFails ==
  /\ sender' = [sender EXCEPT !.connected = FALSE]
  /\ UNCHANGED <<receiver, wire, sent, delivered>>

Disconnect ==
  /\ sender' = [sender EXCEPT !.connected = FALSE, !.pending = <<>>]
  /\ UNCHANGED <<receiver, wire, sent, delivered>>

LinkStep ==
  \/ EnqueueOther
  \/ Flush
  \/ Receive
  \/ Reconnect
  \/ ReconnectFails
  \/ Disconnect

-----------------------------------------------------------------------------
\* The receiver never gets ahead of the sender: what the sender enqueues next
\* has a number the window takes, after any reconnects, losses and repeated
\* or delayed datagrams, so that a live link is never mistaken for a replay
\* (distributed_reference.cpp:266-281, 406-422).  At the last epoch, which
\* reconnects no longer raise, it can be.
WindowBehindSender ==
  sender.epoch < MaxEpoch =>
    \/ receiver.epoch < sender.epoch
    \/ receiver.epoch = sender.epoch /\ receiver.highest < sender.next

\* What receive accepts it accepts once and in the order it was enqueued,
\* whatever the wire repeats or reorders and however often the sender
\* reconnects meanwhile (distributed_reference.cpp:266-281).
DeliveredInOrder ==
  sender.epoch < MaxEpoch =>
    \A i, j \in DOMAIN delivered : i < j => delivered[i] < delivered[j]

---------------------------------------------------------------------------
(***************************************************************************)
(* DCoreReplicaAdapter of modules/distributed_reference: a rollback engine *)
(* and a history of the inputs it was advanced with, from which an         *)
(* authority exports corrections.                                          *)
(*                                                                         *)
(* The engine is what RollbackEngine shows it to be: the retained worlds   *)
(* are the replay of the inputs on record.  A world is then the sequence   *)
(* of inputs it was computed with, and the engine is                       *)
(*   state    that of current_, one input per frame                        *)
(*   inputs   the inputs on record for the same frames                     *)
(*   reached  the newest snapshot: below the current frame after a         *)
(*            correction that was cut short by an exception                *)
(***************************************************************************)

CONSTANTS
  Capacity,     \* snapshot_capacity
  Undecodable   \* inputs decode_inputs refuses: they name the entity 0

Frame(replica) == Len(replica.state)

WithInput(f, key, value) ==
  [k \in DOMAIN f \cup {key} |-> IF k = key THEN value ELSE f[k]]

NewReplica ==
  [state |-> <<>>, inputs |-> <<>>, reached |-> 0,
   history |-> [f \in {} |-> {}]]

\* A mutant: the truncation takes the snapshot of the corrected frame too.
CorrectableShort(replica) ==
  {f \in 0..(Frame(replica) - 1) :
     f > Frame(replica) - Capacity
       /\ (f < replica.reached \/ replica.reached = Frame(replica))}

\* Frames correct_input_and_resimulate accepts: before the current one, with
\* a snapshot
Correctable(replica) ==
  {f \in 0..(Frame(replica) - 1) :
     f > Frame(replica) - Capacity /\ f <= replica.reached}

\* A mutant: one frame too few is kept.
RetainedShort(history) ==
  {f \in DOMAIN history : \A g \in DOMAIN history : g - f < Capacity - 2}

\* The erase loop of advance: at most Capacity - 1 frames, the newest.  Their
\* numbers are consecutive.
Retained(history) ==
  {f \in DOMAIN history : \A g \in DOMAIN history : g - f < Capacity - 1}

\* The store takes the next frame only after the newest snapshot.
CanAdvance(replica) == replica.reached = Frame(replica)

Advanced(replica, input) ==
  LET history == WithInput(replica.history, Frame(replica), input) IN
  [state |-> Append(replica.state, input),
   inputs |-> Append(replica.inputs, input),
   reached |-> Frame(replica) + 1,
   history |-> [f \in Retained(history) |-> history[f]]]

\* advance that throws in the engine: the input is on record already
AdvanceThrown(replica, input) ==
  [replica EXCEPT !.history = WithInput(@, Frame(replica), input)]

\* apply_authoritative_correction: the engine's timeline up to the frame the
\* resimulation reached and the rest of the inputs behind it
CorrectedInputs(replica, frame, input) ==
  [replica.inputs EXCEPT ![frame + 1] = input]

\* A mutant: the adapter's own history keeps the old input.
CorrectedKeepsHistory(replica, frame, input) ==
  LET inputs == CorrectedInputs(replica, frame, input) IN
  [state |-> inputs, inputs |-> inputs, reached |-> Frame(replica),
   history |-> replica.history]

Corrected(replica, frame, input) ==
  LET inputs == CorrectedInputs(replica, frame, input) IN
  [state |-> inputs, inputs |-> inputs, reached |-> Frame(replica),
   history |-> WithInput(replica.history, frame, input)]

\* The resimulation throws on its way from reached to the frame after it
CutShort(replica, frame, input, reached) ==
  [replica EXCEPT !.inputs = CorrectedInputs(replica, frame, input),
                  !.reached = reached]

---------------------------------------------------------------------------
CONSTANTS
  Inputs,      \* the inputs of one frame
  MaxFrame     \* bound: frames the replicas are advanced to

ASSUME CoordinatorAssumption ==
  /\ Capacity \in Nat \ {0}
  /\ MaxFrame \in Nat
  /\ Undecodable \subseteq Inputs

VARIABLES
  authority,   \* authoritative_
  follower,    \* follower_
  exported,    \* history: <<frame, input>> of the corrections ever exported
  cut          \* history: frames whose correction was cut short and not
               \* made again since

replicaVars == <<linkVars, authority, follower, exported, cut>>

ReplicasInit ==
  /\ LinkInit
  /\ authority = NewReplica
  /\ follower = NewReplica
  /\ exported = {}
  /\ cut = {}

-----------------------------------------------------------------------------
AdvanceAuthority(input) ==
  /\ Frame(authority) < MaxFrame
  /\ CanAdvance(authority)
  /\ authority' = Advanced(authority, input)
  /\ UNCHANGED <<linkVars, follower, exported, cut>>

AdvanceFollower(input) ==
  /\ Frame(follower) < MaxFrame
  /\ CanAdvance(follower)
  /\ follower' = Advanced(follower, input)
  /\ UNCHANGED <<linkVars, authority, exported, cut>>

\* memory runs out, a step overflows, or a correction was cut short before
AdvanceFollowerThrows(input) ==
  /\ Frame(follower) < MaxFrame
  /\ follower' = AdvanceThrown(follower, input)
  /\ UNCHANGED <<linkVars, authority, exported, cut>>

\* compare: Divergent
Divergent ==
  /\ Frame(authority) = Frame(follower)
  /\ authority.state # follower.state

\* reconcile up to and with enqueue, for a call that gets that far
Exports(frame) ==
  /\ Divergent
  /\ frame \in DOMAIN authority.history
  /\ CanEnqueue /\ sent < MaxSent
  /\ sent' = sent + 1
  /\ exported' = exported \cup {<<frame, authority.history[frame]>>}

Correction(frame) == [frame |-> frame, input |-> authority.history[frame]]

\* send fails: the correction stays pending behind those before it
ReconcileCannotFlush(frame) ==
  /\ Exports(frame)
  /\ LET queued == Enqueued(Correction(frame)) IN
     \E n \in 0..(Len(queued.pending) - 1) :
       /\ sender' = Flushed(queued, n)
       /\ wire' = OnWire(queued, n)
  /\ UNCHANGED <<receiver, delivered, authority, follower, cut>>

\* receive is not connected, has nothing in time or only damaged bytes
ReconcileReceivesNothing(frame) ==
  /\ Exports(frame)
  /\ LET queued == Enqueued(Correction(frame))
         all == Len(queued.pending)
     IN
     /\ sender' = Flushed(queued, all)
     /\ wire' = OnWire(queued, all)
  /\ UNCHANGED <<receiver, delivered, authority, follower, cut>>

\* A mutant: any correction that arrives is taken for the one just sent.
AnswersAnything(datagram, frame) == Accepts(receiver, datagram)

\* The datagram is accepted and is a correction of the frame asked for
Answers(datagram, frame) ==
  Accepts(receiver, datagram) /\ datagram.body.frame = frame

\* apply_authoritative_correction, if the correction is decoded and the frame
\* retained; any step of its resimulation may throw
Apply(frame, input) ==
  IF input \in Undecodable \/ frame \notin Correctable(follower)
  THEN UNCHANGED <<follower, cut>>
  ELSE \/ /\ follower' = Corrected(follower, frame, input)
          /\ cut' = cut \ {frame}
       \/ \E reached \in frame..(Frame(follower) - 1) :
            /\ follower' = CutShort(follower, frame, input, reached)
            /\ cut' = cut \cup {frame}

\* receive gives back some intact datagram, not always the one just sent
ReconcileReceives(frame) ==
  /\ Exports(frame)
  /\ LET queued == Enqueued(Correction(frame))
         all == Len(queued.pending)
     IN
     /\ sender' = Flushed(queued, all)
     /\ \E datagram \in OnWire(queued, all) :
          /\ wire' \in TakenFrom(OnWire(queued, all), datagram)
          /\ receiver' = WindowAfter(receiver, datagram)
          /\ delivered' = IF Accepts(receiver, datagram)
                          THEN Append(delivered, datagram.id) ELSE delivered
          /\ IF Answers(datagram, frame)
             THEN Apply(frame, datagram.body.input)
             ELSE UNCHANGED <<follower, cut>>
  /\ UNCHANGED authority

ReplicasNext ==
  \/ \E input \in Inputs : AdvanceAuthority(input)
  \/ \E input \in Inputs : AdvanceFollower(input)
  \/ \E input \in Inputs : AdvanceFollowerThrows(input)
  \/ \E frame \in 0..MaxFrame : ReconcileCannotFlush(frame)
  \/ \E frame \in 0..MaxFrame : ReconcileReceivesNothing(frame)
  \/ \E frame \in 0..MaxFrame : ReconcileReceives(frame)
  \/ LinkStep /\ UNCHANGED <<authority, follower, exported, cut>>

ReplicasSpec == ReplicasInit /\ [][ReplicasNext]_replicaVars

-----------------------------------------------------------------------------
(* Properties *)

\* The timelines are no longer than the bound, inputs and state go over the
\* same frames, and no history is longer than the retention, an input that
\* never took effect aside (dcore_replica_adapter.cpp:111-118).
ReplicasTypeOK ==
  \A replica \in {authority, follower} :
    /\ Len(replica.inputs) = Frame(replica)
    /\ Frame(replica) <= MaxFrame
    /\ replica.reached \in 0..Frame(replica)
    /\ \A f, g \in DOMAIN replica.history :
         g < Frame(replica) => g - f < Capacity - 1

\* Every frame a replica can still correct is one it can export: the history
\* of the adapter, counted in entries, and the snapshots of the engine,
\* counted in frames, cover the same window (dcore_replica_adapter.cpp:109,
\* 115-117).
CorrectableIsExportable ==
  \A replica \in {authority, follower} :
    Correctable(replica) \subseteq DOMAIN replica.history

\* The input a replica would export for a frame is the one its state was
\* computed with, unless a correction of that frame was cut short: there the
\* engine keeps the corrected input and the adapter the one before it
\* (dcore_replica_adapter.cpp:152-153).
ExportIsTimeline ==
  \A replica \in {authority, follower} :
    \A f \in DOMAIN replica.history :
      f < Frame(replica) /\ f \notin cut =>
        replica.history[f] = replica.inputs[f + 1]

\* A correction that was cut short can be made again: its frame stays
\* correctable however often advances are tried and other corrections are
\* cut short meanwhile, since the engine does not move before one succeeds.
CutShortCanBeRepeated ==
  follower.reached < Frame(follower) =>
    \E f \in cut : f \in Correctable(follower)

\* Of the two replicas: the link never makes a live datagram look like a
\* replay, and what is exported can be corrected, is the timeline, and can be
\* made again when it was cut short.
ReplicasAgree ==
  /\ WindowBehindSender /\ DeliveredInOrder
  /\ CorrectableIsExportable /\ ExportIsTimeline /\ CutShortCanBeRepeated

\* A reconcile changes the follower in the frame it was called for and in no
\* other, and to an input the authority exported for that frame, whatever
\* datagrams of earlier calls are still under way
\* (distributed_reference.cpp:507-517).
CorrectsAsAsked ==
  Frame(follower') = Frame(follower) =>
    \A f \in 0..(Frame(follower) - 1) :
      follower'.inputs[f + 1] # follower.inputs[f + 1] =>
        <<f, follower'.inputs[f + 1]>> \in exported'
CorrectsWhatWasAsked == [][CorrectsAsAsked]_replicaVars

===========================================================================
