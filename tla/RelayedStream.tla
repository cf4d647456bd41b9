--------------------------- MODULE RelayedStream -----------------------------
(***************************************************************************)
(* A dashboard that watches another host: the viewer's stream is relayed   *)
(* by one agent (src/peers.go, serveRelayStream) from the stream handler   *)
(* of the host itself (src/server.go, GET /api/stream), whose subscription *)
(* keeps the expensive sampling lanes awake.  Any of the three may close   *)
(* its connection or vanish without a word.  A connection is the number of *)
(* messages in flight and whether either end has closed it.                *)
(***************************************************************************)
EXTENDS Integers

CONSTANTS Keepalive,     \* streamKeepaliveInterval
          WriteTimeout,  \* streamWriteTimeout
          IdleLimit,     \* peerStreamIdleLimit
          Buffer,        \* messages a connection holds before a write blocks
          MaxTime        \* bound: the clock stops here

\* peerStreamIdleLimit is longer than the keepalive interval.
\* What is assumed of the constants.
StreamAssumption ==
  /\ {Keepalive, WriteTimeout, IdleLimit, Buffer, MaxTime} \subseteq Nat \ {0}
  /\ Keepalive < IdleLimit

VARIABLES
  now,
  host,       \* the handler on the watched host: where it is, when its write
              \* deadline and its next keepalive are due
  published,  \* is a snapshot waiting in the subscriber's channel?
  near,       \* connection from the host to the relay
  relay,      \* the relaying handler, and when its timers are due
  chunk,      \* has the relay's reader a chunk to hand over?
  far,        \* connection from the relay to the viewer
  gone        \* who has vanished or closed, and when: a time or 0

vars == <<now, host, published, near, relay, chunk, far, gone>>

Open == [held |-> 0, closed |-> FALSE]
Shut(c) == [c EXCEPT !.closed = TRUE]
AtWork == {"waiting", "writing"}

\* The viewer's request has reached the host: both handlers are at work.
Init ==
  /\ now = 1
  /\ host = [at |-> "waiting", writeDue |-> 0, beat |-> 1 + Keepalive]
  /\ published \in BOOLEAN
  /\ relay = [at |-> "waiting", writeDue |-> 0, idle |-> 1 + IdleLimit]
  /\ near = Open /\ far = Open /\ chunk = FALSE
  /\ gone = [viewer |-> 0, host |-> 0]

Subscribed == host.at \in AtWork
Here(who) == gone[who] = 0

-----------------------------------------------------------------------------
(* The stream handler of the watched host.                                  *)

Publish ==
  /\ Subscribed /\ ~published /\ published' = TRUE
  /\ UNCHANGED <<now, host, near, relay, chunk, far, gone>>

\* Mutant of Deadline: a write may take for ever.
DeadlineNever == MaxTime + 1

\* Every write is given its own deadline.
Deadline == now + WriteTimeout

\* A snapshot or a keepalive: written, or blocked on a full connection.
HostHasNews ==
  /\ Here("host") /\ host.at = "waiting" /\ ~near.closed
  /\ published \/ now >= host.beat

HostWrites ==
  /\ HostHasNews
  /\ published' = FALSE
  /\ LET beat == IF now >= host.beat THEN now + Keepalive ELSE host.beat IN
     IF near.held < Buffer
       THEN /\ near' = [near EXCEPT !.held = @ + 1]
            /\ host' = [host EXCEPT !.beat = beat]
       ELSE /\ host' = [at |-> "writing", writeDue |-> Deadline, beat |-> beat]
            /\ UNCHANGED near
  /\ UNCHANGED <<now, relay, chunk, far, gone>>

HostHasRoom == Here("host") /\ host.at = "writing" /\ near.held < Buffer /\ ~near.closed

HostWritten ==
  /\ HostHasRoom
  /\ host' = [host EXCEPT !.at = "waiting", !.writeDue = 0]
  /\ near' = [near EXCEPT !.held = @ + 1]
  /\ UNCHANGED <<now, published, relay, chunk, far, gone>>

\* The request's context is done, or a write failed or timed out: the handler
\* returns and its subscription ends.
HostIsDone ==
  /\ Here("host") /\ host.at \in AtWork
  /\ near.closed \/ (host.at = "writing" /\ now >= host.writeDue)

HostEnds ==
  /\ HostIsDone
  /\ host' = [host EXCEPT !.at = "ended"] /\ near' = Shut(near) /\ published' = FALSE
  /\ UNCHANGED <<now, relay, chunk, far, gone>>

-----------------------------------------------------------------------------
(* The relaying handler and its reader goroutine.                           *)

ReaderHasRoom == relay.at \in AtWork /\ near.held > 0 /\ ~chunk

ReaderReads ==
  /\ ReaderHasRoom
  /\ near' = [near EXCEPT !.held = @ - 1] /\ chunk' = TRUE
  /\ UNCHANGED <<now, host, published, relay, far, gone>>

\* Each chunk starts the idle limit anew.
IdleAfter == now + IdleLimit

RelayHasChunk == relay.at = "waiting" /\ chunk /\ ~far.closed

RelayWrites ==
  /\ RelayHasChunk /\ chunk' = FALSE
  /\ IF far.held < Buffer
       THEN /\ far' = [far EXCEPT !.held = @ + 1]
            /\ relay' = [relay EXCEPT !.idle = IdleAfter]
       ELSE /\ relay' = [at |-> "writing", writeDue |-> Deadline, idle |-> IdleAfter]
            /\ UNCHANGED far
  /\ UNCHANGED <<now, host, published, near, gone>>

RelayHasRoom == relay.at = "writing" /\ far.held < Buffer /\ ~far.closed

RelayWritten ==
  /\ RelayHasRoom
  /\ relay' = [relay EXCEPT !.at = "waiting", !.writeDue = 0]
  /\ far' = [far EXCEPT !.held = @ + 1]
  /\ UNCHANGED <<now, host, published, near, chunk, gone>>

\* The viewer closed, a write timed out, the host's stream ended or stayed
\* silent for too long: both connections are closed on the way out.
RelayIsDone ==
  /\ relay.at \in AtWork
  /\ \/ far.closed
     \/ relay.at = "writing" /\ now >= relay.writeDue
     \/ relay.at = "waiting" /\ now >= relay.idle
     \/ relay.at = "waiting" /\ near.closed /\ near.held = 0 /\ ~chunk

RelayEnds ==
  /\ RelayIsDone
  /\ relay' = [relay EXCEPT !.at = "ended"]
  /\ near' = Shut(near) /\ far' = Shut(far) /\ chunk' = FALSE
  /\ UNCHANGED <<now, host, published, gone>>

-----------------------------------------------------------------------------
(* The viewer, and what may befall viewer and host.                         *)

ViewerHasNews == Here("viewer") /\ far.held > 0

ViewerReads ==
  /\ ViewerHasNews /\ far' = [far EXCEPT !.held = @ - 1]
  /\ UNCHANGED <<now, host, published, near, relay, chunk, gone>>

ViewerCloses ==
  /\ Here("viewer") /\ gone' = [gone EXCEPT !.viewer = now] /\ far' = Shut(far)
  /\ UNCHANGED <<now, host, published, near, relay, chunk>>

ViewerVanishes ==
  /\ Here("viewer") /\ gone' = [gone EXCEPT !.viewer = now]
  /\ UNCHANGED <<now, host, published, near, relay, chunk, far>>

HostVanishes ==
  /\ Here("host") /\ gone' = [gone EXCEPT !.host = now]
  /\ UNCHANGED <<now, host, published, near, relay, chunk, far>>

\* Handlers, reader and a viewer that is there act before the clock goes on.
Busy ==
  \/ HostHasNews \/ HostHasRoom \/ HostIsDone \/ ReaderHasRoom
  \/ RelayHasChunk \/ RelayHasRoom \/ RelayIsDone \/ ViewerHasNews

Tick ==
  /\ now < MaxTime /\ now' = now + 1 /\ ~Busy
  /\ UNCHANGED <<host, published, near, relay, chunk, far, gone>>

Next ==
  \/ Tick
  \/ Publish
  \/ HostWrites
  \/ HostWritten
  \/ HostEnds
  \/ ReaderReads
  \/ RelayWrites
  \/ RelayWritten
  \/ RelayEnds
  \/ ViewerReads
  \/ ViewerCloses
  \/ ViewerVanishes
  \/ HostVanishes

Spec == Init /\ [][Next]_vars

-----------------------------------------------------------------------------
TypeOK ==
  /\ now \in 1..MaxTime /\ published \in BOOLEAN /\ chunk \in BOOLEAN
  /\ host.at \in AtWork \cup {"ended"} /\ relay.at \in AtWork \cup {"ended"}
  /\ near.held \in 0..Buffer /\ far.held \in 0..Buffer

\* A viewer that is gone, with or without a word, holds no subscription on the
\* watched host for longer than the keepalives take to fill the connection and
\* the write deadline to pass, through the relay as well.
SubscriberReleased ==
  gone.viewer # 0 /\ Here("host") /\ Subscribed =>
    now - gone.viewer <= (Buffer + 1) * Keepalive + WriteTimeout

\* A host that vanished is noticed after the idle limit, so that the dashboard
\* falls back, and nobody's stream is ended who is there and is served.
EndsExactlyWhenDead ==
  /\ gone.host # 0 /\ relay.at \in AtWork => now - gone.host <= IdleLimit + WriteTimeout
  /\ relay.at = "ended" => gone # [viewer |-> 0, host |-> 0]
=============================================================================
