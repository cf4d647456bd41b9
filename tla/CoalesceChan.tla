---------------------------- MODULE CoalesceChan ----------------------------
(***************************************************************************)
(* broadcast and coalesceSend of sampler.go for one subscriber: several    *)
(* lanes publish on a Go channel of capacity one, each holding the         *)
(* sampler's mutex, while the HTTP handler at the other end receives       *)
(* without it.  coalesceSend is three separate channel operations, and the *)
(* handler may receive between any two of them.  The module is shown to    *)
(* implement LatestMailbox, which is how Sampler models a subscriber.      *)
(***************************************************************************)
EXTENDS Lanes

VARIABLES mu,     \* the lane that holds sampler.mu, or NoOne
          pc,     \* where the lane that holds it is in coalesceSend
          data,   \* the snapshot it is delivering
          chan,   \* the content of the subscriber's channel, or Empty
          taken   \* the snapshot the handler received last, or Empty

vars == <<mu, pc, data, chan, taken>>

Steps == {"out", "try", "drop", "resend"}

TypeOK ==
  /\ mu \in Senders \cup {NoOne}
  /\ pc \in [Senders -> Steps]
  /\ data \in [Senders -> Msg \cup {Empty}]
  /\ chan \in Msg \cup {Empty}
  /\ taken \in Msg \cup {Empty}

Init ==
  /\ mu = NoOne
  /\ pc = [s \in Senders |-> "out"]
  /\ data = [s \in Senders |-> Empty]
  /\ chan = Empty
  /\ taken = Empty

\* The lane leaves coalesceSend and, with it, the critical section.
Leave(s) == pc' = [pc EXCEPT ![s] = "out"] /\ mu' = NoOne

\* broadcast: s.mu.Lock(), then coalesceSend for this subscriber.
Lock(s, m) ==
  /\ pc[s] = "out"
  /\ mu = NoOne
  /\ mu' = s
  /\ pc' = [pc EXCEPT ![s] = "try"]
  /\ data' = [data EXCEPT ![s] = m]
  /\ UNCHANGED <<chan, taken>>

\* First select: deliver at once when the channel is empty...
TrySend(s) ==
  /\ pc[s] = "try"
  /\ chan = Empty
  /\ chan' = data[s]
  /\ Leave(s)
  /\ UNCHANGED <<data, taken>>

\* ... and go on to drop the pending snapshot when it is full.
TryFull(s) ==
  /\ pc[s] = "try"
  /\ chan # Empty
  /\ pc' = [pc EXCEPT ![s] = "drop"]
  /\ UNCHANGED <<mu, data, chan, taken>>

\* Mutant of Drop: the pending snapshot is left where it is.
DropNothing(s) ==
  /\ pc[s] = "drop"
  /\ pc' = [pc EXCEPT ![s] = "resend"]
  /\ UNCHANGED <<mu, data, chan, taken>>

\* Second select: the pending snapshot is dropped, unless the handler took
\* it in the meantime (the default case).
Drop(s) ==
  /\ pc[s] = "drop"
  /\ chan' = Empty
  /\ pc' = [pc EXCEPT ![s] = "resend"]
  /\ UNCHANGED <<mu, data, taken>>

\* Third select: deliver; the default case gives up when the channel is full.
Resend(s) ==
  /\ pc[s] = "resend"
  /\ chan' = IF chan = Empty THEN data[s] ELSE chan
  /\ Leave(s)
  /\ UNCHANGED <<data, taken>>

\* The handler of /api/stream receives; it does not take the mutex.
Receive ==
  /\ chan # Empty
  /\ taken' = chan
  /\ chan' = Empty
  /\ UNCHANGED <<mu, pc, data>>

Step(s) == TrySend(s) \/ TryFull(s) \/ Drop(s) \/ Resend(s)

Next ==
  \/ \E s \in Senders : Step(s) \/ \E m \in Msg : Lock(s, m)
  \/ Receive

Spec == Init /\ [][Next]_vars

\* A lane that is inside coalesceSend is scheduled; no reader has to be.
FairSpec == Spec /\ \A s \in Senders : WF_vars(Step(s))

-----------------------------------------------------------------------------
(***************************************************************************)
(* Inductive strengthening: only the lane that holds the mutex is inside   *)
(* coalesceSend, and once it has emptied the channel nobody fills it       *)
(* before its own second attempt.                                          *)
(***************************************************************************)
OnlyHolderInside == \A s \in Senders : pc[s] # "out" <=> mu = s
HolderHasData == \A s \in Senders : pc[s] # "out" => data[s] \in Msg

\* The channel the holder has drained stays empty until its second attempt,
\* so the default case of the last select never discards the newest snapshot
\* (the claim of the comment on coalesceSend).
DrainedStaysEmpty == \A s \in Senders : pc[s] = "resend" => chan = Empty

IInv == TypeOK /\ OnlyHolderInside /\ HolderHasData /\ DrainedStaysEmpty

\* The mailbox a subscriber sees: from the moment the holder has drained the
\* channel, the new snapshot counts as put.
Slot == IF mu # NoOne /\ pc[mu] = "resend" THEN data[mu] ELSE chan

Mailbox == INSTANCE LatestMailbox WITH slot <- Slot

\* broadcast and coalesceSend implement the one-place mailbox in which the
\* newest snapshot wins: no interleaving with the receiving handler loses the
\* newest snapshot, delivers one twice or brings an old one back.
MailboxSpec == Mailbox!Spec

\* A subscriber that never reads does not hold up a sampling loop: every
\* coalesceSend ends, whatever the handler does.
Sending == \E s \in Senders : pc[s] # "out"
SenderNeverBlocks == Sending ~> ~Sending
=============================================================================
