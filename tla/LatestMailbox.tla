--------------------------- MODULE LatestMailbox ---------------------------
(***************************************************************************)
(* What the sampler promises each /api/stream subscriber about delivery:   *)
(* a mailbox with one place, in which a newer snapshot replaces an older   *)
(* one, and from which the reader takes whatever is there.  Nothing is     *)
(* ever lost except by being replaced by something newer, and putting a    *)
(* snapshot in never waits for the reader.                                 *)
(***************************************************************************)
CONSTANTS Msg,      \* the snapshots that can be delivered
          Empty     \* the content of a mailbox that holds none

VARIABLES slot,     \* the snapshot waiting for the reader, or Empty
          taken     \* the snapshot the reader took last, or Empty

Init == slot = Empty /\ taken = Empty

\* A publication replaces whatever the reader has not taken yet.
Put(m) == slot' = m /\ UNCHANGED taken

\* The reader takes what is there; it cannot take from an empty mailbox.
Take == slot # Empty /\ taken' = slot /\ slot' = Empty

Next == Take \/ \E m \in Msg : Put(m)

Spec == Init /\ [][Next]_<<slot, taken>>
=============================================================================
