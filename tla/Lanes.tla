------------------------------- MODULE Lanes ---------------------------------
(***************************************************************************)
(* The sampling loops of sampler.go that broadcast, and what they send.    *)
(***************************************************************************)
CONSTANTS Senders,  \* the sampling loops that broadcast
          Msg,      \* the snapshots they publish
          Empty,    \* no snapshot
          NoOne     \* nobody holds the mutex

ASSUME EmptyAssumption == Empty \notin Msg
ASSUME NoOneAssumption == NoOne \notin Senders
=============================================================================
