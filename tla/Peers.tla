------------------------------- MODULE Peers -------------------------------
(***************************************************************************)
(* The peer registry of peers.go: the list of hosts a dashboard may pick,  *)
(* the scans that renew it and the requests that wait for a scan.          *)
(*                                                                         *)
(* A row is known by its key, an entry of -peers or a machine of the       *)
(* tailnet.  The code puts the configured entries first and sorts the      *)
(* machines by name, so a key is its position in that order.  What a check *)
(* of an address returns is any outcome: nothing is assumed of the         *)
(* network.  A row that needs an id has some name of Names; names, once an *)
(* id is given, are display only.  Error texts are left out.               *)
(***************************************************************************)
EXTENDS Integers, FiniteSets, Sequences, TLC

CONSTANTS
  Configured,  \* the entries of -peers
  Machines,    \* the machines of the tailnet that -peers does not name
  Agents,      \* instance ids of other agents
  Names,       \* slugs of the names that hosts may have
  Clients,     \* requests that may be under way at once
  Self,        \* agentInstanceID
  Anonymous,   \* an agent too old to report an instance id
  Silent,      \* an address where no agent answers
  NoId         \* a row that has no id yet

Keys == Configured \cup Machines

ASSUME KeysAssumption ==
  /\ Configured \subseteq Nat /\ Machines \subseteq Nat
  /\ IsFiniteSet(Keys)
  /\ \A c \in Configured, m \in Machines : c < m
ASSUME AgentsAssumption ==
  /\ Self # Anonymous /\ Silent \notin {Self, Anonymous}
  /\ Agents \cap {Self, Anonymous, Silent} = {}

VARIABLES
  known,   \* the keys of peerRegistry.known: rows that were ever listed
  listed,  \* the keys of peerRegistry.records and byID
  id,      \* HostEntry.ID of each known row
  agent,   \* who answered at each address in the last scan; a listed row is
           \* online unless this is Silent
  age,     \* the time since scannedAt: "never", "new" (peerRescanMinInterval),
           \* "old" (peerScanTTL) or "stale"
  scan,    \* peerRegistry.scan: "none", or how far the scan got
  call     \* where each request is

rows == <<known, listed, id, agent>>
vars == <<rows, age, scan, call>>

Local == "local"
Numbers == 1 .. Cardinality(Keys) + 1

\* The id derived from a name: the slug, with a number from the second on.
Suffixed(name, n) == IF n = 1 THEN name ELSE name \o "-" \o ToString(n)

Ids == {Suffixed(name, n) : name \in Names, n \in Numbers}
Outcomes == Agents \cup {Self, Anonymous, Silent}

ASSUME NoIdAssumption == NoId \notin Ids

TypeOK ==
  /\ known \subseteq Keys
  /\ listed \subseteq known
  /\ id \in [Keys -> Ids \cup {NoId}]
  /\ agent \in [Keys -> Outcomes]
  /\ age \in {"never", "new", "old", "stale"}
  /\ scan \in {"none", "checking", "applied"}
  /\ call \in [Clients -> {"idle", "waiting", "scanned", "gave up", "reading"}]

Init ==
  /\ known = {}
  /\ listed = {}
  /\ id = [k \in Keys |-> NoId]
  /\ agent = [k \in Keys |-> Silent]
  /\ age = "never"
  /\ scan = "none"
  /\ call = [c \in Clients |-> "idle"]

-----------------------------------------------------------------------------
\* A request in its first critical section: it starts a scan when one is due
\* and none is running, and waits for the scan or goes on at once.
Ask(c, due, wait) ==
  /\ call[c] = "idle"
  /\ scan' = IF due /\ scan = "none" THEN "checking" ELSE scan
  /\ call' = [call EXCEPT ![c] = IF wait /\ scan' # "none" THEN "waiting" ELSE "reading"]
  /\ UNCHANGED <<rows, age>>

\* Hosts, for the host picker.
Hosts(c, refresh) ==
  LET due == age \in {"never", "stale"} \/ (refresh /\ age = "old")
  IN  Ask(c, due, age = "never" \/ refresh)

\* resolve, for the relay, of an id that no listed row has.  An id that a row
\* has is answered in the first critical section and changes nothing.
Resolve(c, i) ==
  /\ \A k \in listed : id[k] # i
  /\ Ask(c, age # "new", TRUE)

\* waitForScan: the timer fires or the request is cancelled.
GiveUp(c) ==
  /\ call[c] = "waiting"
  /\ call' = [call EXCEPT ![c] = "gave up"]
  /\ UNCHANGED <<rows, age, scan>>

\* The second critical section: snapshot, or the second look of resolve.
Answer(c) ==
  /\ call[c] \in {"scanned", "gave up", "reading"}
  /\ call' = [call EXCEPT ![c] = "idle"]
  /\ UNCHANGED <<rows, age, scan>>

-----------------------------------------------------------------------------
\* Mutant of Merged: an agent reached twice is listed twice.
MergedSelfOnly(outcome) == {k \in DOMAIN outcome : outcome[k] = Self}

\* Candidates that applyScan leaves out: this agent itself, and an agent that
\* an earlier candidate reached already.
Merged(outcome) ==
  {k \in DOMAIN outcome :
     \/ outcome[k] = Self
     \/ outcome[k] \in Agents /\ \E j \in DOMAIN outcome : j < k /\ outcome[j] = outcome[k]}

\* Mutant of Rows: a machine that left the tailnet is dropped.
RowsOfCandidates(outcome) ==
  {k \in DOMAIN outcome \ Merged(outcome) :
     k \in known \/ k \in Configured \/ outcome[k] # Silent}

\* The rows after a scan: the candidates not left out, of which a machine of
\* the tailnet must have answered once, and the machines known from before
\* that are no candidates now.
Rows(outcome) ==
  {k \in DOMAIN outcome \ Merged(outcome) :
     k \in known \/ k \in Configured \/ outcome[k] # Silent}
  \cup {k \in known \cap Machines : k \notin DOMAIN outcome}

\* What known holds after a scan that lists the rows R.
Remembered(R) == known \cup R

\* Mutants of Keepers: every row keeps its id, and none does.
KeepersAll(R) == {k \in R : id[k] # NoId}
KeepersNone(R) == {}

\* assignPeerIDs, first loop: a row keeps its id unless an earlier one has it.
Keepers(R) == {k \in R : id[k] \notin {NoId, Local} /\ \A j \in R : j < k => id[j] # id[k]}

\* Second loop: the others take the first number that is free, in order.
Numbered(R, name, n) ==
  LET K == Keepers(R)
      Taken(k) == {Local} \cup {id[j] : j \in K}
                    \cup {Suffixed(name[j], n[j]) : j \in {i \in R \ K : i < k}}
  IN  \A k \in R \ K :
        /\ Suffixed(name[k], n[k]) \notin Taken(k)
        /\ \A m \in 1 .. n[k] - 1 : Suffixed(name[k], m) \in Taken(k)

\* runScan up to the end of applyScan, which holds the mutex: the tailnet
\* names some machines (none when its listing fails), every candidate is
\* checked, and the rows and their ids are renewed.
ScanApplies(machines, outcome) ==
  LET R == Rows(outcome)
      K == Keepers(R)
  IN  /\ scan = "checking"
      /\ known' = Remembered(R)
      /\ listed' = R
      /\ agent' = [k \in Keys |-> IF k \in DOMAIN outcome THEN outcome[k] ELSE Silent]
      /\ \E name \in [R \ K -> Names], n \in [R \ K -> Numbers] :
           /\ Numbered(R, name, n)
           /\ id' = [k \in Keys |-> IF k \in R \ K THEN Suffixed(name[k], n[k]) ELSE id[k]]
      /\ age' = "new"
      /\ scan' = "applied"
      /\ UNCHANGED call

\* Mutant of ScanEnds: waiting requests are woken before applyScan.
ScanEndsEarly ==
  /\ scan = "checking"
  /\ scan' = "none"
  /\ call' = [c \in Clients |-> IF call[c] = "waiting" THEN "scanned" ELSE call[c]]
  /\ UNCHANGED <<rows, age>>

\* The goroutine of startScanLocked lets go of the scan and wakes who waits.
ScanEnds ==
  /\ scan = "applied"
  /\ scan' = "none"
  /\ call' = [c \in Clients |-> IF call[c] = "waiting" THEN "scanned" ELSE call[c]]
  /\ UNCHANGED <<rows, age>>

\* Time passes since the last scan.
Ages ==
  /\ \/ age = "new" /\ age' = "old"
     \/ age = "old" /\ age' = "stale"
  /\ UNCHANGED <<rows, scan, call>>

\* The agent restarts: the registry is in memory only.
Restart ==
  /\ known' = {}
  /\ listed' = {}
  /\ id' = [k \in Keys |-> NoId]
  /\ agent' = [k \in Keys |-> Silent]
  /\ age' = "never"
  /\ scan' = "none"
  /\ call' = [c \in Clients |-> "idle"]

Next ==
  \/ \E c \in Clients :
       \/ \E refresh \in BOOLEAN : Hosts(c, refresh)
       \/ \E i \in Ids : Resolve(c, i)
       \/ GiveUp(c) \/ Answer(c)
  \/ \E machines \in SUBSET Machines :
       \E outcome \in [Configured \cup machines -> Outcomes] : ScanApplies(machines, outcome)
  \/ ScanEnds
  \/ Ages
  \/ Restart

Spec == Init /\ [][Next]_vars

-----------------------------------------------------------------------------
\* An id of the host picker names one row, and never this agent: the relay
\* cannot send a control action to another host than the one picked.
UniqueIds ==
  \A k \in listed :
    /\ id[k] \in Ids \ {Local}
    /\ \A j \in listed : id[j] = id[k] => j = k

\* A dashboard's remembered selection survives rescans: a row that stays in
\* the picker keeps its id, but for one case, in which a row that was left out
\* of the last list (its agent was reached under an earlier address) comes
\* back with the id it had, which had been given to this row meanwhile.
IdsSurvive ==
  [][\A k \in listed \cap listed' :
       \/ id'[k] = id[k]
       \/ \E j \in (known \cap listed') \ listed : id[j] = id[k]]_vars

\* No agent is online under two rows, and this agent under none.
OnlineOnce ==
  \A k \in listed :
    /\ agent[k] # Self
    /\ agent[k] \in Agents => \A j \in listed : agent[j] = agent[k] => j = k

\* No host is forgotten: a row that is known and not in the picker was
\* reached in the last scan, and its agent is there under another row or is
\* the one that serves the dashboard.
NobodyForgotten ==
  \A k \in known \ listed :
    \/ agent[k] = Self
    \/ agent[k] \in Agents /\ \E j \in listed : agent[j] = agent[k]

\* Whoever waited for the end of a scan reads a list that a scan has made: an
\* id is not refused, after a restart, on the word of an empty list.
WaitedMeansScanned == \A c \in Clients : call[c] = "scanned" => age # "never"
=============================================================================
