---------------------------- MODULE PeersProofs ----------------------------
(***************************************************************************)
(* Proofs about Peers, for any hosts, agents, names and requests.  Only    *)
(* ScanApplies touches the rows without emptying them, so the proofs of    *)
(* what holds of the rows come down to one lemma about it each.            *)
(***************************************************************************)
EXTENDS Peers, TLAPS, WellFoundedInduction

\* The ids of rows that were never listed are not set.
IdsAreKnown == \A k \in Keys \ known : id[k] = NoId

\* A scan that was applied left its time.
AppliedMeansScanned == scan = "applied" => age # "never"

IInv ==
  /\ TypeOK
  /\ IdsAreKnown
  /\ UniqueIds
  /\ OnlineOnce
  /\ NobodyForgotten
  /\ AppliedMeansScanned
  /\ WaitedMeansScanned

\* Keys are naturals, so of two different ones either is the smaller.
LEMMA KeysOrdered == \A j, k \in Keys : j \in Nat /\ (j = k \/ j < k \/ k < j)
  BY KeysAssumption DEF Keys

LEMMA InitIInv == Init => IInv
<1> SUFFICES ASSUME Init PROVE IInv
  OBVIOUS
<1>1. TypeOK
  BY DEF Init, TypeOK, Outcomes
<1>2. IdsAreKnown /\ UniqueIds /\ OnlineOnce /\ NobodyForgotten
  BY DEF Init, IdsAreKnown, UniqueIds, OnlineOnce, NobodyForgotten
<1>3. AppliedMeansScanned /\ WaitedMeansScanned
  BY DEF Init, AppliedMeansScanned, WaitedMeansScanned
<1> QED
  BY <1>1, <1>2, <1>3 DEF IInv

-----------------------------------------------------------------------------
\* The rows of a scan are keys, and rows that are not known yet are new.
LEMMA RowsAreKeys ==
  ASSUME TypeOK, NEW machines \in SUBSET Machines,
         NEW outcome \in [Configured \cup machines -> Outcomes]
  PROVE  Rows(outcome) \subseteq Keys
  BY DEF TypeOK, Rows, Keys

\* Applying a scan keeps the types.
LEMMA ScanTypes ==
  ASSUME TypeOK, NEW machines \in SUBSET Machines,
         NEW outcome \in [Configured \cup machines -> Outcomes],
         ScanApplies(machines, outcome)
  PROVE  TypeOK'
<1> DEFINE R == Rows(outcome)
           K == Keepers(R)
<1>1. R \subseteq Keys
  BY RowsAreKeys
<1> HIDE DEF R, K
<1>2. /\ known' = known \cup R /\ listed' = R
      /\ agent' = [k \in Keys |-> IF k \in DOMAIN outcome THEN outcome[k] ELSE Silent]
      /\ age' = "new" /\ scan' = "applied" /\ call' = call
  BY DEF ScanApplies, Remembered, R
<1>3. PICK name \in [R \ K -> Names], n \in [R \ K -> Numbers] :
        id' = [k \in Keys |-> IF k \in R \ K THEN Suffixed(name[k], n[k]) ELSE id[k]]
  BY DEF ScanApplies, R, K
<1>4. \A k \in R \ K : Suffixed(name[k], n[k]) \in Ids
  BY <1>3 DEF Ids
<1>5. id' \in [Keys -> Ids \cup {NoId}]
  BY <1>3, <1>4 DEF TypeOK
<1>6. agent' \in [Keys -> Outcomes]
  BY <1>2 DEF Outcomes
<1> QED
  BY <1>1, <1>2, <1>5, <1>6 DEF TypeOK

\* Applying a scan gives every row an id of its own.
LEMMA ScanIds ==
  ASSUME TypeOK, IdsAreKnown, NEW machines \in SUBSET Machines,
         NEW outcome \in [Configured \cup machines -> Outcomes],
         ScanApplies(machines, outcome)
  PROVE  UniqueIds' /\ IdsAreKnown'
<1> DEFINE R == Rows(outcome)
           K == Keepers(R)
<1>1. R \subseteq Keys
  BY RowsAreKeys
<1>2. /\ K \subseteq R
      /\ \A k \in K : id[k] \notin {NoId, Local} /\ \A j \in R : j < k => id[j] # id[k]
  BY DEF Keepers
<1>3. known' = known \cup R /\ listed' = R
  BY DEF ScanApplies, Remembered
<1>4. PICK name \in [R \ K -> Names], n \in [R \ K -> Numbers] :
        /\ Numbered(R, name, n)
        /\ id' = [k \in Keys |-> IF k \in R \ K THEN Suffixed(name[k], n[k]) ELSE id[k]]
  BY DEF ScanApplies
<1>5. \A k \in R \ K :
        /\ Suffixed(name[k], n[k]) # Local
        /\ \A j \in K : Suffixed(name[k], n[k]) # id[j]
        /\ \A j \in R \ K : j < k => Suffixed(name[k], n[k]) # Suffixed(name[j], n[j])
  BY <1>4 DEF Numbered
<1> HIDE DEF R, K
<1>6. \A k \in R \ K : Suffixed(name[k], n[k]) \in Ids
  BY <1>4 DEF Ids
<1>7. \A k \in R : id'[k] \in Ids \ {Local}
  BY <1>1, <1>2, <1>4, <1>5, <1>6 DEF TypeOK
<1>8. ASSUME NEW j \in R, NEW k \in R, j < k PROVE id'[j] # id'[k]
  <2>1. CASE j \in K /\ k \in K
    BY <1>1, <1>2, <1>4, <1>8, <2>1
  <2>2. CASE j \in K /\ k \notin K
    BY <1>1, <1>4, <1>5, <2>2
  <2>3. CASE j \notin K /\ k \in K
    BY <1>1, <1>4, <1>5, <2>3
  <2>4. CASE j \notin K /\ k \notin K
    BY <1>1, <1>4, <1>5, <1>8, <2>4
  <2> QED
    BY <2>1, <2>2, <2>3, <2>4
<1>9. \A j, k \in R : id'[j] = id'[k] => j = k
  BY <1>1, <1>8, KeysOrdered
<1>10. IdsAreKnown'
  BY <1>1, <1>3, <1>4 DEF IdsAreKnown
<1> QED
  BY <1>3, <1>7, <1>9, <1>10 DEF UniqueIds

\* Applying a scan leaves an agent online under one row.
LEMMA ScanOnline ==
  ASSUME TypeOK, NEW machines \in SUBSET Machines,
         NEW outcome \in [Configured \cup machines -> Outcomes],
         ScanApplies(machines, outcome)
  PROVE  OnlineOnce'
<1>1. listed' = Rows(outcome) /\ Rows(outcome) \subseteq Keys
  BY RowsAreKeys DEF ScanApplies
<1>2. agent' = [k \in Keys |-> IF k \in DOMAIN outcome THEN outcome[k] ELSE Silent]
  BY DEF ScanApplies
<1>3. Silent # Self /\ Silent \notin Agents
  BY AgentsAssumption
<1>4. ASSUME NEW k \in Rows(outcome)
      PROVE  /\ agent'[k] # Self
             /\ agent'[k] \in Agents => k \in DOMAIN outcome \ Merged(outcome)
  BY <1>1, <1>2, <1>3, <1>4 DEF Rows, Merged
<1>5. ASSUME NEW j \in Rows(outcome), NEW k \in Rows(outcome),
             agent'[k] \in Agents, agent'[j] = agent'[k]
      PROVE  j = k
  <2>1. j \in DOMAIN outcome \ Merged(outcome) /\ k \in DOMAIN outcome \ Merged(outcome)
    BY <1>4, <1>5
  <2>2. outcome[j] = outcome[k] /\ outcome[k] \in Agents
    BY <1>1, <1>2, <1>5, <2>1
  <2>3. ~ (j < k) /\ ~ (k < j)
    BY <2>1, <2>2 DEF Merged
  <2> QED
    BY <1>1, <2>3, KeysOrdered
<1> QED
  BY <1>1, <1>4, <1>5 DEF OnlineOnce

\* Some keys of a set are earlier than all its others.
LEMMA EarliestKey ==
  ASSUME NEW S \in SUBSET Keys, S # {}
  PROVE  \E k \in S : \A j \in S : ~ (j < k)
<1> DEFINE Less == OpToRel(<, Nat)
<1>1. S \subseteq Nat
  BY KeysOrdered
<1>2. PICK k \in S : \A j \in S : <<j, k>> \notin Less
  <2> HIDE DEF Less
  <2>1. IsWellFoundedOn(Less, Nat)
    BY NatLessThanWellFounded DEF Less
  <2> QED
    BY <1>1, <2>1, WFMin
<1>3. \A j \in S : j < k => <<j, k>> \in Less
  BY <1>1 DEF OpToRel
<1> QED
  BY <1>2, <1>3

\* Applying a scan leaves out of the list only what it found elsewhere.
LEMMA ScanForgetsNobody ==
  ASSUME TypeOK, NEW machines \in SUBSET Machines,
         NEW outcome \in [Configured \cup machines -> Outcomes],
         ScanApplies(machines, outcome)
  PROVE  NobodyForgotten'
<1>1. /\ known' = known \cup Rows(outcome)
      /\ listed' = Rows(outcome) /\ Rows(outcome) \subseteq Keys
      /\ agent' = [k \in Keys |-> IF k \in DOMAIN outcome THEN outcome[k] ELSE Silent]
  BY RowsAreKeys DEF ScanApplies, Remembered
<1>2. DOMAIN outcome \subseteq Keys
  BY DEF Keys
<1>3. SUFFICES ASSUME NEW k \in known, k \notin Rows(outcome)
               PROVE  \/ agent'[k] = Self
                      \/ agent'[k] \in Agents /\ \E j \in Rows(outcome) : agent'[j] = agent'[k]
  BY <1>1 DEF NobodyForgotten
<1>4. k \in DOMAIN outcome /\ k \in Merged(outcome)
  BY <1>3 DEF TypeOK, Rows, Keys
<1>5. CASE outcome[k] = Self
  BY <1>1, <1>2, <1>4, <1>5
<1>6. CASE outcome[k] # Self
  <2> DEFINE Reached == {j \in DOMAIN outcome : outcome[j] = outcome[k]}
  <2>1. outcome[k] \in Agents
    BY <1>4, <1>6 DEF Merged
  <2>2. PICK j \in Reached : \A i \in Reached : ~ (i < j)
    BY <1>2, <1>4, EarliestKey
  <2>3. j \in DOMAIN outcome \ Merged(outcome)
    BY <1>6, <2>2 DEF Merged
  <2>4. j \in Rows(outcome)
    BY <2>1, <2>2, <2>3, AgentsAssumption DEF Rows
  <2> QED
    BY <1>1, <1>2, <1>4, <2>1, <2>2, <2>4
<1> QED
  BY <1>5, <1>6

-----------------------------------------------------------------------------
LEMMA StepIInv == IInv /\ [Next]_vars => IInv'
<1> SUFFICES ASSUME IInv, [Next]_vars PROVE IInv'
  OBVIOUS
<1> USE DEF IInv
<1>1. ASSUME NEW c \in Clients, NEW due, NEW wait \in BOOLEAN, Ask(c, due, wait) PROVE IInv'
  <2>1. /\ UNCHANGED <<known, listed, id, agent, age>>
        /\ scan' \in {scan, "checking"}
        /\ call' = [call EXCEPT ![c] = "waiting"] \/ call' = [call EXCEPT ![c] = "reading"]
    BY <1>1 DEF Ask, rows
  <2> QED
    BY <2>1 DEF TypeOK, IdsAreKnown, UniqueIds, OnlineOnce, NobodyForgotten,
                AppliedMeansScanned,
                WaitedMeansScanned
<1>2. ASSUME NEW c \in Clients, GiveUp(c) \/ Answer(c) PROVE IInv'
  BY <1>2 DEF GiveUp, Answer, rows, TypeOK, IdsAreKnown, UniqueIds, OnlineOnce, NobodyForgotten,
              AppliedMeansScanned, WaitedMeansScanned
<1>3. ASSUME NEW machines \in SUBSET Machines,
             NEW outcome \in [Configured \cup machines -> Outcomes],
             ScanApplies(machines, outcome)
      PROVE  IInv'
  <2>1. age' = "new"
    BY <1>3 DEF ScanApplies
  <2> QED
    BY <1>3, <2>1, ScanTypes, ScanIds, ScanOnline, ScanForgetsNobody
       DEF AppliedMeansScanned, WaitedMeansScanned
<1>4. CASE ScanEnds
  BY <1>4 DEF ScanEnds, rows, TypeOK, IdsAreKnown, UniqueIds, OnlineOnce, NobodyForgotten,
              AppliedMeansScanned, WaitedMeansScanned
<1>5. CASE Ages
  BY <1>5 DEF Ages, rows, TypeOK, IdsAreKnown, UniqueIds, OnlineOnce, NobodyForgotten,
              AppliedMeansScanned, WaitedMeansScanned
<1>6. CASE Restart
  <2>1. Init'
    BY <1>6 DEF Restart, Init
  <2> QED
    BY <1>6 DEF Restart, TypeOK, IdsAreKnown, UniqueIds, OnlineOnce, NobodyForgotten,
                AppliedMeansScanned,
                WaitedMeansScanned, Outcomes
<1>7. CASE UNCHANGED vars
  BY <1>7 DEF vars, rows, TypeOK, IdsAreKnown, UniqueIds, OnlineOnce, NobodyForgotten,
              AppliedMeansScanned, WaitedMeansScanned
<1>8. ASSUME NEW c \in Clients, NEW refresh \in BOOLEAN, Hosts(c, refresh) PROVE IInv'
  <2>1. (age = "never" \/ refresh) \in BOOLEAN
    OBVIOUS
  <2> QED
    BY <1>1, <1>8, <2>1 DEF Hosts
<1>9. ASSUME NEW c \in Clients, NEW i \in Ids, Resolve(c, i) PROVE IInv'
  BY <1>1, <1>9 DEF Resolve
<1> QED
  BY <1>2, <1>3, <1>4, <1>5, <1>6, <1>7, <1>8, <1>9 DEF Next

THEOREM Invariance == Spec => []IInv
  BY InitIInv, StepIInv, PTL DEF Spec

\* The registry's state stays well-typed.
THEOREM TypeCorrect == Spec => []TypeOK
  BY Invariance, PTL DEF IInv

\* An id always names one row of the host picker (assignPeerIDs).
THEOREM IdsAlwaysUnique == Spec => []UniqueIds
  BY Invariance, PTL DEF IInv

\* One agent reached under several addresses is online under one row, and
\* this agent under none (applyScan).
THEOREM OnlineUnderOneRow == Spec => []OnlineOnce
  BY Invariance, PTL DEF IInv

\* A host that is known and not in the picker is there under another address.
THEOREM NobodyLost == Spec => []NobodyForgotten
  BY Invariance, PTL DEF IInv

\* Whoever waited for a scan reads a list that a scan has made.
THEOREM WaitedAlwaysScanned == Spec => []WaitedMeansScanned
  BY Invariance, PTL DEF IInv

-----------------------------------------------------------------------------
\* One step lets a row lose its id to a returning row only.
LEMMA StepIdsSurvive ==
  ASSUME IInv, [Next]_vars, NEW k \in listed, k \in listed', id'[k] # id[k]
  PROVE  \E j \in (known \cap listed') \ listed : id[j] = id[k]
<1> USE DEF IInv
<1>0. PICK machines \in SUBSET Machines :
        \E outcome \in [Configured \cup machines -> Outcomes] : ScanApplies(machines, outcome)
  BY DEF Next, Hosts, Resolve, Ask, GiveUp, Answer, ScanEnds, Ages, Restart, vars, rows
<1>1. PICK outcome \in [Configured \cup machines -> Outcomes] : ScanApplies(machines, outcome)
  BY <1>0
<1> DEFINE R == Rows(outcome)
<1>2. R \subseteq Keys /\ listed' = R
  BY <1>1, RowsAreKeys DEF ScanApplies
<1>3. k \notin Keepers(R)
  BY <1>1, <1>2 DEF ScanApplies
<1>4. id[k] \notin {NoId, Local}
  BY NoIdAssumption DEF UniqueIds
<1> HIDE DEF R
<1>5. PICK j \in R : j < k /\ id[j] = id[k]
  BY <1>2, <1>3, <1>4 DEF Keepers
<1>6. j # k
  BY <1>2, <1>5, KeysOrdered
<1>7. j \notin listed
  BY <1>5, <1>6 DEF UniqueIds
<1>8. j \in known
  BY <1>2, <1>4, <1>5 DEF IdsAreKnown
<1> QED
  BY <1>2, <1>5, <1>7, <1>8

\* A remembered selection survives rescans, except for a row that comes back.
THEOREM SelectionSurvives == Spec => IdsSurvive
<1>1. IInv /\ [Next]_vars =>
        [\A k \in listed \cap listed' :
           \/ id'[k] = id[k]
           \/ \E j \in (known \cap listed') \ listed : id[j] = id[k]]_vars
  BY StepIdsSurvive
<1> QED
  BY <1>1, Invariance, PTL DEF Spec, IdsSurvive
=============================================================================
