-------------------------- MODULE ClaudeQuotaProofs --------------------------
(***************************************************************************)
(* Why an answer about the quota lacks no scan older than the cache's      *)
(* life, why each of its rows is dated, and why the usage endpoint is      *)
(* called no sooner than after its interval or backoff, for any number of  *)
(* requests, any delays and any order of their steps.                      *)
(***************************************************************************)
EXTENDS ClaudeQuota, TLAPS

-----------------------------------------------------------------------------
(* What the invariant is made of.                                           *)

\* A row of an answer has the time reported, or shows its own.
Dated(status) ==
  status.fetchedAt # 0 =>
    \A id \in DOMAIN status.rows : status.rows[id].at = status.fetchedAt \/ status.rows[id].aged

Rows == UNION {[ids -> [at : Times, aged : BOOLEAN]] : ids \in SUBSET RowIds}
Problems == SUBSET {"live", "cache", "snapshot", "no data", "tokens"}
Pages == [rows : Rows, fetchedAt : Times, stale : BOOLEAN, tokens : Times, problems : Problems]

RequestStates ==
  [at : {"idle", "cache", "snap", "tokens", "store", "served"}, start : Times,
   live : Reading, err : Failures \cup {""}, cache : File, snap : File, toks : Times,
   tokFailed : BOOLEAN, answer : Pages]
CachedPages == [at : Times, status : Pages]
Pollers == [at : {"waiting", "calling", "off"}, due : Nat]
Calls == [at : Times, answer : Answers \cup {""}]

SourcesTyped ==
  /\ acts \in 0 .. MaxActs
  /\ cacheFile \in File /\ snapFile \in File /\ credential \in Credentials
CountsTyped == now \in Times /\ tokens \in Times /\ scans \subseteq Times /\ tokenErr \in BOOLEAN
PollTyped ==
  /\ live \in Reading /\ liveErr \in Failures \cup {""}
  /\ poller \in Pollers /\ lastCall \in Calls
  /\ journal \in Failures \cup {"", "recovered"}
PagesTyped == cached \in CachedPages /\ req \in [Requests -> RequestStates]

\* A count of tokens lacks no scan made before a time.
Covers(count, time) == \A t \in scans : t < time => t <= count

\* The count is that of the last scan.
LastScan == \A t \in scans : t <= tokens /\ t <= now

\* What a request has counted, and what it was answered.
Counted(q) ==
  /\ q.start <= now
  /\ q.at = "store" => Covers(q.toks, q.start)
  /\ q.at = "served" => \A t \in scans : t <= q.start - StatusTTL => q.answer.tokens >= t

CachedCounted == cached.at <= now /\ (cached.at # 0 => Covers(cached.status.tokens, cached.at))

FreshInv == LastScan /\ CachedCounted /\ \A r \in Requests : Counted(req[r])

DatedInv == Dated(cached.status) /\ \A r \in Requests : Dated(req[r].answer)

\* The poller waits out what the last call to the endpoint asks for.
Pace(answer) == IF answer = "limited" THEN Backoff429 ELSE Interval
PaceInv ==
  /\ lastCall.at <= now
  /\ poller.at = "calling" => lastCall.answer = ""
  /\ poller.at = "waiting" /\ lastCall.at # 0 =>
       poller.due >= lastCall.at + Pace(lastCall.answer)

QuotaInv ==
  SourcesTyped /\ CountsTyped /\ PollTyped /\ PagesTyped /\ FreshInv /\ DatedInv /\ PaceInv

LEMMA Delays ==
  ASSUME QuotaAssumption
  PROVE  /\ MaxTime \in Nat /\ MaxTime >= 1 /\ MaxActs \in Nat /\ Times \subseteq Nat
         /\ 0 \in Times /\ 1 \in Times
         /\ StatusTTL \in Nat /\ StatusTTL >= 1 /\ StaleAfter \in Nat
         /\ Interval \in Nat /\ Backoff429 \in Nat /\ CredRetry \in Nat /\ StartupDelay \in Nat
         /\ Interval <= Backoff429
<1>1. /\ MaxTime \in Nat \ {0} /\ MaxActs \in Nat \ {0} /\ StatusTTL \in Nat \ {0}
      /\ StaleAfter \in Nat \ {0} /\ Interval \in Nat \ {0} /\ Backoff429 \in Nat \ {0}
      /\ CredRetry \in Nat \ {0} /\ StartupDelay \in Nat \ {0} /\ Interval <= Backoff429
  BY Zenon DEF QuotaAssumption
<1> QED
  BY <1>1 DEF Times

LEMMA Clock ==
  ASSUME QuotaAssumption, CountsTyped
  PROVE  now \in Nat /\ now <= now /\ tokens \in Nat /\ scans \subseteq Nat
<1>1. now \in Nat /\ tokens \in Nat /\ scans \subseteq Nat
  BY Delays DEF CountsTyped
<1> QED
  BY <1>1

\* What is read of a file.
LEMMA FileRead ==
  ASSUME NEW file \in File, 0 \in Times
  PROVE  ReadOf(file) \in Reading
<1>1. None \in Reading
  BY DEF None, Reading
<1>2. file.ok => file.read \in Reading
  BY DEF File
<1> QED
  BY <1>1, <1>2 DEF ReadOf

LEMMA FileParsed ==
  ASSUME now \in Times, 0 \in Times, NEW stamped \in BOOLEAN, NEW rows \in SUBSET RowIds
  PROVE  Parsed(stamped, rows) \in File
<1>1. [at |-> IF stamped THEN now ELSE 0, rows |-> rows] \in Reading
  BY DEF Reading
<1> QED
  BY <1>1 DEF Parsed, File

\* The merge of a reading of the API and one of the status line.
LEMMA Merged ==
  ASSUME NEW base \in Reading, NEW snap \in Reading
  PROVE  /\ Merge(base, snap).rows \in Rows /\ Merge(base, snap).fetchedAt \in Times
         /\ Dated(Merge(base, snap))
<1> DEFINE overlay == snap.rows # {} /\ (base.at = 0 \/ snap.at > base.at)
           alone   == snap.rows # {} /\ base.rows = {}
           over    == IF overlay \/ alone THEN snap.rows ELSE {}
           fetched == IF overlay \/ alone THEN snap.at ELSE base.at
           row(id) == IF id \in over THEN [at |-> snap.at, aged |-> FALSE]
                                     ELSE [at |-> base.at, aged |-> overlay]
           rows == [id \in base.rows \cup over |-> row(id)]
<1>1. Merge(base, snap) = [rows |-> rows, fetchedAt |-> fetched]
  BY DEF Merge
<1>2. /\ base.at \in Times /\ snap.at \in Times
      /\ base.rows \in SUBSET RowIds /\ snap.rows \in SUBSET RowIds
  BY DEF Reading
<1>3. overlay \in BOOLEAN
  OBVIOUS
<1>4. over # {} => fetched = snap.at
  OBVIOUS
<1>5. over = {} /\ base.rows # {} => fetched = base.at \/ overlay
  OBVIOUS
<1>6. \A id \in base.rows \ over : overlay \/ fetched = base.at
  OBVIOUS
<1>7. fetched \in Times /\ base.rows \cup over \in SUBSET RowIds
  BY <1>2
<1> HIDE DEF overlay, over, fetched
<1>8. \A id : row(id) \in [at : Times, aged : BOOLEAN]
  BY <1>2, <1>3
<1>9. \A id \in base.rows \cup over : row(id).at = fetched \/ row(id).aged
  BY <1>3, <1>4, <1>6
<1> HIDE DEF row
<1>10. rows \in Rows
  <2> DEFINE S == [at : Times, aged : BOOLEAN]
             ids == base.rows \cup over
  <2>1. ids \in SUBSET RowIds /\ \A id : row(id) \in S
    BY <1>7, <1>8
  <2> HIDE DEF S, ids
  <2>2. [id \in ids |-> row(id)] \in [ids -> S]
    BY <2>1
  <2> QED
    BY <2>1, <2>2, Zenon DEF Rows, S, ids
<1>11. \A id \in DOMAIN rows : rows[id].at = fetched \/ rows[id].aged
  BY <1>9
<1> HIDE DEF rows
<1> QED
  BY <1>1, <1>7, <1>10, <1>11 DEF Dated

\* What a request computes from what it read.
LEMMA StatusComputed ==
  ASSUME 0 \in Times,
         NEW start, NEW cache \in File, NEW snap \in File, NEW polled \in Reading, NEW err,
         NEW toks \in Times, NEW failed \in BOOLEAN
  PROVE  LET status == Status(start, cache, snap, polled, err, toks, failed)
         IN  status \in Pages /\ Dated(status) /\ status.tokens = toks
<1> DEFINE base == Base(ReadOf(cache), polled)
           merged == Merge(base, ReadOf(snap))
           told == merged.fetchedAt # 0 /\ merged.fetchedAt <= start
           fetched == IF told THEN merged.fetchedAt ELSE 0
           old == told /\ start - merged.fetchedAt > StaleAfter
           problems == (IF err # "" THEN {"live"} ELSE {})
                  \cup (IF Broken(cache) THEN {"cache"} ELSE {})
                  \cup (IF Broken(snap) THEN {"snapshot"} ELSE {})
           noData == IF DOMAIN merged.rows = {} /\ problems = {} THEN {"no data"} ELSE {}
           all == problems \cup noData \cup (IF failed THEN {"tokens"} ELSE {})
           status == Status(start, cache, snap, polled, err, toks, failed)
<1>1. status = [rows |-> merged.rows, fetchedAt |-> fetched, stale |-> old,
                tokens |-> toks, problems |-> all]
  BY DEF Status
<1>2. base \in Reading /\ ReadOf(snap) \in Reading
  BY FileRead DEF Base
<1> HIDE DEF base
<1>3. merged.rows \in Rows /\ merged.fetchedAt \in Times /\ Dated(merged)
  BY <1>2, Merged
<1> HIDE DEF merged, status
<1>4. fetched \in Times /\ old \in BOOLEAN /\ all \in Problems
  BY <1>3 DEF Problems
<1>5. fetched # 0 => fetched = merged.fetchedAt
  OBVIOUS
<1> HIDE DEF fetched, old, all
<1> QED
  BY <1>1, <1>3, <1>4, <1>5 DEF Pages, Dated, status

LEMMA NoPage == ASSUME 0 \in Times PROVE NoStatus \in Pages /\ Dated(NoStatus)
<1>1. [id \in {} |-> None] \in [{} -> [at : Times, aged : BOOLEAN]]
  OBVIOUS
<1> DEFINE none == [id \in {} |-> None]
<1>2. none \in Rows
  BY <1>1 DEF Rows
<1> HIDE DEF none
<1>3. NoStatus = [rows |-> none, fetchedAt |-> 0, stale |-> FALSE, tokens |-> 0,
    problems |-> {}]
  BY Zenon DEF NoStatus, none
<1>4. {} \in Problems
  BY DEF Problems
<1>5. NoStatus \in Pages
  BY <1>2, <1>3, <1>4 DEF Pages
<1>6. NoStatus.fetchedAt = 0
  BY <1>3
<1> QED
  BY <1>5, <1>6 DEF Dated

LEMMA IdleRequest ==
  ASSUME 0 \in Times
  PROVE  Idle \in RequestStates /\ Idle.at = "idle" /\ Idle.start = 0 /\ Dated(Idle.answer)
<1>1. NoStatus \in Pages /\ Dated(NoStatus)
  BY NoPage
<1>2. None \in Reading /\ [ok |-> FALSE, why |-> "missing"] \in File
  BY DEF None, Reading, File
<1> QED
  BY <1>1, <1>2 DEF Idle, RequestStates

LEMMA InitInv == ASSUME QuotaAssumption, Init PROVE QuotaInv
<1>1. SourcesTyped
  <2>1. cacheFile \in File /\ snapFile \in File
    BY DEF Init, File
  <2>2. credential \in Credentials
    BY DEF Init, Credentials
  <2>3. acts \in 0 .. MaxActs
    <3>1. acts = 0
      BY DEF Init
    <3> QED
      BY <3>1, Delays
  <2> QED
    BY <2>1, <2>2, <2>3 DEF SourcesTyped
<1>2. CountsTyped
  BY Delays DEF Init, CountsTyped
<1>3. PollTyped
  <2>1. live \in Reading /\ liveErr \in Failures \cup {""} /\ journal \in Failures \cup {"",
      "recovered"}
    BY Delays DEF Init, None, Reading
  <2>2. lastCall \in Calls
    BY Delays DEF Init, Calls
  <2>3. poller \in Pollers
    <3>1. 1 + StartupDelay \in Nat
      BY Delays
    <3>2. \/ poller = [at |-> "waiting", due |-> 1 + StartupDelay]
          \/ poller = [at |-> "off", due |-> 0]
      BY DEF Init
    <3> QED
      BY <3>1, <3>2 DEF Pollers
  <2> QED
    BY <2>1, <2>2, <2>3 DEF PollTyped
<1>4. PagesTyped
  BY Delays, NoPage, IdleRequest DEF Init, PagesTyped, CachedPages
<1>5. FreshInv
  <2>1. scans = {} /\ now = 1 /\ cached.at = 0
    BY DEF Init
  <2>2. \A r \in Requests : req[r].at = "idle" /\ req[r].start = 0
    BY Delays, IdleRequest DEF Init
  <2> QED
    BY <2>1, <2>2 DEF FreshInv, LastScan, CachedCounted, Counted
<1>6. DatedInv
  BY Delays, NoPage, IdleRequest DEF Init, DatedInv
<1>7. PaceInv
  <2>1. lastCall.at = 0 /\ now = 1
    BY DEF Init
  <2>2. poller.at # "calling"
    BY DEF Init
  <2>3. lastCall.at <= now
    BY <2>1
  <2> QED
    BY <2>1, <2>2, <2>3, Zenon DEF PaceInv
<1> QED
  BY <1>1, <1>2, <1>3, <1>4, <1>5, <1>6, <1>7 DEF QuotaInv

-----------------------------------------------------------------------------
(* One step of a request.                                                   *)

LEMMA RequestMoves ==
  ASSUME PagesTyped, NEW r \in Requests, NEW from, NEW to \in RequestStates, Moves(r, from, to)
  PROVE  /\ req[r] \in RequestStates /\ req[r].at = from
         /\ req' \in [Requests -> RequestStates]
         /\ req'[r] = to /\ \A s \in Requests : s # r => req'[s] = req[s]
  BY DEF PagesTyped, Moves

LEMMA RequestKeeps ==
  ASSUME QuotaInv, NEW r \in Requests, NEW from, NEW to \in RequestStates, Moves(r, from, to),
         Counted(to), Dated(to.answer),
         cached' \in CachedPages, Dated(cached'.status),
         cached'.at <= now, cached'.at # 0 => Covers(cached'.status.tokens, cached'.at)
  PROVE  QuotaInv'
<1>1. /\ req' \in [Requests -> RequestStates]
      /\ req'[r] = to /\ \A s \in Requests : s # r => req'[s] = req[s]
  BY RequestMoves DEF QuotaInv
<1>2. UNCHANGED <<now, acts, world, polling, counting>>
  BY DEF Moves
<1>3. /\ UNCHANGED <<now, acts, cacheFile, snapFile, credential>>
      /\ UNCHANGED <<live, liveErr, poller, journal, lastCall>>
      /\ UNCHANGED <<tokens, tokenErr, scans>>
  BY <1>2 DEF world, polling, counting
<1>4. (SourcesTyped /\ CountsTyped /\ PollTyped /\ PaceInv)'
  BY <1>3, Zenon DEF QuotaInv, SourcesTyped, CountsTyped, PollTyped, PaceInv
<1>5. PagesTyped'
  BY <1>1 DEF PagesTyped
<1>6. FreshInv'
  <2>1. LastScan' /\ CachedCounted'
    BY <1>3, Zenon DEF QuotaInv, FreshInv, LastScan, CachedCounted, Covers
  <2>2. ASSUME NEW s \in Requests PROVE Counted(req[s])'
    <3>1. Counted(req'[s])
      BY <1>1 DEF QuotaInv, FreshInv
    <3> QED
      BY <1>3, <3>1, Zenon DEF Counted, Covers
  <2> QED
    BY <2>1, <2>2 DEF FreshInv
<1>7. DatedInv'
  BY <1>1, Zenon DEF QuotaInv, DatedInv
<1> QED
  BY <1>4, <1>5, <1>6, <1>7 DEF QuotaInv

\* The fields of a request and of a cached answer.
LEMMA RequestFields ==
  ASSUME NEW q \in RequestStates
  PROVE  /\ q.start \in Times /\ q.live \in Reading /\ q.cache \in File /\ q.snap \in File
         /\ q.toks \in Times /\ q.tokFailed \in BOOLEAN /\ q.answer \in Pages
         /\ q.answer.tokens \in Times
  BY DEF RequestStates, Pages

LEMMA CachedFields ==
  ASSUME NEW c \in CachedPages
  PROVE  c.at \in Times /\ c.status \in Pages /\ c.status.tokens \in Times
  BY DEF CachedPages, Pages

LEMMA FromCacheKeeps ==
  ASSUME QuotaAssumption, QuotaInv, NEW r \in Requests, FromCache(r)
  PROVE  QuotaInv'
<1> DEFINE to == [req[r] EXCEPT !.at = "served", !.start = now, !.answer = cached.status]
           fresh == now - cached.at < StatusTTL
<1>1. cached.at # 0 /\ fresh /\ Moves(r, "idle", to) /\ cached' = cached
  BY DEF FromCache
<1>2. /\ req[r] \in RequestStates /\ now \in Times /\ cached \in CachedPages
      /\ cached.at <= now /\ Covers(cached.status.tokens, cached.at) /\ Dated(cached.status)
  BY <1>1 DEF QuotaInv, CountsTyped, PagesTyped, FreshInv, CachedCounted, DatedInv
<1>3. to \in RequestStates /\ to.at = "served" /\ to.start = now /\ to.answer = cached.status
  BY <1>2, CachedFields DEF RequestStates
<1>4. \A t \in scans : t <= now - StatusTTL => cached.status.tokens >= t
  <2> DEFINE at == cached.at
             count == cached.status.tokens
  <2>1. at \in Nat /\ count \in Nat /\ now \in Nat /\ scans \subseteq Nat
    BY <1>2, CachedFields, Delays DEF QuotaInv, CountsTyped
  <2>2. (now - at < StatusTTL) /\ \A t \in scans : t < at => t <= count
    BY <1>1, <1>2 DEF Covers
  <2> HIDE DEF at, count
  <2>3. \A t \in scans : t <= now - StatusTTL => count >= t
    BY <2>1, <2>2, Delays
  <2> QED
    BY <2>3 DEF count
<1> HIDE DEF to, fresh
<1>5. Counted(to)
  <2>1. now <= now
    BY Clock DEF QuotaInv
  <2> QED
    BY <1>3, <1>4, <2>1 DEF Counted
<1> QED
  BY <1>1, <1>2, <1>3, <1>5, RequestKeeps

LEMMA ReadsKeep ==
  ASSUME QuotaAssumption, QuotaInv, NEW r \in Requests,
         ReadLive(r) \/ ReadCache(r) \/ ReadSnap(r)
  PROVE  QuotaInv'
<1>1. /\ req[r] \in RequestStates /\ now \in Times /\ cached \in CachedPages
      /\ cached.at <= now /\ (cached.at # 0 => Covers(cached.status.tokens, cached.at))
      /\ Dated(cached.status) /\ Dated(req[r].answer) /\ req[r].start <= now
      /\ live \in Reading /\ liveErr \in Failures \cup {""}
      /\ cacheFile \in File /\ snapFile \in File
  BY Zenon DEF QuotaInv, CountsTyped, PagesTyped, PollTyped, SourcesTyped, FreshInv,
               CachedCounted, Counted, DatedInv
<1>2. now <= now
  BY Clock DEF QuotaInv
<1>3. CASE ReadLive(r)
  <2> DEFINE to == [req[r] EXCEPT !.at = "cache", !.start = now, !.live = live,
                                  !.err = liveErr]
  <2>1. Moves(r, "idle", to) /\ cached' = cached
    BY <1>3 DEF ReadLive
  <2>2. to \in RequestStates /\ to.at = "cache" /\ to.start = now /\ to.answer = req[r].answer
    BY <1>1 DEF RequestStates
  <2> HIDE DEF to
  <2>3. Counted(to)
    BY <1>2, <2>2 DEF Counted
  <2> QED
    BY <1>1, <2>1, <2>2, <2>3, RequestKeeps
<1>4. CASE ReadCache(r)
  <2> DEFINE to == [req[r] EXCEPT !.at = "snap", !.cache = cacheFile]
  <2>1. Moves(r, "cache", to) /\ cached' = cached
    BY <1>4 DEF ReadCache
  <2>2. to \in RequestStates /\ to.at = "snap" /\ to.start = req[r].start
        /\ to.answer = req[r].answer
    BY <1>1 DEF RequestStates
  <2> HIDE DEF to
  <2>3. Counted(to)
    BY <1>1, <2>2 DEF Counted
  <2> QED
    BY <1>1, <2>1, <2>2, <2>3, RequestKeeps
<1>5. CASE ReadSnap(r)
  <2> DEFINE to == [req[r] EXCEPT !.at = "tokens", !.snap = snapFile]
  <2>1. Moves(r, "snap", to) /\ cached' = cached
    BY <1>5 DEF ReadSnap
  <2>2. to \in RequestStates /\ to.at = "tokens" /\ to.start = req[r].start
        /\ to.answer = req[r].answer
    BY <1>1 DEF RequestStates
  <2> HIDE DEF to
  <2>3. Counted(to)
    BY <1>1, <2>2 DEF Counted
  <2> QED
    BY <1>1, <2>1, <2>2, <2>3, RequestKeeps
<1> QED
  BY <1>3, <1>4, <1>5

LEMMA ReadTokensKeeps ==
  ASSUME QuotaAssumption, QuotaInv, NEW r \in Requests, ReadTokens(r)
  PROVE  QuotaInv'
<1> DEFINE to == [req[r] EXCEPT !.at = "store", !.toks = tokens, !.tokFailed = tokenErr]
<1>1. Moves(r, "tokens", to) /\ cached' = cached
  BY DEF ReadTokens
<1>2. /\ req[r] \in RequestStates /\ cached \in CachedPages
      /\ cached.at <= now /\ (cached.at # 0 => Covers(cached.status.tokens, cached.at))
      /\ Dated(cached.status) /\ Dated(req[r].answer) /\ req[r].start <= now
      /\ tokens \in Times /\ tokenErr \in BOOLEAN
      /\ \A t \in scans : t <= tokens
  BY Zenon DEF QuotaInv, CountsTyped, PagesTyped, FreshInv, LastScan, CachedCounted, Counted,
               DatedInv
<1>3. /\ to \in RequestStates /\ to.at = "store" /\ to.start = req[r].start
      /\ to.answer = req[r].answer /\ to.toks = tokens
  BY <1>2 DEF RequestStates
<1> HIDE DEF to
<1>4. Counted(to)
  BY <1>2, <1>3 DEF Counted, Covers
<1> QED
  BY <1>1, <1>2, <1>3, <1>4, RequestKeeps

LEMMA StoreKeeps ==
  ASSUME QuotaAssumption, QuotaInv, NEW r \in Requests, Store(r)
  PROVE  QuotaInv'
<1> DEFINE q == req[r]
           status == Status(q.start, q.cache, q.snap, q.live, q.err, q.toks, q.tokFailed)
           to == [Idle EXCEPT !.at = "served", !.start = q.start, !.answer = status]
<1>1. Moves(r, "store", to) /\ cached' = [at |-> q.start, status |-> status]
  BY DEF Store, StoredAt
<1>2. q \in RequestStates /\ q.start <= now /\ Counted(q) /\ scans \subseteq Times
  BY Zenon DEF QuotaInv, CountsTyped, PagesTyped, FreshInv, Counted
<1>3. status \in Pages /\ Dated(status) /\ status.tokens = q.toks
  BY <1>2, Delays, RequestFields, StatusComputed
<1>4. q.at = "store"
  BY <1>1 DEF Moves
<1>5. Covers(q.toks, q.start)
  BY <1>2, <1>4 DEF Counted
<1> HIDE DEF q, status
<1>6. to \in RequestStates /\ to.at = "served" /\ to.start = q.start /\ to.answer = status
  BY <1>2, <1>3, Delays, IdleRequest, RequestFields DEF RequestStates
<1>7. cached' \in CachedPages /\ cached'.at = q.start /\ cached'.status = status
  BY <1>1, <1>2, <1>3, RequestFields DEF CachedPages
<1> HIDE DEF to
<1>8. \A t \in scans : t <= q.start - StatusTTL => q.toks >= t
  <2> DEFINE at == q.start
             count == q.toks
  <2>1. at \in Nat /\ count \in Nat /\ scans \subseteq Nat
    BY <1>2, RequestFields, Delays
  <2>2. \A t \in scans : t < at => t <= count
    BY <1>5 DEF Covers
  <2> HIDE DEF at, count
  <2>3. \A t \in scans : t <= at - StatusTTL => count >= t
    BY <2>1, <2>2, Delays
  <2> QED
    BY <2>3 DEF at, count
<1>9. Counted(to)
  BY <1>2, <1>3, <1>6, <1>8 DEF Counted
<1>10. to \in RequestStates /\ Dated(to.answer) /\ Dated(cached'.status) /\ cached'.at <= now
       /\ Covers(cached'.status.tokens, cached'.at)
  BY <1>2, <1>3, <1>5, <1>6, <1>7
<1> QED
  BY <1>1, <1>7, <1>9, <1>10, RequestKeeps

-----------------------------------------------------------------------------
(* The steps of the world, of the scan and of the poller.                   *)

\* A step that leaves the counts and the pages alone leaves them fresh.
LEMMA PagesStay ==
  ASSUME QuotaAssumption, QuotaInv, now' \in Times, now <= now',
         UNCHANGED <<tokens, tokenErr, scans, cached, req>>
  PROVE  (CountsTyped /\ PagesTyped /\ FreshInv /\ DatedInv)'
<1>1. (CountsTyped /\ PagesTyped /\ DatedInv)'
  BY Zenon DEF QuotaInv, CountsTyped, PagesTyped, DatedInv
<1>2. now \in Nat /\ now' \in Nat /\ scans \subseteq Nat
  BY Clock, Delays DEF QuotaInv
<1>3. LastScan'
  BY <1>2 DEF QuotaInv, FreshInv, LastScan
<1>4. CachedCounted'
  <2>1. cached.at \in Nat /\ cached.at <= now
    BY CachedFields, Delays DEF QuotaInv, PagesTyped, FreshInv, CachedCounted
  <2>2. cached'.at <= now'
    <3> DEFINE at == cached.at
    <3>1. at \in Nat /\ at <= now /\ cached'.at = at
      BY <2>1
    <3> HIDE DEF at
    <3> QED
      BY <1>2, <3>1
  <2> QED
    BY <2>2, Zenon DEF QuotaInv, FreshInv, CachedCounted, Covers
<1>5. ASSUME NEW r \in Requests PROVE Counted(req[r])'
  <2>1. Counted(req[r]) /\ req[r].start \in Nat
    BY RequestFields, Delays DEF QuotaInv, PagesTyped, FreshInv
  <2>2. req'[r].start <= now'
    <3> DEFINE start == req[r].start
    <3>1. start \in Nat /\ start <= now /\ req'[r].start = start
      BY <2>1 DEF Counted
    <3> HIDE DEF start
    <3> QED
      BY <1>2, <3>1
  <2> QED
    BY <2>1, <2>2, Zenon DEF Counted, Covers
<1> QED
  BY <1>1, <1>3, <1>4, <1>5 DEF FreshInv

LEMMA TickKeeps == ASSUME QuotaAssumption, QuotaInv, Tick PROVE QuotaInv'
<1>1. /\ now < MaxTime /\ now' = now + 1 /\ UNCHANGED <<tokens, tokenErr, scans, cached, req>>
      /\ UNCHANGED <<acts, cacheFile, snapFile, credential>>
      /\ UNCHANGED <<live, liveErr, poller, journal, lastCall>>
  BY Zenon DEF Tick, world, polling, counting
<1>2. now' \in Times /\ now <= now' /\ now \in Nat /\ now' \in Nat
  <2>1. now \in Nat
    BY Clock DEF QuotaInv
  <2> QED
    BY <1>1, <2>1, Delays DEF Times
<1>3. (CountsTyped /\ PagesTyped /\ FreshInv /\ DatedInv)'
  BY <1>1, <1>2, PagesStay
<1>4. (SourcesTyped /\ PollTyped)'
  BY <1>1, Zenon DEF QuotaInv, SourcesTyped, PollTyped
<1>5. PaceInv'
  <2>1. lastCall.at \in Nat /\ lastCall.at <= now
    BY Delays DEF QuotaInv, PollTyped, PaceInv, Calls
  <2>2. lastCall'.at <= now'
    <3> DEFINE at == lastCall.at
    <3>1. at \in Nat /\ at <= now /\ lastCall'.at = at
      BY <1>1, <2>1
    <3> HIDE DEF at
    <3> QED
      BY <1>2, <3>1
  <2> QED
    BY <1>1, <2>2, Zenon DEF QuotaInv, PaceInv
<1> QED
  BY <1>3, <1>4, <1>5 DEF QuotaInv

LEMMA ActCounted ==
  ASSUME QuotaAssumption, QuotaInv, Act PROVE acts' \in 0 .. MaxActs
  BY Delays DEF QuotaInv, SourcesTyped, Act

LEMMA OutsideKeeps ==
  ASSUME QuotaAssumption, QuotaInv, Outside, cacheFile' \in File, snapFile' \in File,
         credential' \in Credentials
  PROVE  QuotaInv'
<1>1. /\ UNCHANGED <<now, tokens, tokenErr, scans, cached, req>>
      /\ UNCHANGED <<live, liveErr, poller, journal, lastCall>>
  BY Zenon DEF Outside, polling, counting
<1>2. now' \in Times /\ now <= now'
  BY <1>1, Clock DEF QuotaInv, CountsTyped
<1>3. (CountsTyped /\ PagesTyped /\ FreshInv /\ DatedInv)'
  BY <1>1, <1>2, PagesStay
<1>4. SourcesTyped'
  BY ActCounted DEF Outside, SourcesTyped
<1>5. (PollTyped /\ PaceInv)'
  BY <1>1, Zenon DEF QuotaInv, PollTyped, PaceInv
<1> QED
  BY <1>3, <1>4, <1>5 DEF QuotaInv

LEMMA WritesKeep ==
  ASSUME QuotaAssumption, QuotaInv, NEW stamped \in BOOLEAN, NEW rows \in Shapes,
         \/ StatusLineWrites(rows \ Api, stamped)
         \/ WidgetWrites(rows, stamped)
  PROVE  QuotaInv'
<1>1. rows \in SUBSET RowIds /\ rows \ Api \in SUBSET RowIds
  BY DEF QuotaAssumption
<1>2. Outside
  BY DEF StatusLineWrites, WidgetWrites
<1>3. Parsed(stamped, rows \ Api) \in File /\ Parsed(stamped, rows) \in File
  BY <1>1, Delays, FileParsed DEF QuotaInv, CountsTyped
<1>4. cacheFile \in File /\ snapFile \in File /\ credential \in Credentials
  BY DEF QuotaInv, SourcesTyped
<1> QED
  BY <1>2, <1>3, <1>4, OutsideKeeps, Zenon DEF StatusLineWrites, WidgetWrites

LEMMA CredentialKeeps ==
  ASSUME QuotaAssumption, QuotaInv, NEW c \in Credentials, CredentialChanges(c)
  PROVE  QuotaInv'
<1>1. cacheFile \in File /\ snapFile \in File /\ Outside
  BY DEF QuotaInv, SourcesTyped, CredentialChanges
<1> QED
  BY <1>1, OutsideKeeps, Zenon DEF CredentialChanges

LEMMA RefreshKeeps ==
  ASSUME QuotaAssumption, QuotaInv, NEW failed \in BOOLEAN, RefreshTokens(failed)
  PROVE  QuotaInv'
<1>1. /\ UNCHANGED <<now, cacheFile, snapFile, credential, req>>
      /\ UNCHANGED <<live, liveErr, poller, journal, lastCall>>
      /\ tokens' = (IF failed THEN tokens ELSE now)
      /\ scans' = (IF failed THEN scans ELSE scans \cup {now})
      /\ tokenErr' = failed /\ cached' = [cached EXCEPT !.at = 0] /\ Act
  BY Zenon DEF RefreshTokens, world, polling
<1>2. /\ now \in Times /\ now \in Nat /\ tokens \in Times /\ tokens \in Nat
      /\ scans \subseteq Times /\ scans \subseteq Nat
      /\ \A t \in scans : t <= tokens /\ t <= now
  BY Clock DEF QuotaInv, CountsTyped, FreshInv, LastScan
<1>3. /\ cached' \in CachedPages /\ cached'.at = 0 /\ cached'.status = cached.status
  BY <1>1, Delays DEF QuotaInv, PagesTyped, CachedPages
<1>4. CountsTyped'
  BY <1>1, <1>2, Zenon DEF CountsTyped
<1>5. LastScan'
  BY <1>1, <1>2 DEF LastScan
<1>6. CachedCounted'
  <2>1. cached'.at <= now'
    BY <1>1, <1>2, <1>3
  <2> QED
    BY <1>3, <2>1 DEF CachedCounted
<1>7. ASSUME NEW r \in Requests PROVE Counted(req[r])'
  <2> DEFINE q == req[r]
             start == q.start
  <2>1. q \in RequestStates /\ Counted(q) /\ start \in Nat /\ start <= now
    BY RequestFields, Delays DEF QuotaInv, PagesTyped, FreshInv, Counted
  <2>2. req'[r] = q
    BY <1>1
  <2>3. q.at = "store" => \A t \in scans : t < start => t <= q.toks
    BY <2>1 DEF Counted, Covers
  <2>4. q.at = "served" => \A t \in scans : t <= start - StatusTTL => q.answer.tokens >= t
    BY <2>1 DEF Counted
  <2> HIDE DEF start
  <2>5. ~(now < start) /\ ~(now <= start - StatusTTL)
    BY <1>2, <2>1, Delays
  <2> HIDE DEF q
  <2>6. scans' \subseteq scans \cup {now}
    BY <1>1
  <2>7. q.at = "store" => \A t \in scans' : t < start => t <= q.toks
    BY <2>3, <2>5, <2>6, Zenon
  <2>8. q.at = "served" => \A t \in scans' : t <= start - StatusTTL => q.answer.tokens >= t
    BY <2>4, <2>5, <2>6, Zenon
  <2>9. /\ req'[r].start = start /\ req'[r].start <= now'
        /\ req'[r].at = q.at /\ req'[r].toks = q.toks /\ req'[r].answer = q.answer
    BY <1>1, <2>1, <2>2, Zenon DEF start
  <2> QED
    BY <2>7, <2>8, <2>9, Zenon DEF Counted, Covers
<1>8. DatedInv'
  BY <1>1, <1>3, Zenon DEF QuotaInv, DatedInv
<1>9. (SourcesTyped /\ PollTyped /\ PaceInv)'
  BY <1>1, ActCounted, Zenon DEF QuotaInv, SourcesTyped, PollTyped, PaceInv
<1>10. PagesTyped'
  BY <1>1, <1>3, Zenon DEF QuotaInv, PagesTyped
<1> QED
  BY <1>4, <1>5, <1>6, <1>7, <1>8, <1>9, <1>10 DEF QuotaInv, FreshInv

\* What a step of the poller leaves alone.
LEMMA PollerStays ==
  ASSUME QuotaAssumption, QuotaInv,
         UNCHANGED <<now, acts, world, counting, cached, req>>
  PROVE  (SourcesTyped /\ CountsTyped /\ PagesTyped /\ FreshInv /\ DatedInv)'
<1>1. /\ UNCHANGED <<now, tokens, tokenErr, scans, cached, req>>
      /\ UNCHANGED <<acts, cacheFile, snapFile, credential>>
  BY DEF world, counting
<1>2. now' \in Times /\ now <= now'
  BY <1>1, Clock DEF QuotaInv, CountsTyped
<1>3. (CountsTyped /\ PagesTyped /\ FreshInv /\ DatedInv)'
  BY <1>1, <1>2, PagesStay
<1> QED
  BY <1>1, <1>3, Zenon DEF QuotaInv, SourcesTyped

LEMMA PollFields ==
  ASSUME QuotaAssumption, QuotaInv
  PROVE  /\ poller.at \in {"waiting", "calling", "off"} /\ poller.due \in Nat
         /\ lastCall.at \in Nat /\ lastCall.at <= now /\ now \in Nat /\ now \in Times
         /\ lastCall \in Calls /\ poller \in Pollers
         /\ live \in Reading /\ liveErr \in Failures \cup {""}
         /\ journal \in Failures \cup {"", "recovered"}
<1>1. poller \in Pollers /\ lastCall \in Calls /\ now \in Times /\ lastCall.at <= now
  BY DEF QuotaInv, PollTyped, PaceInv, CountsTyped
<1>2. /\ live \in Reading /\ liveErr \in Failures \cup {""}
      /\ journal \in Failures \cup {"", "recovered"}
  BY DEF QuotaInv, PollTyped
<1> QED
  BY <1>1, <1>2, Delays DEF Pollers, Calls

LEMMA SumIsNat == ASSUME NEW a \in Nat, NEW b \in Nat PROVE a + b \in Nat
  OBVIOUS

\* What the loop does with one outcome leaves a wait behind.
LEMMA EndedWaits ==
  ASSUME QuotaAssumption, QuotaInv, NEW failure \in Failures \cup {""}, NEW wait \in Nat,
         Ended(failure, wait), live' \in Reading, lastCall' \in Calls, NEW at \in Nat,
         lastCall'.at = at, at <= now, at # 0 => now + wait >= at + Pace(lastCall'.answer)
  PROVE  QuotaInv'
<1>1. (SourcesTyped /\ CountsTyped /\ PagesTyped /\ FreshInv /\ DatedInv)'
  BY PollerStays DEF Ended
<1>2. /\ poller' = [at |-> "waiting", due |-> now + wait] /\ now' = now /\ liveErr' = failure
      /\ journal' \in {failure, "recovered", journal}
  BY DEF Ended
<1>3. now + wait \in Nat
  <2>1. now \in Nat
    BY PollFields
  <2> QED
    BY <2>1, SumIsNat
<1>4. poller' \in Pollers /\ poller'.at = "waiting" /\ poller'.due = now + wait
  BY <1>2, <1>3 DEF Pollers
<1>5. PollTyped'
  BY <1>2, <1>4, PollFields DEF PollTyped
<1>6. PaceInv'
  <2>1. lastCall'.at <= now'
    BY <1>2
  <2>2. lastCall'.at # 0 => poller'.due >= lastCall'.at + Pace(lastCall'.answer)
    BY <1>4
  <2> QED
    BY <1>4, <2>1, <2>2 DEF PaceInv, Pace
<1> QED
  BY <1>1, <1>5, <1>6 DEF QuotaInv

LEMMA PollWithoutTokenKeeps ==
  ASSUME QuotaAssumption, QuotaInv, PollWithoutToken PROVE QuotaInv'
<1> DEFINE at == lastCall.at
           due == poller.due
           pace == Pace(lastCall.answer)
<1>1. /\ poller.at = "waiting" /\ now >= due /\ Ended(credential, CredRetry)
      /\ live' = live /\ lastCall' = lastCall /\ credential # "valid"
  BY DEF PollWithoutToken
<1>2. at \in Nat /\ due \in Nat /\ now \in Nat /\ at <= now
  BY PollFields
<1>3. credential \in Failures \cup {""}
  BY <1>1 DEF QuotaInv, SourcesTyped, Credentials, Failures
<1>4. pace \in Nat /\ CredRetry \in Nat
  BY Delays DEF Pace
<1>5. at # 0 => due >= at + pace
  BY <1>1 DEF QuotaInv, PaceInv
<1> DEFINE answer == lastCall'.answer
<1>6. live' \in Reading /\ lastCall' \in Calls /\ lastCall'.at = at /\ Pace(answer) = pace
  BY <1>1, PollFields
<1> HIDE DEF at, due, pace, answer
<1>7. at # 0 => now + CredRetry >= at + pace
  BY <1>1, <1>2, <1>4, <1>5
<1> QED
  BY <1>1, <1>2, <1>3, <1>4, <1>6, <1>7, EndedWaits DEF answer

LEMMA PollCallsKeeps ==
  ASSUME QuotaAssumption, QuotaInv, PollCalls PROVE QuotaInv'
<1>1. /\ UNCHANGED <<now, acts, world, counting, cached, req>>
      /\ poller' = [poller EXCEPT !.at = "calling"]
      /\ lastCall' = [at |-> now, answer |-> ""]
      /\ UNCHANGED <<live, liveErr, journal>>
  BY DEF PollCalls
<1>2. (SourcesTyped /\ CountsTyped /\ PagesTyped /\ FreshInv /\ DatedInv)'
  BY <1>1, PollerStays
<1>3. poller' \in Pollers /\ poller'.at = "calling"
  BY <1>1, PollFields DEF Pollers
<1>4. lastCall' \in Calls /\ lastCall'.at = now /\ lastCall'.answer = ""
  BY <1>1, PollFields DEF Calls
<1>5. PollTyped'
  BY <1>1, <1>3, <1>4, PollFields DEF PollTyped
<1>6. lastCall'.at <= now'
  <2>1. now <= now /\ now' = now
    BY <1>1, Clock DEF QuotaInv
  <2> QED
    BY <2>1, <1>4, Zenon
<1> QED
  BY <1>2, <1>3, <1>4, <1>5, <1>6, Zenon DEF QuotaInv, PaceInv

LEMMA PollAnsweredKeeps ==
  ASSUME QuotaAssumption, QuotaInv, NEW answer \in Answers, NEW rows \in Shapes,
         PollAnswered(answer, rows)
  PROVE  QuotaInv'
<1> DEFINE at == lastCall.at
<1>1. /\ lastCall' = [lastCall EXCEPT !.answer = answer]
      /\ \/ /\ answer = "ok" /\ Ended("", Interval) /\ live' = [at |-> now, rows |-> rows]
         \/ /\ Ended(IF answer = "ok" THEN "payload" ELSE answer, WaitAfter(answer))
            /\ live' = live
  BY DEF PollAnswered
<1>2. at \in Nat /\ now \in Nat /\ at <= now
  BY PollFields
<1>3. lastCall' \in Calls /\ lastCall'.at = at /\ lastCall'.answer = answer
  BY <1>1, PollFields DEF Calls
<1>4. live' \in Reading
  <2>1. rows \in SUBSET RowIds /\ now \in Times /\ live \in Reading
    BY PollFields DEF QuotaAssumption
  <2>2. [at |-> now, rows |-> rows] \in Reading
    BY <2>1 DEF Reading
  <2> QED
    BY <1>1, <2>1, <2>2, Zenon
<1>5. WaitAfter(answer) = Pace(answer) /\ Pace(answer) \in Nat /\ Pace("ok") = Interval
  BY Delays DEF Pace, WaitAfter
<1> HIDE DEF at
<1>6. \A wait \in Nat : at # 0 => now + wait >= at + wait
  BY <1>2
<1>7. CASE answer = "ok" /\ Ended("", Interval)
  <2>1. Interval \in Nat /\ (at # 0 => now + Interval >= at + Pace(lastCall'.answer))
    BY <1>3, <1>5, <1>6, <1>7
  <2> QED
    BY <1>2, <1>3, <1>4, <1>7, <2>1, EndedWaits
<1>8. CASE Ended(IF answer = "ok" THEN "payload" ELSE answer, WaitAfter(answer))
  <2> DEFINE failure == IF answer = "ok" THEN "payload" ELSE answer
  <2>1. failure \in Failures \cup {""}
    BY DEF Answers, Failures
  <2>2. WaitAfter(answer) \in Nat
        /\ (at # 0 => now + WaitAfter(answer) >= at + Pace(lastCall'.answer))
    BY <1>3, <1>5, <1>6
  <2> HIDE DEF failure
  <2>3. Ended(failure, WaitAfter(answer))
    BY <1>8 DEF failure
  <2> QED
    BY <1>2, <1>3, <1>4, <2>1, <2>2, <2>3, EndedWaits
<1> QED
  BY <1>1, <1>7, <1>8

LEMMA PollerStopsKeeps ==
  ASSUME QuotaAssumption, QuotaInv, PollerStops PROVE QuotaInv'
<1>1. /\ UNCHANGED <<now, acts, world, counting, cached, req>>
      /\ poller' = [at |-> "off", due |-> 0]
      /\ UNCHANGED <<live, liveErr, journal, lastCall>>
  BY DEF PollerStops
<1>2. (SourcesTyped /\ CountsTyped /\ PagesTyped /\ FreshInv /\ DatedInv)'
  BY <1>1, PollerStays
<1>3. poller' \in Pollers /\ poller'.at = "off"
  BY <1>1 DEF Pollers
<1>4. PollTyped'
  BY <1>1, <1>3, PollFields DEF PollTyped
<1>5. lastCall.at <= now /\ now' = now /\ lastCall' = lastCall
  BY <1>1, PollFields
<1> QED
  BY <1>2, <1>3, <1>4, <1>5, Zenon DEF QuotaInv, PaceInv

-----------------------------------------------------------------------------
(* What every step keeps, and what the invariant says.                      *)

LEMMA NextInv ==
  ASSUME QuotaAssumption, QuotaInv, [Next]_vars PROVE QuotaInv'
<1>1. CASE UNCHANGED vars
  <2>1. UNCHANGED <<now, acts, cacheFile, snapFile, credential, live, liveErr, poller, journal,
                    tokens, tokenErr, scans, lastCall, cached, req>>
    BY <1>1 DEF vars
  <2> QED
    BY <2>1, Zenon DEF QuotaInv, SourcesTyped, CountsTyped, PollTyped, PagesTyped, FreshInv,
      DatedInv, PaceInv, LastScan, CachedCounted, Counted, Covers
<1>2. CASE Tick
  BY <1>2, TickKeeps
<1>3. ASSUME NEW stamped \in BOOLEAN, NEW rows \in Shapes,
             \/ StatusLineWrites(rows \ Api, stamped)
             \/ WidgetWrites(rows, stamped)
      PROVE  QuotaInv'
  BY <1>3, WritesKeep
<1>4. ASSUME NEW c \in Credentials, CredentialChanges(c) PROVE QuotaInv'
  BY <1>4, CredentialKeeps
<1>5. CASE PollWithoutToken
  BY <1>5, PollWithoutTokenKeeps
<1>6. CASE PollCalls
  BY <1>6, PollCallsKeeps
<1>7. ASSUME NEW answer \in Answers, NEW rows \in Shapes, PollAnswered(answer, rows)
      PROVE  QuotaInv'
  BY <1>7, PollAnsweredKeeps
<1>8. CASE PollerStops
  BY <1>8, PollerStopsKeeps
<1>9. ASSUME NEW failed \in BOOLEAN, RefreshTokens(failed) PROVE QuotaInv'
  BY <1>9, RefreshKeeps
<1>10. ASSUME NEW r \in Requests,
              FromCache(r) \/ ReadLive(r) \/ ReadCache(r) \/ ReadSnap(r) \/ ReadTokens(r)
                \/ Store(r)
       PROVE  QuotaInv'
  BY <1>10, FromCacheKeeps, ReadsKeep, ReadTokensKeeps, StoreKeeps
<1> QED
  BY <1>1, <1>2, <1>3, <1>4, <1>5, <1>6, <1>7, <1>8, <1>9, <1>10, Zenon DEF Next

LEMMA Sound ==
  ASSUME QuotaInv PROVE TypeOK /\ AnswersFresh /\ EveryRowDated
<1>1. AnswersFresh
  BY Zenon DEF QuotaInv, FreshInv, Counted, AnswersFresh
<1>2. EveryRowDated
  BY Zenon DEF QuotaInv, DatedInv, Dated, EveryRowDated
<1>3. TypeOK
  BY Zenon DEF QuotaInv, SourcesTyped, CountsTyped, PollTyped, Pollers, TypeOK
<1> QED
  BY <1>1, <1>2, <1>3

\* A call to the endpoint waits out the interval or the backoff.
PacedStep ==
  lastCall'.at # lastCall.at /\ lastCall.at # 0 =>
    lastCall'.at - lastCall.at >= IF lastCall.answer = "limited" THEN Backoff429 ELSE Interval

LEMMA StepPaced ==
  ASSUME QuotaAssumption, QuotaInv, [Next]_vars PROVE PacedStep
<1> SUFFICES ASSUME lastCall'.at # lastCall.at, lastCall.at # 0
             PROVE  lastCall'.at - lastCall.at >= Pace(lastCall.answer)
  BY DEF PacedStep, Pace
<1> DEFINE at == lastCall.at
           due == poller.due
           pace == Pace(lastCall.answer)
<1>1. PollCalls
  <2>1. lastCall' # lastCall
    OBVIOUS
  <2>2. \A answer, rows : PollAnswered(answer, rows) => lastCall'.at = lastCall.at
    BY PollFields DEF PollAnswered, Calls
  <2> QED
    BY <2>1, <2>2, Zenon DEF Next, vars, Tick, Outside, StatusLineWrites, WidgetWrites,
      CredentialChanges, PollWithoutToken, PollerStops, RefreshTokens, FromCache, ReadLive,
      ReadCache, ReadSnap, ReadTokens, Store, Moves, polling
<1>2. poller.at = "waiting" /\ now >= due /\ lastCall'.at = now
  BY <1>1 DEF PollCalls
<1>3. at \in Nat /\ due \in Nat /\ now \in Nat /\ pace \in Nat
  BY PollFields, Delays DEF Pace
<1>4. due >= at + pace
  BY <1>2 DEF QuotaInv, PaceInv
<1> HIDE DEF at, due, pace
<1>5. now - at >= pace
  BY <1>2, <1>3, <1>4
<1> QED
  BY <1>2, <1>5 DEF at, pace
=============================================================================
