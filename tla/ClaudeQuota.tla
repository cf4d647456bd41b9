----------------------------- MODULE ClaudeQuota -----------------------------
(***************************************************************************)
(* The Claude quota page of src/quota.go: two files other programs write,  *)
(* the optional live poller, the token counts the resident usage sampler   *)
(* stores, and requests that merge all of them into one short-lived cached *)
(* answer.  A reading is the time it was taken and the rows it has; a row  *)
(* is an id, and Api are the ids only the API shape knows (credits).       *)
(* Time counts the agent's shortest delay, 30 seconds.                     *)
(***************************************************************************)
EXTENDS Integers, FiniteSets, FiniteSetsExt

CONSTANTS
  Requests,       \* the dashboards' requests to /api/quota
  RowIds, Api,    \* the row ids, and those the status line never writes
  Shapes,         \* the sets of rows a source may carry
  Writers,        \* which of "status line", "widget" and "Claude Code" are at work
  StatusTTL, StaleAfter,
  StartupDelay, Interval, Backoff429, CredRetry,
  Polls,          \* whether -claude-quota-poll is set
  MaxTime,        \* bound: the clock stops here
  MaxActs         \* bound: files written, credentials changed, scans made

\* What is assumed of the constants.
QuotaAssumption ==
  /\ Api \subseteq RowIds /\ Shapes \subseteq SUBSET RowIds
  /\ Writers \subseteq {"status line", "widget", "Claude Code"}
  /\ {StatusTTL, StaleAfter, StartupDelay, Interval, Backoff429, CredRetry,
      MaxTime, MaxActs} \subseteq Nat \ {0}
  /\ Polls \in BOOLEAN
  /\ CredRetry <= Interval /\ Interval <= Backoff429

VARIABLES
  now,
  acts,           \* how many of the bounded acts have happened
  cacheFile, snapFile,
  credential,     \* what .credentials.json holds
  live, liveErr,  \* the last successful poll and the last failure
  poller,         \* the loop goroutine: where it is and when it goes on
  journal,        \* the last line the poll loop wrote
  tokens, tokenErr,
  scans,          \* history: the times of the successful transcript scans
  lastCall,       \* history: the last call to the usage endpoint
  cached,         \* statusCache and statusCacheAt (at = 0: none)
  req             \* per request: where it is and what it has read

vars == <<now, acts, cacheFile, snapFile, credential, live, liveErr, poller,
          journal, tokens, tokenErr, scans, lastCall, cached, req>>

world == <<cacheFile, snapFile, credential>>
polling == <<live, liveErr, poller, journal, lastCall>>
counting == <<tokens, tokenErr, scans>>

Times == 0..MaxTime
Reading == [at : Times, rows : SUBSET RowIds]
None == [at |-> 0, rows |-> {}]
File == [ok : {TRUE}, read : Reading] \cup [ok : {FALSE}, why : {"missing", "corrupt"}]
Credentials == {"unreadable", "none", "expired", "valid"}
Failures == {"unreadable", "none", "expired", "network", "limited", "rejected", "payload"}
Answers == {"ok", "network", "limited", "rejected"}

\* What parseQuotaSnapshot and parseQuotaLiveCache make of a file: rows without
\* a time are an error, and a window without a number is no row.
Parsed(stamped, rows) ==
  IF ~stamped /\ rows # {} THEN [ok |-> FALSE, why |-> "corrupt"]
  ELSE [ok |-> TRUE, read |-> [at |-> IF stamped THEN now ELSE 0, rows |-> rows]]

ReadOf(file) == IF file.ok THEN file.read ELSE None
Broken(file) == ~file.ok /\ file.why = "corrupt"

\* The freshest API-shaped contributor.
Base(cache, polled) ==
  IF cache.rows # {} /\ (polled.at = 0 \/ cache.at > polled.at) THEN cache ELSE polled

\* The merge of computeStatus: the rows shown, each with the time it was read
\* and whether its own age is written next to it, and the time reported.
Merge(base, snap) ==
  LET overlay == snap.rows # {} /\ (base.at = 0 \/ snap.at > base.at)
      alone   == snap.rows # {} /\ base.rows = {}
      over    == IF overlay \/ alone THEN snap.rows ELSE {}
  IN [rows |-> [id \in base.rows \cup over |->
                  IF id \in over THEN [at |-> snap.at, aged |-> FALSE]
                                 ELSE [at |-> base.at, aged |-> overlay]],
      fetchedAt |-> IF overlay \/ alone THEN snap.at ELSE base.at]

Status(start, cache, snap, polled, err, toks, tokFailed) ==
  LET merged == Merge(Base(ReadOf(cache), polled), ReadOf(snap))
      told == merged.fetchedAt # 0 /\ merged.fetchedAt <= start
      problems == (IF err # "" THEN {"live"} ELSE {})
                  \cup (IF Broken(cache) THEN {"cache"} ELSE {})
                  \cup (IF Broken(snap) THEN {"snapshot"} ELSE {})
      noData == IF DOMAIN merged.rows = {} /\ problems = {} THEN {"no data"} ELSE {}
  IN [rows |-> merged.rows,
      fetchedAt |-> IF told THEN merged.fetchedAt ELSE 0,
      stale |-> told /\ start - merged.fetchedAt > StaleAfter,
      tokens |-> toks,
      problems |-> problems \cup noData \cup (IF tokFailed THEN {"tokens"} ELSE {})]

NoStatus == [rows |-> [id \in {} |-> None], fetchedAt |-> 0, stale |-> FALSE,
             tokens |-> 0, problems |-> {}]
Idle == [at |-> "idle", start |-> 0, live |-> None, err |-> "",
         cache |-> [ok |-> FALSE, why |-> "missing"],
         snap |-> [ok |-> FALSE, why |-> "missing"], toks |-> 0, tokFailed |-> FALSE,
         answer |-> NoStatus]

Init ==
  /\ now = 1 /\ acts = 0
  /\ cacheFile = [ok |-> FALSE, why |-> "missing"]
  /\ snapFile = [ok |-> FALSE, why |-> "missing"]
  /\ credential \in IF "Claude Code" \in Writers THEN Credentials ELSE {"valid"}
  /\ live = None /\ liveErr = ""
  /\ poller = IF Polls THEN [at |-> "waiting", due |-> 1 + StartupDelay]
                        ELSE [at |-> "off", due |-> 0]
  /\ journal = ""
  /\ tokens = 0 /\ tokenErr = FALSE /\ scans = {}
  /\ lastCall = [at |-> 0, answer |-> ""]
  /\ cached = [at |-> 0, status |-> NoStatus]
  /\ req = [r \in Requests |-> Idle]

-----------------------------------------------------------------------------
(* The world outside: the clock, the status line, the widget, Claude Code.  *)

Tick == now < MaxTime /\ now' = now + 1
        /\ UNCHANGED <<acts, world, polling, counting, cached, req>>

Act == acts < MaxActs /\ acts' = acts + 1

Outside == Act /\ UNCHANGED <<now, polling, counting, cached, req>>

StatusLineWrites(rows, stamped) ==
  /\ "status line" \in Writers /\ Outside /\ snapFile' = Parsed(stamped, rows)
  /\ UNCHANGED <<cacheFile, credential>>

WidgetWrites(rows, stamped) ==
  /\ "widget" \in Writers /\ Outside /\ cacheFile' = Parsed(stamped, rows)
  /\ UNCHANGED <<snapFile, credential>>

CredentialChanges(c) ==
  /\ "Claude Code" \in Writers /\ Outside /\ credential' = c /\ c # credential
  /\ UNCHANGED <<snapFile, cacheFile>>

-----------------------------------------------------------------------------
(* The live poller.                                                         *)

\* What the loop does with one outcome: the journal line of quotaPollLogLine
\* and the wait before the next poll.  The reason the loop remembers between two
\* polls is the one in liveErr.
Ended(failure, wait) ==
  /\ liveErr' = failure
  /\ journal' = IF failure # "" /\ failure # liveErr THEN failure
                ELSE IF failure = "" /\ liveErr # "" THEN "recovered" ELSE journal
  /\ poller' = [at |-> "waiting", due |-> now + wait]
  /\ UNCHANGED <<now, acts, world, counting, cached, req>>

\* readQuotaAccessToken fails before anything is sent.
PollWithoutToken ==
  /\ poller.at = "waiting" /\ now >= poller.due /\ credential # "valid"
  /\ Ended(credential, CredRetry)
  /\ UNCHANGED <<live, lastCall>>

PollCalls ==
  /\ poller.at = "waiting" /\ now >= poller.due /\ credential = "valid"
  /\ poller' = [poller EXCEPT !.at = "calling"]
  /\ lastCall' = [at |-> now, answer |-> ""]
  /\ UNCHANGED <<now, acts, world, live, liveErr, journal, counting, cached, req>>

\* Mutant of WaitAfter: a rejected token is retried like a local failure.
WaitAfterRejected(answer) ==
  IF answer = "limited" THEN Backoff429
  ELSE IF answer = "rejected" THEN CredRetry ELSE Interval

\* The delay pollOnce asks for after a call that reached the network.
WaitAfter(answer) == IF answer = "limited" THEN Backoff429 ELSE Interval

PollAnswered(answer, rows) ==
  /\ poller.at = "calling"
  /\ lastCall' = [lastCall EXCEPT !.answer = answer]
  /\ IF answer = "ok" /\ rows # {}
       THEN Ended("", Interval) /\ live' = [at |-> now, rows |-> rows]
       ELSE Ended(IF answer = "ok" THEN "payload" ELSE answer, WaitAfter(answer))
            /\ UNCHANGED live

\* Stop is asked for at shutdown; the loop only listens while it waits.
PollerStops ==
  /\ poller.at = "waiting" /\ poller' = [at |-> "off", due |-> 0]
  /\ UNCHANGED <<now, acts, world, live, liveErr, journal, lastCall,
                 counting, cached, req>>

-----------------------------------------------------------------------------
(* The usage sampler's transcript scan, and the requests.                   *)

RefreshTokens(failed) ==
  /\ Act
  /\ tokens' = IF failed THEN tokens ELSE now
  /\ scans' = IF failed THEN scans ELSE scans \cup {now}
  /\ tokenErr' = failed
  /\ cached' = [cached EXCEPT !.at = 0]
  /\ UNCHANGED <<now, world, polling, req>>

Moves(r, from, to) == req[r].at = from /\ req' = [req EXCEPT ![r] = to]
                     /\ UNCHANGED <<now, acts, world, polling, counting>>

FromCache(r) ==
  /\ cached.at # 0 /\ now - cached.at < StatusTTL
  /\ Moves(r, "idle", [req[r] EXCEPT !.at = "served", !.start = now,
                                    !.answer = cached.status])
  /\ UNCHANGED cached

ReadLive(r) ==
  /\ cached.at = 0 \/ now - cached.at >= StatusTTL
  /\ Moves(r, "idle", [req[r] EXCEPT !.at = "cache", !.start = now, !.live = live,
                                    !.err = liveErr])
  /\ UNCHANGED cached

ReadCache(r) == Moves(r, "cache", [req[r] EXCEPT !.at = "snap", !.cache = cacheFile])
                /\ UNCHANGED cached
ReadSnap(r) == Moves(r, "snap", [req[r] EXCEPT !.at = "tokens", !.snap = snapFile])
               /\ UNCHANGED cached
ReadTokens(r) == Moves(r, "tokens", [req[r] EXCEPT !.at = "store", !.toks = tokens,
                                                  !.tokFailed = tokenErr])
                 /\ UNCHANGED cached

\* Mutant of StoredAt: the answer counts as new when it is stored.
StoredAtEnd(r) == now

\* The time an answer is stored under: that of its request, not of the store.
StoredAt(r) == req[r].start

Store(r) ==
  LET q == req[r]
      status == Status(q.start, q.cache, q.snap, q.live, q.err, q.toks, q.tokFailed)
  IN /\ Moves(r, "store", [Idle EXCEPT !.at = "served", !.start = q.start, !.answer = status])
     /\ cached' = [at |-> StoredAt(r), status |-> status]

Next ==
  \/ Tick
  \/ \E stamped \in BOOLEAN : \E rows \in Shapes :
       \/ StatusLineWrites(rows \ Api, stamped)
       \/ WidgetWrites(rows, stamped)
  \/ \E c \in Credentials : CredentialChanges(c)
  \/ PollWithoutToken
  \/ PollCalls
  \/ \E answer \in Answers : \E rows \in Shapes : PollAnswered(answer, rows)
  \/ PollerStops
  \/ \E failed \in BOOLEAN : RefreshTokens(failed)
  \/ \E r \in Requests : FromCache(r) \/ ReadLive(r) \/ ReadCache(r) \/ ReadSnap(r)
                         \/ ReadTokens(r) \/ Store(r)

Spec == Init /\ [][Next]_vars

-----------------------------------------------------------------------------
\* The shape of the checker's state.
TypeOK ==
  /\ now \in Times /\ acts \in 0..MaxActs
  /\ cacheFile \in File /\ snapFile \in File
  /\ credential \in Credentials
  /\ live \in Reading /\ liveErr \in Failures \cup {""}
  /\ poller \in [at : {"waiting", "calling", "off"}, due : Nat]
  /\ journal \in Failures \cup {"", "recovered"}
  /\ tokens \in Times /\ scans \subseteq Times

\* However reads, stores and invalidations of several requests interleave, an
\* answer lacks no transcript scan that was complete one cache lifetime before
\* it was asked for (quota.go Status, refreshTokenUsage).
AnswersFresh ==
  \A r \in Requests : req[r].at = "served" =>
    \A t \in scans : t <= req[r].start - StatusTTL => req[r].answer.tokens >= t

\* Every row of an answer that has a time is either of that time or shows its
\* own age: a reading from an older source is never passed off as a new one.
EveryRowDated ==
  \A r \in Requests : req[r].at = "served" =>
    LET a == req[r].answer IN
    a.fetchedAt # 0 =>
      \A id \in DOMAIN a.rows : a.rows[id].at = a.fetchedAt \/ a.rows[id].aged

\* The usage endpoint is called no faster than promised, whatever the
\* credentials, the answers and the dashboards do: one interval after any call,
\* and the longer backoff after one that was rate limited.
PollPaced ==
  [][lastCall'.at # lastCall.at /\ lastCall.at # 0 =>
       lastCall'.at - lastCall.at >=
         IF lastCall.answer = "limited" THEN Backoff429 ELSE Interval]_vars
=============================================================================
