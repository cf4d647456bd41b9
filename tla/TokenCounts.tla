---------------------------- MODULE TokenCounts ------------------------------
(***************************************************************************)
(* The tokens-per-day charts (src/token_usage.go:20-333), counted from the *)
(* transcripts that Claude Code and Codex append to while they are read.   *)
(* Claude repeats a response in several records and copies records into    *)
(* the transcript of a session that is continued elsewhere; Codex writes a *)
(* cumulative count that may start again.  The last record of a transcript *)
(* may be half written, and a day may end between two records.             *)
(***************************************************************************)
EXTENDS Integers, Sequences, FiniteSets, SequencesExt

CONSTANTS Files,      \* transcripts
          Days,       \* tokenUsageDays: length of the chart
          MaxDay,     \* bound: the last day
          MaxTokens,  \* bound: tokens of one response
          MaxRecords  \* bound: records in all transcripts

\* What is assumed of the constants.
TokenAssumption ==
  /\ IsFiniteSet(Files) /\ {Days, MaxDay, MaxTokens, MaxRecords} \subseteq Nat \ {0}

VARIABLES
  codex,     \* whose transcripts: Codex's or Claude Code's
  today,
  log,       \* the complete records of each transcript
  open,      \* transcripts that end in a half written record
  touched,   \* day each transcript was last written to; 0: not there
  restarted, \* transcripts whose cumulative count has started again
  used,      \* history: the tokens used on each day
  chart      \* the last scan's counts, while nothing has changed since

vars == <<codex, today, log, open, touched, restarted, used, chart>>

NoChart == <<>>
Calendar == 1..MaxDay
Records == SumFunction([f \in Files |-> Len(log[f])])

Init ==
  /\ codex \in BOOLEAN /\ today = 1
  /\ log = [f \in Files |-> <<>>] /\ open = {} /\ restarted = {}
  /\ touched = [f \in Files |-> 0]
  /\ used = [d \in Calendar |-> 0] /\ chart = NoChart

-----------------------------------------------------------------------------
(* The writers.                                                             *)

Midnight ==
  /\ today < MaxDay /\ today' = today + 1
  /\ chart' = NoChart /\ UNCHANGED <<codex, log, open, touched, restarted, used>>

Write(f, record) ==
  /\ Records < MaxRecords
  /\ log' = [log EXCEPT ![f] = Append(@, record)]
  /\ open' = open \ {f} /\ touched' = [touched EXCEPT ![f] = today] /\ chart' = NoChart
  /\ UNCHANGED <<codex, today>>

\* A response is one request; the requests are numbered as they come.
Respond(f, n) ==
  LET total == IF log[f] = <<>> THEN 0 ELSE Last(log[f]).tokens
      record == [day |-> today, request |-> Records + 1,
                 tokens |-> IF codex THEN total + n ELSE n]
  IN /\ Write(f, record) /\ used' = [used EXCEPT ![today] = @ + n]
     /\ UNCHANGED restarted

\* Codex starts its count again, at the tokens of this response.
Restart(f, n) ==
  /\ codex /\ log[f] # <<>>
  /\ Write(f, [day |-> today, request |-> Records + 1, tokens |-> n])
  /\ used' = [used EXCEPT ![today] = @ + n] /\ restarted' = restarted \cup {f}

\* A record that is written again: the next block of a response, a count that
\* has not changed, or a session that goes on in another transcript.
Repeat(f, g) ==
  /\ log[f] # <<>> /\ (codex => f = g)
  /\ Write(g, Last(log[f])) /\ UNCHANGED <<used, restarted>>

HalfWrite(f) ==
  /\ f \notin open /\ open' = open \cup {f}
  /\ touched' = [touched EXCEPT ![f] = today]
  /\ chart' = NoChart /\ UNCHANGED <<codex, today, log, restarted, used>>

-----------------------------------------------------------------------------
(* The scan.                                                                *)

Start == today - Days + 1
InRange(r) == r.day \in Start..today

\* Transcripts nobody wrote to since the chart begins are not opened.
RecentFiles == {f \in Files : touched[f] > 0 /\ touched[f] >= Start}

\* The tokens of these records that are of day d.
Spent(rs, d) == SumFunction([r \in {x \in rs : x.day = d} |-> r.tokens])

\* Mutant of ScanClaude: repeats are looked for in one transcript at a time.
ScanClaudeFileByFile ==
  LET once(f) == {r \in ToSet(log[f]) : InRange(r)}
  IN [d \in Calendar |-> SumFunction([f \in RecentFiles |-> Spent(once(f), d)])]

\* One usage record for each request, wherever it is repeated.
ScanClaude ==
  LET once == {r \in UNION {ToSet(log[f]) : f \in RecentFiles} : InRange(r)}
  IN [d \in Calendar |-> Spent(once, d)]

\* A count below the one before it started again.
Delta(previous, current) == IF current < previous THEN current ELSE current - previous

\* What record i of a transcript adds to the count of the record before it.
Growth(f, i) == Delta(IF i = 1 THEN 0 ELSE log[f][i - 1].tokens, log[f][i].tokens)

\* What the transcripts grew by on day d.
Grown(files, d) ==
  LET entries == UNION {{f} \X DOMAIN log[f] : f \in files}
  IN SumFunction([e \in {x \in entries : log[x[1]][x[2]].day = d} |-> Growth(e[1], e[2])])

\* Records before the chart only move the count the next is compared with.
ScanCodex ==
  [d \in Calendar |-> IF d \in Start..today THEN Grown(RecentFiles, d) ELSE 0]

Scan ==
  /\ chart' = IF codex THEN ScanCodex ELSE ScanClaude
  /\ UNCHANGED <<codex, today, log, open, touched, restarted, used>>

Next ==
  \/ Midnight
  \/ \E f \in Files, n \in 1..MaxTokens : Respond(f, n)
  \/ \E f \in Files, n \in 1..MaxTokens : Restart(f, n)
  \/ \E f, g \in Files : Repeat(f, g)
  \/ \E f \in Files : HalfWrite(f)
  \/ Scan

Spec == Init /\ [][Next]_vars

-----------------------------------------------------------------------------
(* Properties.                                                              *)

\* Every completed response counts once, on the day it was made: however often
\* it was written, in whichever transcripts, and whatever day the session began
\* (token_usage.go:93-95, 202-203).  A count that started again may hide what
\* it stood for, but never adds any.
TokensCountedOnce ==
  chart # NoChart =>
    \A d \in Calendar \cap (Start..today) :
      IF restarted = {} THEN chart[d] = used[d] ELSE chart[d] <= used[d]
=============================================================================
