------------------------------ MODULE Versions ------------------------------
(***************************************************************************)
(* Which release is newer (update.go: parseSemver, compareSemver,          *)
(* comparePrerelease, isVersionNewer), and the sequence of updates a host  *)
(* goes through when what the channel calls its latest release is whatever *)
(* its maintainers make of it, a withdrawn or an ill-named one included.   *)
(*                                                                         *)
(* A tag is the numbers before its suffix and the identifiers of the       *)
(* suffix; the leading v and the build metadata are gone.                  *)
(***************************************************************************)
EXTENDS Integers, Sequences

CONSTANTS
  Tags,        \* what a release may be called
  Identifiers, \* of suffixes
  Value,       \* the number an identifier is read as, or NaN
  Spelling,    \* the place of an identifier in the order of strings
  NaN,         \* what is not a number without a leading zero that fits an int
  MaxUpdates   \* bound: updates of one host

VersionsAssumption ==
  /\ NaN \notin Nat
  /\ Value \in [Identifiers -> Nat \cup {NaN}]
  /\ Spelling \in [Identifiers -> Nat]
  /\ Tags \subseteq [numbers : Seq(Nat \cup {NaN}), suffix : Seq(Identifiers)]
  /\ MaxUpdates \in Nat

VARIABLES
  latest,     \* what the channel calls its latest release
  installed   \* history: the versions this host ran, the running one last

vars == <<latest, installed>>

current == installed[Len(installed)]

-----------------------------------------------------------------------------
\* parseSemver: one to three numbers, the missing ones being zero.
WellFormed(tag) ==
  /\ Len(tag.numbers) \in 1..3
  /\ \A i \in 1..Len(tag.numbers) : tag.numbers[i] # NaN

Number(tag, i) == IF i <= Len(tag.numbers) THEN tag.numbers[i] ELSE 0

CmpInt(x, y) == IF x < y THEN -1 ELSE IF x > y THEN 1 ELSE 0

\* Mutant of CompareIdentifiers: as strings where one of them is not a number.
CompareIdentifiersMixed(x, y) ==
  IF Value[x] # NaN /\ Value[y] # NaN THEN CmpInt(Value[x], Value[y])
  ELSE CmpInt(Spelling[x], Spelling[y])

\* One identifier of comparePrerelease: numbers before words, numbers by value,
\* words by their letters.
CompareIdentifiers(x, y) ==
  IF (Value[x] = NaN) # (Value[y] = NaN) THEN IF Value[y] = NaN THEN -1 ELSE 1
  ELSE IF Value[x] # NaN THEN CmpInt(Value[x], Value[y])
  ELSE CmpInt(Spelling[x], Spelling[y])

\* comparePrerelease: the first identifier that differs decides, then the length.
Differ(a, b) ==
  {i \in 1..Len(a) : i <= Len(b) /\ CompareIdentifiers(a[i], b[i]) # 0}

ComparePrerelease(a, b) ==
  IF Differ(a, b) = {} THEN CmpInt(Len(a), Len(b))
  ELSE IF \E i \in Differ(a, b) : /\ \A j \in Differ(a, b) : i <= j
                                 /\ CompareIdentifiers(a[i], b[i]) > 0
       THEN 1 ELSE -1

CompareSuffix(a, b) ==
  IF a = <<>> \/ b = <<>> THEN (IF b # <<>> THEN 1 ELSE IF a # <<>> THEN -1 ELSE 0)
  ELSE ComparePrerelease(a, b)

\* compareSemver.
Compare(a, b) ==
  IF Number(a, 1) # Number(b, 1) THEN CmpInt(Number(a, 1), Number(b, 1))
  ELSE IF Number(a, 2) # Number(b, 2) THEN CmpInt(Number(a, 2), Number(b, 2))
  ELSE IF Number(a, 3) # Number(b, 3) THEN CmpInt(Number(a, 3), Number(b, 3))
  ELSE CompareSuffix(a.suffix, b.suffix)

\* isVersionNewer: a tag that cannot be read is neither newer nor older.
IsVersionNewer(candidate, tag) ==
  WellFormed(candidate) /\ WellFormed(tag) /\ Compare(candidate, tag) > 0

-----------------------------------------------------------------------------
TypeOK ==
  /\ latest \in Tags
  /\ installed \in Seq(Tags) /\ installed # <<>>

Init ==
  /\ latest \in Tags
  /\ \E tag \in Tags : installed = <<tag>>

\* The channel: a release is published, renamed or withdrawn.
Publish ==
  /\ latest' \in Tags
  /\ UNCHANGED installed

\* ApplyNow asks the channel and hands a newer release to the helper, which
\* replaces the binary.
ApplyNow ==
  /\ Len(installed) <= MaxUpdates
  /\ IsVersionNewer(latest, current)
  /\ installed' = Append(installed, latest)
  /\ UNCHANGED latest

Next == Publish \/ ApplyNow

Spec == Init /\ [][Next]_vars

-----------------------------------------------------------------------------
\* No chain of updates, whatever the channel shows in between, brings a host
\* back to a version it ran before or to an older one: the order that two
\* versions are compared by has no cycles (isVersionNewer, ApplyNow).
NeverBackwards ==
  \A i, j \in 1..Len(installed) :
    i < j => /\ IsVersionNewer(installed[j], installed[i])
             /\ ~IsVersionNewer(installed[i], installed[j])

\* The precedence of semantic versioning (semver.org, rule 11), which update.go
\* refers to: a version is the list of its numbers and identifiers, a release
\* ends above every identifier and a suffix below every one, and the first place
\* where two lists differ decides.
Ranks(tag) ==
  [i \in 1..3 |-> <<0, Number(tag, i)>>]
  \o [i \in 1..Len(tag.suffix) |->
        IF Value[tag.suffix[i]] # NaN THEN <<1, Value[tag.suffix[i]]>>
        ELSE <<2, Spelling[tag.suffix[i]]>>]
  \o << <<IF tag.suffix = <<>> THEN 3 ELSE 0, 0>> >>

Below(x, y) == x[1] < y[1] \/ (x[1] = y[1] /\ x[2] < y[2])

Precedes(a, b) ==
  \E k \in 1..Len(Ranks(a)) :
    /\ k <= Len(Ranks(b))
    /\ Below(Ranks(a)[k], Ranks(b)[k])
    /\ \A i \in 1..(k - 1) : Ranks(a)[i] = Ranks(b)[i]

\* The comparison is that precedence, and leaves no two readable versions of
\* different precedence undecided (update.go: compareSemver).
PrecedenceKept ==
  WellFormed(latest) /\ WellFormed(current) =>
    /\ IsVersionNewer(latest, current) <=> Precedes(current, latest)
    /\ IsVersionNewer(current, latest) <=> Precedes(latest, current)
    /\ Ranks(latest) = Ranks(current) <=> Compare(latest, current) = 0
=============================================================================
