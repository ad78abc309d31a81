------------------------------- MODULE TagScan -------------------------------
(***************************************************************************)
(* The loop of GetMaxTag (lib.go), one action per tag it looks at.  The    *)
(* tags come from go-git in the order it iterates over the references,     *)
(* which the code does not choose: every sequence is an input.             *)
(***************************************************************************)
EXTENDS Tags

CONSTANTS
  TagSeqs,    \* the listings of tags the repository may return
  MaxTags     \* values of GIT_MAX_TAG

ASSUME InputsAssumption ==
  /\ TagSeqs \subseteq Seq(Tag)
  /\ MaxTags \subseteq Tag

VARIABLES
  tags, maxTagValue, prefix,   \* the arguments
  i,                           \* tags looked at so far
  nMaxTag, tagString,          \* the best one so far
  status                       \* "scan", then how the call ended

vars == <<tags, maxTagValue, prefix, i, nMaxTag, tagString, status>>

TypeOK ==
  /\ tags \in TagSeqs /\ maxTagValue \in MaxTags /\ prefix \in Prefixes
  /\ i \in 0..Len(tags)
  /\ nMaxTag \in Int
  /\ tagString \in Tag
  /\ status \in {"scan", "ok", "err", "panic"}

Init ==
  /\ tags \in TagSeqs /\ maxTagValue \in MaxTags /\ prefix \in Prefixes
  /\ i = 0
  /\ LET start == ScanStart(prefix)
         fails == ScanLimit(maxTagValue, prefix).status = "panic"
     IN  /\ status = IF fails THEN "panic" ELSE "scan"
         /\ nMaxTag = IF fails THEN -1 ELSE start.n
         /\ tagString = IF fails THEN EmptyTag ELSE start.tag

\* Mutant: the limit is forgotten.
BeatsWithoutLimit(n, best, limit) == n > best

\* A tag replaces the best one if it is greater and not above the limit.
Beats(n, best, limit) == n > best /\ n <= limit

\* Mutant: the loop steps over a tag.
LookAtEveryOther ==
  /\ status = "scan" /\ i < Len(tags)
  /\ i' = i + 2
  /\ UNCHANGED <<tags, maxTagValue, prefix, nMaxTag, tagString, status>>

\* The body of the loop for the next tag.
Look ==
  LET tag == tags[i + 1]
      num == ConvertTagToNumeric(tag, prefix)
      better == Beats(num.n, nMaxTag, ScanLimit(maxTagValue, prefix).n)
  IN  /\ status = "scan" /\ i < Len(tags)
      /\ i' = i + 1
      /\ status' = IF num.status = "ok" THEN "scan" ELSE num.status
      /\ nMaxTag' = IF num.status # "ok" THEN -1 ELSE IF better THEN num.n ELSE nMaxTag
      /\ tagString' = IF num.status # "ok" THEN EmptyTag ELSE IF better THEN tag ELSE tagString
      /\ UNCHANGED <<tags, maxTagValue, prefix>>

Return ==
  /\ status = "scan" /\ i = Len(tags)
  /\ status' = "ok"
  /\ UNCHANGED <<tags, maxTagValue, prefix, i, nMaxTag, tagString>>

Next == Look \/ Return

Spec == Init /\ [][Next]_vars

-----------------------------------------------------------------------------
Listed == {tags[k] : k \in DOMAIN tags}

\* Whatever the order in which the repository lists its tags, GetMaxTag
\* answers with the greatest version not above the limit, with its default
\* when there is none, and fails as soon as one tag is not a version.
AnswerIsMaximum ==
  status # "scan" =>
    [status |-> status, n |-> nMaxTag, tag |-> tagString]
      \in MaxTagAnswers(Listed, maxTagValue, prefix)

InRange(t) == Len(t.parts) = 3 /\ \A k \in 1..3 : t.parts[k] \in 0..99

Precedes(t, u) ==
  \E k \in 1..3 : t.parts[k] < u.parts[k] /\ \A j \in 1..(k - 1) : t.parts[j] = u.parts[j]

\* Comparing the packed numbers orders versions part by part as long as no
\* part exceeds 99, the limit the comment in ConvertTagToNumeric names.
PackingKeepsOrder ==
  \A t, u \in Listed :
    (InRange(t) /\ InRange(u) /\ PrefixGoes(t, prefix) /\ PrefixGoes(u, prefix)) =>
      (Precedes(t, u) <=> CompareTwoTags(t, u, prefix).n = 1)
=============================================================================
