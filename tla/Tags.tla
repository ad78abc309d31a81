-------------------------------- MODULE Tags --------------------------------
(***************************************************************************)
(* Version tags and the pure functions lib.go computes on them.            *)
(*                                                                         *)
(* A tag is abstracted to the prefix it starts with and the parts that     *)
(* strings.Split(rest, ".") yields.  A numeric part is its value; a part   *)
(* that strconv.Atoi rejects is NaN.  The empty string is the tag without  *)
(* a prefix whose only part is NaN, since Split("", ".") has one part, "". *)
(* A call answers [status, ...]: "ok", "err" (an error is returned) or     *)
(* "panic" (a slice index out of range, a regexp that does not compile).   *)
(***************************************************************************)
EXTENDS Integers, Sequences

CONSTANT Prefixes    \* what tags and GIT_TAG_PREFIX may start with

\* No prefix, and the one the literals of lib.go have, are possible.
ASSUME PrefixesAssumption == {"", "v"} \subseteq Prefixes

NaN == -1

\* Every tag, version or not.
Tag == [prefix : Prefixes, parts : Seq(Nat \cup {NaN})]

EmptyTag == [prefix |-> "", parts |-> <<NaN>>]

\* The tag a program literal such as "v1.0.0" denotes.
Version(prefix, major, minor, patch) ==
  [prefix |-> prefix, parts |-> <<major, minor, patch>>]

\* strings.TrimPrefix leaves a number at the front only if the tag starts
\* with the prefix of the job or with no prefix at all.
PrefixGoes(tag, prefix) == tag.prefix \in {"", prefix}

\* Part i exists and strconv.Atoi accepts it.
Parses(tag, prefix, i) ==
  /\ i <= Len(tag.parts)
  /\ tag.parts[i] # NaN
  /\ i = 1 => PrefixGoes(tag, prefix)

Malformed(tag, prefix) == {i \in 1..3 : ~Parses(tag, prefix, i)}

\* Mutant: the minor number gets one decimal digit instead of two.
ConvertWithNarrowMinor(tag, prefix) ==
  IF Malformed(tag, prefix) = {}
    THEN [status |-> "ok",
          n |-> 10000 * tag.parts[1] + 10 * tag.parts[2] + tag.parts[3]]
    ELSE [status |-> "err", n |-> 0]

\* The parts are converted in order: the first one that does not convert
\* decides, an error if it is there and an index out of range if it is not.
ConvertTagToNumeric(tag, prefix) ==
  LET bad == Malformed(tag, prefix)
      missing == \E i \in bad : i > Len(tag.parts) /\ \A j \in bad : i <= j
  IN  IF bad = {}
        THEN [status |-> "ok",
              n |-> 10000 * tag.parts[1] + 100 * tag.parts[2] + tag.parts[3]]
        ELSE [status |-> IF missing THEN "panic" ELSE "err", n |-> 0]

\* 0: equal, -1: tag1 is greater, 1: tag1 is less, -2 and -3: one of them is
\* not a version.
CompareTwoTags(tag1, tag2, prefix) ==
  LET one == ConvertTagToNumeric(tag1, prefix)
      two == ConvertTagToNumeric(tag2, prefix)
  IN  CASE one.status = "panic" -> one
        [] one.status = "err" -> [status |-> "err", n |-> -2]
        [] one.status = "ok" /\ two.status = "panic" -> two
        [] one.status = "ok" /\ two.status = "err" -> [status |-> "err", n |-> -3]
        [] one.status = "ok" /\ two.status = "ok" ->
             [status |-> "ok",
              n |-> IF one.n = two.n THEN 0 ELSE IF one.n > two.n THEN -1 ELSE 1]

-----------------------------------------------------------------------------
(***************************************************************************)
(* GetMaxTag: what it starts from, and the answers its loop may give for a *)
(* set of tags listed in any order.  Module TagScan has the loop itself.   *)
(***************************************************************************)
ScanStart(prefix) ==
  LET first == Version("v", 1, 0, 0)
  IN  [status |-> "ok", n |-> ConvertTagToNumeric(first, prefix).n, tag |-> first]

ScanLimit(maxTagValue, prefix) ==
  ConvertTagToNumeric(
    IF maxTagValue = EmptyTag THEN Version("v", 99, 99, 99) ELSE maxTagValue, prefix)

ScanFails(status) == [status |-> status, n |-> -1, tag |-> EmptyTag]

\* Mutant: the limit is forgotten.
EligibleWithoutLimit(tags, maxTagValue, prefix) ==
  {t \in tags : ConvertTagToNumeric(t, prefix).n > ScanStart(prefix).n}

Eligible(tags, maxTagValue, prefix) ==
  {t \in tags : /\ ConvertTagToNumeric(t, prefix).n > ScanStart(prefix).n
                /\ ConvertTagToNumeric(t, prefix).n <= ScanLimit(maxTagValue, prefix).n}

MaxTagAnswers(tags, maxTagValue, prefix) ==
  LET Num(t) == ConvertTagToNumeric(t, prefix).n
      bad    == {t \in tags : ConvertTagToNumeric(t, prefix).status # "ok"}
      fit    == Eligible(tags, maxTagValue, prefix)
  IN  IF ScanLimit(maxTagValue, prefix).status = "panic" THEN {ScanFails("panic")}
      ELSE IF bad # {} THEN {ScanFails(ConvertTagToNumeric(t, prefix).status) : t \in bad}
      ELSE IF fit = {} THEN {ScanStart(prefix)}
      ELSE {[status |-> "ok", n |-> Num(t), tag |-> t] :
              t \in {u \in fit : \A w \in fit : Num(w) <= Num(u)}}

-----------------------------------------------------------------------------
(***************************************************************************)
(* Tags read back from the cluster.                                        *)
(***************************************************************************)

\* \d{1,2} takes the first two digits of a number of up to four digits, the
\* widest part the models use.
FirstTwoDigits(n) == IF n < 100 THEN n ELSE IF n < 1000 THEN n \div 10 ELSE n \div 100

\* The image pattern is image:(prefix?\d{1,2}\.\d{1,2}\.\d{1,2}): the "?"
\* binds to the last character of the prefix, so the one-letter prefix "v"
\* may be absent; nothing anchors the end, so a long patch number is cut
\* short; an empty prefix gives "(?\d", which is no regular expression.
ImageMatches(tag, prefix) ==
  /\ tag.prefix = prefix \/ (prefix = "v" /\ tag.prefix = "")
  /\ Len(tag.parts) >= 3
  /\ \A i \in 1..3 : tag.parts[i] # NaN
  /\ tag.parts[1] < 100 /\ tag.parts[2] < 100

\* An image that does not match is taken for v0.0.0, whatever the prefix is.
ImageTagOf(tag, prefix) ==
  LET p == tag.parts
  IN  IF prefix = "" THEN [status |-> "panic", tag |-> EmptyTag]
      ELSE IF ImageMatches(tag, prefix)
        THEN [status |-> "ok", tag |-> Version(tag.prefix, p[1], p[2], FirstTwoDigits(p[3]))]
        ELSE [status |-> "ok", tag |-> Version("v", 0, 0, 0)]

\* grep "deployment.*image:tag" finds the line of every image tag the text
\* of tag is the beginning of: v1.0.1 is found in v1.0.10.
GrepMatches(imageTag, tag) ==
  \/ imageTag = tag
  \/ /\ imageTag.prefix = tag.prefix
     /\ Len(imageTag.parts) >= 3 /\ Len(tag.parts) = 3
     /\ \A i \in 1..3 : imageTag.parts[i] # NaN /\ tag.parts[i] # NaN
     /\ \A i \in 1..2 : imageTag.parts[i] = tag.parts[i]
     /\ \/ imageTag.parts[3] = tag.parts[3]
        \/ /\ tag.parts[3] > 0
           /\ \E k \in {10, 100, 1000} : imageTag.parts[3] \div k = tag.parts[3]
=============================================================================
