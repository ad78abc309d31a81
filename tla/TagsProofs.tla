----------------------------- MODULE TagsProofs -----------------------------
(***************************************************************************)
(* What the functions of module Tags return, for every tag: the lemmas the *)
(* proofs about the loop of GetMaxTag and about the job rest on.           *)
(***************************************************************************)
EXTENDS Tags, TLAPS

Statuses == {"ok", "err", "panic"}

\* The tags the code writes as literals are tags.
LEMMA VersionIsTag ==
  ASSUME NEW p \in Prefixes, NEW a \in Nat, NEW b \in Nat, NEW c \in Nat
  PROVE  Version(p, a, b, c) \in Tag
BY DEF Version, Tag, NaN

\* So is the empty string.
LEMMA EmptyTagIsTag == EmptyTag \in Tag
<1>1. <<NaN>> \in Seq(Nat \cup {NaN})
  OBVIOUS
<1> QED
  BY <1>1, PrefixesAssumption DEF EmptyTag, Tag

\* The parts of a tag whose parts all convert are numbers.
LEMMA WellFormedParts ==
  ASSUME NEW tag \in Tag, NEW prefix, Malformed(tag, prefix) = {}
  PROVE  /\ Len(tag.parts) >= 3
         /\ tag.parts[1] \in Nat /\ tag.parts[2] \in Nat /\ tag.parts[3] \in Nat
<1>1. \A i \in 1..3 : Parses(tag, prefix, i)
  BY DEF Malformed
<1>2. Parses(tag, prefix, 1) /\ Parses(tag, prefix, 2) /\ Parses(tag, prefix, 3)
  BY <1>1
<1>3. tag.parts \in Seq(Nat \cup {NaN})
  BY DEF Tag
<1>4. Len(tag.parts) >= 3
  BY <1>2, <1>3 DEF Parses
<1>5. \A i \in 1..3 : tag.parts[i] \in Nat \cup {NaN}
  BY <1>3, <1>4
<1> QED
  BY <1>2, <1>4, <1>5 DEF Parses

\* The packed number is a natural number.
LEMMA PackedNat ==
  ASSUME NEW a \in Nat, NEW b \in Nat, NEW c \in Nat
  PROVE  10000 * a + 100 * b + c \in Nat
OBVIOUS

\* ConvertTagToNumeric answers with a natural number, and with 0 unless it
\* succeeds.
LEMMA ConvertType ==
  ASSUME NEW tag \in Tag, NEW prefix
  PROVE  /\ ConvertTagToNumeric(tag, prefix).status \in Statuses
         /\ ConvertTagToNumeric(tag, prefix).n \in Nat
         /\ ConvertTagToNumeric(tag, prefix).status # "ok" => ConvertTagToNumeric(tag, prefix).n = 0
<1>1. CASE Malformed(tag, prefix) = {}
  <2>0. tag.parts[1] \in Nat /\ tag.parts[2] \in Nat /\ tag.parts[3] \in Nat
    BY <1>1, WellFormedParts
  <2>1. 10000 * tag.parts[1] + 100 * tag.parts[2] + tag.parts[3] \in Nat
    BY <2>0, PackedNat
  <2>2. ConvertTagToNumeric(tag, prefix) =
          [status |-> "ok", n |-> 10000 * tag.parts[1] + 100 * tag.parts[2] + tag.parts[3]]
    BY <1>1 DEF ConvertTagToNumeric
  <2> QED
    BY <2>1, <2>2 DEF Statuses
<1>2. CASE Malformed(tag, prefix) # {}
  <2>1. \E s \in {"err", "panic"} : ConvertTagToNumeric(tag, prefix) = [status |-> s, n |-> 0]
    BY <1>2 DEF ConvertTagToNumeric
  <2> QED
    BY <2>1 DEF Statuses
<1> QED
  BY <1>1, <1>2

\* The value of a version.
LEMMA ConvertValue ==
  ASSUME NEW tag \in Tag, NEW prefix, ConvertTagToNumeric(tag, prefix).status = "ok"
  PROVE  /\ Malformed(tag, prefix) = {}
         /\ ConvertTagToNumeric(tag, prefix).n
              = 10000 * tag.parts[1] + 100 * tag.parts[2] + tag.parts[3]
BY DEF ConvertTagToNumeric

\* The empty string is no version.
LEMMA EmptyTagIsNoVersion ==
  ASSUME NEW prefix
  PROVE  ConvertTagToNumeric(EmptyTag, prefix).status # "ok"
<1>1. EmptyTag.parts[1] = NaN
  BY DEF EmptyTag
<1>2. 1 \in Malformed(EmptyTag, prefix)
  BY <1>1 DEF Malformed, Parses
<1> QED
  BY <1>2 DEF ConvertTagToNumeric

\* CompareTwoTags answers 1 for two versions in ascending order.
LEMMA CompareLess ==
  ASSUME NEW t \in Tag, NEW u \in Tag, NEW prefix,
         CompareTwoTags(t, u, prefix) = [status |-> "ok", n |-> 1]
  PROVE  /\ ConvertTagToNumeric(t, prefix).status = "ok"
         /\ ConvertTagToNumeric(u, prefix).status = "ok"
         /\ ConvertTagToNumeric(t, prefix).n < ConvertTagToNumeric(u, prefix).n
<1> DEFINE one == ConvertTagToNumeric(t, prefix)
           two == ConvertTagToNumeric(u, prefix)
<1>1. /\ one.status \in Statuses /\ one.n \in Nat /\ (one.status # "ok" => one.n = 0)
      /\ two.status \in Statuses /\ two.n \in Nat /\ (two.status # "ok" => two.n = 0)
  BY ConvertType
<1>2. one.status # "panic"
  BY <1>1 DEF CompareTwoTags
<1>3. one.status # "err"
  BY DEF CompareTwoTags
<1>4. one.status = "ok"
  BY <1>1, <1>2, <1>3 DEF Statuses
<1>5. two.status # "panic"
  BY <1>1, <1>4 DEF CompareTwoTags
<1>6. two.status # "err"
  BY <1>4 DEF CompareTwoTags
<1>7. two.status = "ok"
  BY <1>1, <1>5, <1>6 DEF Statuses
<1>8. 1 = IF one.n = two.n THEN 0 ELSE IF one.n > two.n THEN -1 ELSE 1
  BY <1>4, <1>7 DEF CompareTwoTags
<1> QED
  BY <1>1, <1>4, <1>7, <1>8

\* GetImageTag answers with a tag.
LEMMA ImageTagType ==
  ASSUME NEW tag \in Tag, NEW prefix
  PROVE  /\ ImageTagOf(tag, prefix).status \in {"ok", "panic"}
         /\ ImageTagOf(tag, prefix).tag \in Tag
<1>1. CASE prefix # "" /\ ImageMatches(tag, prefix)
  <2>1. tag.parts \in Seq(Nat \cup {NaN}) /\ tag.prefix \in Prefixes
    BY DEF Tag
  <2>2. Len(tag.parts) >= 3 /\ \A i \in 1..3 : tag.parts[i] # NaN
    BY <1>1 DEF ImageMatches
  <2>3. tag.parts[1] \in Nat /\ tag.parts[2] \in Nat /\ tag.parts[3] \in Nat
    BY <2>1, <2>2
  <2>4. FirstTwoDigits(tag.parts[3]) \in Nat
    BY <2>3 DEF FirstTwoDigits
  <2>5. Version(tag.prefix, tag.parts[1], tag.parts[2], FirstTwoDigits(tag.parts[3])) \in Tag
    BY <2>1, <2>3, <2>4, VersionIsTag
  <2>6. ImageTagOf(tag, prefix) =
          [status |-> "ok",
           tag |-> Version(tag.prefix, tag.parts[1], tag.parts[2], FirstTwoDigits(tag.parts[3]))]
    BY <1>1 DEF ImageTagOf
  <2> QED
    BY <2>5, <2>6
<1>2. CASE prefix # "" /\ ~ImageMatches(tag, prefix)
  <2>1. ImageTagOf(tag, prefix) = [status |-> "ok", tag |-> Version("v", 0, 0, 0)]
    BY <1>2 DEF ImageTagOf
  <2>2. Version("v", 0, 0, 0) \in Tag
    BY VersionIsTag, PrefixesAssumption
  <2> QED
    BY <2>1, <2>2
<1>3. CASE prefix = ""
  BY <1>3, EmptyTagIsTag DEF ImageTagOf
<1> QED
  BY <1>1, <1>2, <1>3

\* The answers of GetMaxTag: a successful one is a listed tag not above the
\* limit, or the default v1.0.0, with the value of that tag.
LEMMA MaxTagAnswersType ==
  ASSUME NEW tags, tags \subseteq Tag, NEW limit \in Tag, NEW prefix,
         NEW a \in MaxTagAnswers(tags, limit, prefix)
  PROVE  /\ a.n \in Int /\ a.tag \in Tag
         /\ a.status = "ok" =>
              /\ a.n = ConvertTagToNumeric(a.tag, prefix).n
              /\ \/ a.tag = Version("v", 1, 0, 0)
                 \/ a.tag \in tags /\ a.n <= ScanLimit(limit, prefix).n
<1> DEFINE Num(t) == ConvertTagToNumeric(t, prefix).n
           bad    == {t \in tags : ConvertTagToNumeric(t, prefix).status # "ok"}
           fit    == Eligible(tags, limit, prefix)
           best   == {u \in fit : \A w \in fit : Num(w) <= Num(u)}
<1>1. Version("v", 1, 0, 0) \in Tag
  BY VersionIsTag, PrefixesAssumption
<1>2. \/ a = ScanFails("panic")
      \/ \E t \in bad : a = ScanFails(ConvertTagToNumeric(t, prefix).status)
      \/ a = ScanStart(prefix)
      \/ \E t \in best : a = [status |-> "ok", n |-> Num(t), tag |-> t]
  BY DEF MaxTagAnswers
<1>3. CASE a = ScanFails("panic")
  BY <1>3, EmptyTagIsTag DEF ScanFails
<1>4. CASE \E t \in bad : a = ScanFails(ConvertTagToNumeric(t, prefix).status)
  BY <1>4, EmptyTagIsTag DEF ScanFails
<1>5. CASE a = ScanStart(prefix)
  <2>1. a = [status |-> "ok", n |-> ConvertTagToNumeric(Version("v", 1, 0, 0), prefix).n,
             tag |-> Version("v", 1, 0, 0)]
    BY <1>5 DEF ScanStart
  <2>2. ConvertTagToNumeric(Version("v", 1, 0, 0), prefix).n \in Nat
    BY <1>1, ConvertType
  <2> QED
    BY <1>1, <2>1, <2>2
<1>6. CASE \E t \in best : a = [status |-> "ok", n |-> Num(t), tag |-> t]
  <2>1. PICK t \in best : a = [status |-> "ok", n |-> Num(t), tag |-> t]
    BY <1>6
  <2>2. t \in tags /\ Num(t) <= ScanLimit(limit, prefix).n
    BY DEF Eligible
  <2>3. Num(t) \in Nat
    BY <2>2, ConvertType
  <2> QED
    BY <2>1, <2>2, <2>3
<1> QED
  BY <1>2, <1>3, <1>4, <1>5, <1>6

\* With more tags listed, the greatest tag is as great or greater.
LEMMA MaxTagAnswersGrow ==
  ASSUME NEW tags, NEW more, tags \subseteq more, more \subseteq Tag, NEW limit \in Tag, NEW prefix,
         NEW a \in MaxTagAnswers(tags, limit, prefix), a.status = "ok",
         NEW b \in MaxTagAnswers(more, limit, prefix), b.status = "ok"
  PROVE  a.n <= b.n
<1> DEFINE Num(t)  == ConvertTagToNumeric(t, prefix).n
           Fit(S)  == Eligible(S, limit, prefix)
           Best(S) == {u \in Fit(S) : \A w \in Fit(S) : Num(w) <= Num(u)}
           Bad(S)  == {t \in S : ConvertTagToNumeric(t, prefix).status # "ok"}
<1>1. Version("v", 1, 0, 0) \in Tag
  BY VersionIsTag, PrefixesAssumption
<1>2. ScanStart(prefix).n \in Nat
  BY <1>1, ConvertType DEF ScanStart
<1>3. ASSUME NEW S, S \subseteq Tag, NEW x \in MaxTagAnswers(S, limit, prefix), x.status = "ok"
      PROVE  \/ x = ScanStart(prefix) /\ Fit(S) = {}
             \/ \E t \in Best(S) : x.n = Num(t)
  <2>1. x # ScanFails("panic")
    BY <1>3 DEF ScanFails
  <2>2. \A t \in Bad(S) : x # ScanFails(ConvertTagToNumeric(t, prefix).status)
    BY <1>3 DEF ScanFails
  <2> QED
    BY <1>3, <2>1, <2>2 DEF MaxTagAnswers
<1>4. Fit(tags) \subseteq Fit(more)
  BY DEF Eligible
<1>5. \A t \in Fit(more) : Num(t) \in Nat /\ ScanStart(prefix).n <= Num(t)
  <2> TAKE t \in Fit(more)
  <2>1. t \in Tag /\ Num(t) > ScanStart(prefix).n
    BY DEF Eligible
  <2> QED
    BY <1>2, <2>1, ConvertType
<1> HIDE DEF Num, Fit
<1>6. CASE b = ScanStart(prefix) /\ Fit(more) = {}
  BY <1>2, <1>3, <1>4, <1>6
<1>7. CASE \E t \in Best(more) : b.n = Num(t)
  <2>1. PICK t \in Best(more) : b.n = Num(t)
    BY <1>7
  <2>2. t \in Fit(more) /\ \A w \in Fit(more) : Num(w) <= Num(t)
    BY <2>1
  <2>3. a = ScanStart(prefix) \/ \E u \in Fit(tags) : a.n = Num(u)
    BY <1>3
  <2> QED
    BY <1>4, <1>5, <2>1, <2>2, <2>3
<1> QED
  BY <1>3, <1>6, <1>7
=============================================================================
