--------------------------- MODULE TagScanProofs ----------------------------
(***************************************************************************)
(* GetMaxTag is right for every list of tags, every limit and every        *)
(* prefix.  The invariant of its loop says that the best tag so far is an  *)
(* answer for the tags seen so far.                                        *)
(***************************************************************************)
EXTENDS TagScan, TagsProofs

Value(t) == ConvertTagToNumeric(t, prefix).n
Limit == ScanLimit(maxTagValue, prefix)
Seen == {tags[k] : k \in 1..i}

\* The best tag of those seen: the default if none is eligible.
BestSoFar ==
  LET fit == Eligible(Seen, maxTagValue, prefix)
  IN  IF fit = {}
        THEN nMaxTag = ScanStart(prefix).n /\ tagString = ScanStart(prefix).tag
        ELSE tagString \in fit /\ nMaxTag = Value(tagString) /\ \A w \in fit : Value(w) <= nMaxTag

\* The call failed on its limit, or on a listed tag that is no version.
FailedRightly ==
  /\ nMaxTag = -1 /\ tagString = EmptyTag
  /\ \/ Limit.status = "panic" /\ status = "panic"
     \/ Limit.status # "panic" /\ \E t \in Listed : ConvertTagToNumeric(t, prefix).status = status

LoopInv ==
  /\ TypeOK
  /\ status \in {"scan", "ok"} =>
       /\ Limit.status # "panic"
       /\ \A t \in Seen : ConvertTagToNumeric(t, prefix).status = "ok"
       /\ BestSoFar
  /\ status = "ok" => i = Len(tags)
  /\ status \in {"err", "panic"} => FailedRightly

\* A limit, given or defaulted, has a natural number as its value.
LEMMA LimitType ==
  ASSUME NEW limit \in Tag, NEW p
  PROVE  ScanLimit(limit, p).n \in Nat
<1>1. Version("v", 99, 99, 99) \in Tag
  BY VersionIsTag, PrefixesAssumption
<1> QED
  BY <1>1, ConvertType DEF ScanLimit

\* The default is a tag with a natural number as its value.
LEMMA StartType ==
  ASSUME NEW p
  PROVE  ScanStart(p).n \in Nat /\ ScanStart(p).tag \in Tag
<1>1. Version("v", 1, 0, 0) \in Tag
  BY VersionIsTag, PrefixesAssumption
<1> QED
  BY <1>1, ConvertType DEF ScanStart

\* The listed tags are tags, and so are the inputs.
LEMMA InputTypes ==
  ASSUME TypeOK
  PROVE  /\ tags \in Seq(Tag) /\ maxTagValue \in Tag
         /\ Seen \subseteq Listed /\ Listed \subseteq Tag
         /\ \A t \in Listed : Value(t) \in Nat /\ ConvertTagToNumeric(t, prefix).status \in Statuses
<1>1. tags \in Seq(Tag) /\ maxTagValue \in Tag
  BY InputsAssumption DEF TypeOK
<1>2. Seen \subseteq Listed /\ Listed \subseteq Tag
  BY <1>1 DEF TypeOK, Seen, Listed
<1> QED
  BY <1>1, <1>2, ConvertType DEF Value

\* Looking at one more tag that is a version keeps the best one the best.
LEMMA LookKeepsBest ==
  ASSUME LoopInv, Look, ConvertTagToNumeric(tags[i + 1], prefix).status = "ok"
  PROVE  /\ \A t \in Seen' : ConvertTagToNumeric(t, prefix).status = "ok"
         /\ BestSoFar'
<1> DEFINE tag == tags[i + 1]
           fit == Eligible(Seen, maxTagValue, prefix)
           more == Eligible(Seen \cup {tag}, maxTagValue, prefix)
           start == ScanStart(prefix)
           isFit == Value(tag) > start.n /\ Value(tag) <= Limit.n
           better == Beats(Value(tag), nMaxTag, Limit.n)
<1>1. /\ i \in Nat /\ i + 1 \in DOMAIN tags
      /\ Seen' = Seen \cup {tag}
      /\ tags' = tags /\ maxTagValue' = maxTagValue /\ prefix' = prefix
  <2>1. i \in 0..Len(tags) /\ i < Len(tags) /\ i' = i + 1 /\ tags' = tags
    BY DEF LoopInv, TypeOK, Look
  <2>2. tags \in Seq(Tag)
    BY InputTypes DEF LoopInv
  <2>3. 1..(i + 1) = (1..i) \cup {i + 1}
    BY <2>1, <2>2
  <2>4. Seen' = {tags[k] : k \in 1..(i + 1)}
    BY <2>1 DEF Seen
  <2>5. Seen' = Seen \cup {tag}
    BY <2>3, <2>4 DEF Seen
  <2> QED
    BY <2>1, <2>2, <2>5 DEF Look
<1>2. tag \in Listed /\ Value(tag) \in Nat /\ Limit.n \in Nat /\ start.n \in Nat
  BY <1>1, InputTypes, LimitType, StartType DEF LoopInv, Listed, Limit
<1>3. \A t \in Seen : ConvertTagToNumeric(t, prefix).status = "ok" /\ Value(t) \in Nat
  BY InputTypes DEF LoopInv, Look
<1>4. more = IF isFit THEN fit \cup {tag} ELSE fit
  BY <1>2 DEF Eligible, Value, Limit
<1>5. fit \subseteq Seen
  BY DEF Eligible
<1>6. \A t \in fit : Value(t) > start.n /\ Value(t) <= Limit.n
  BY DEF Eligible, Value, Limit
<1>7. /\ nMaxTag' = IF better THEN Value(tag) ELSE nMaxTag
      /\ tagString' = IF better THEN tag ELSE tagString
  BY DEF Look, Value, Limit
<1>8. better <=> Value(tag) > nMaxTag /\ Value(tag) <= Limit.n
  BY DEF Beats
<1>9. IF fit = {}
        THEN nMaxTag = start.n /\ tagString = start.tag
        ELSE tagString \in fit /\ nMaxTag = Value(tagString) /\ \A w \in fit : Value(w) <= nMaxTag
  BY DEF LoopInv, Look, BestSoFar
<1>10. IF more = {}
         THEN nMaxTag' = start.n /\ tagString' = start.tag
         ELSE /\ tagString' \in more /\ nMaxTag' = Value(tagString')
              /\ \A w \in more : Value(w) <= nMaxTag'
  <2> HIDE DEF tag, fit, more, start, better
  <2>1. nMaxTag \in Int
    BY DEF LoopInv, TypeOK
  <2>2. CASE fit = {}
    BY <1>2, <1>4, <1>7, <1>8, <1>9, <2>2
  <2>3. CASE fit # {}
    <3>1. tagString \in fit /\ nMaxTag = Value(tagString) /\ nMaxTag > start.n
      BY <1>6, <1>9, <2>3
    <3>2. CASE better
      <4>1. isFit
        BY <1>2, <1>8, <2>1, <3>1, <3>2
      <4>2. more = fit \cup {tag} /\ nMaxTag' = Value(tag) /\ tagString' = tag
        BY <1>4, <1>7, <3>2, <4>1
      <4>3. \A w \in fit : Value(w) <= Value(tag)
        BY <1>2, <1>3, <1>5, <1>8, <1>9, <2>1, <2>3, <3>2
      <4> QED
        BY <1>2, <4>2, <4>3
    <3>3. CASE ~better
      <4>1. nMaxTag' = nMaxTag /\ tagString' = tagString
        BY <1>7, <3>3
      <4>2. isFit => Value(tag) <= nMaxTag
        BY <1>2, <1>8, <2>1, <3>3
      <4> QED
        BY <1>4, <1>9, <2>3, <3>1, <4>1, <4>2
    <3> QED
      BY <3>2, <3>3
  <2> QED
    BY <2>2, <2>3
<1>11. /\ Eligible(Seen, maxTagValue, prefix)' = more
       /\ ScanStart(prefix)' = start
       /\ \A w : Value(w)' = ConvertTagToNumeric(w, prefix).n
  BY <1>1 DEF Value, Eligible, ScanLimit, ScanStart
<1>12. BestSoFar'
  BY <1>1, <1>10, <1>11 DEF BestSoFar, Value
<1> QED
  BY <1>1, <1>3, <1>12

-----------------------------------------------------------------------------
\* The loop invariant holds at the start and is kept by every step.
LEMMA LoopInvHolds == Spec => []LoopInv
<1>1. Init => LoopInv
  <2> SUFFICES ASSUME Init PROVE LoopInv
    OBVIOUS
  <2> DEFINE start == ScanStart(prefix)
  <2>1. start.n \in Nat /\ start.tag \in Tag /\ EmptyTag \in Tag
    BY StartType, EmptyTagIsTag
  <2>2. tags \in Seq(Tag) /\ i = 0
    BY InputsAssumption DEF Init
  <2>3. TypeOK
    BY <2>1, <2>2 DEF Init, TypeOK
  <2>4. Seen = {}
    BY <2>2 DEF Seen
  <2>5. CASE Limit.status = "panic"
    BY <2>3, <2>5 DEF Init, LoopInv, Limit, FailedRightly
  <2>6. CASE Limit.status # "panic"
    <3>1. status = "scan" /\ nMaxTag = start.n /\ tagString = start.tag
      BY <2>6 DEF Init, Limit
    <3>2. Eligible(Seen, maxTagValue, prefix) = {}
      BY <2>4 DEF Eligible
    <3> QED
      BY <2>3, <2>4, <2>6, <3>1, <3>2 DEF LoopInv, BestSoFar
  <2> QED
    BY <2>5, <2>6
<1>2. LoopInv /\ [Next]_vars => LoopInv'
  <2> SUFFICES ASSUME LoopInv, [Next]_vars PROVE LoopInv'
    OBVIOUS
  <2>1. CASE Look
    <3> DEFINE tag == tags[i + 1]
               num == ConvertTagToNumeric(tag, prefix)
    <3>1. /\ tags' = tags /\ maxTagValue' = maxTagValue /\ prefix' = prefix
          /\ status = "scan" /\ i' = i + 1 /\ i < Len(tags) /\ i \in 0..Len(tags)
          /\ Limit.status # "panic" /\ Limit' = Limit
      BY <2>1 DEF LoopInv, Look, TypeOK, Limit
    <3>2. tags \in Seq(Tag)
      BY InputTypes DEF LoopInv
    <3>3. i' \in 0..Len(tags') /\ tag \in Listed
      BY <3>1, <3>2 DEF Listed
    <3>4. tag \in Tag /\ num.n \in Nat /\ num.status \in Statuses
      BY <3>3, InputTypes DEF LoopInv, Value
    <3>5. TypeOK'
      BY <2>1, <3>1, <3>3, <3>4, EmptyTagIsTag DEF LoopInv, TypeOK, Look, Statuses
    <3>6. CASE num.status = "ok"
      <4>1. status' = "scan"
        BY <2>1, <3>6 DEF Look
      <4>2. (\A t \in Seen' : ConvertTagToNumeric(t, prefix).status = "ok") /\ BestSoFar'
        BY <2>1, <3>6, LookKeepsBest
      <4> QED
        BY <3>1, <3>5, <4>1, <4>2 DEF LoopInv
    <3>7. CASE num.status # "ok"
      <4>1. status' = num.status /\ nMaxTag' = -1 /\ tagString' = EmptyTag
        BY <2>1, <3>7 DEF Look
      <4>2. status' \notin {"scan", "ok"}
        BY <3>4, <3>7, <4>1 DEF Statuses
      <4>3. Listed' = Listed
        BY <3>1 DEF Listed
      <4>4. FailedRightly'
        BY <3>1, <3>3, <4>1, <4>3 DEF FailedRightly
      <4> QED
        BY <3>5, <4>2, <4>4 DEF LoopInv
    <3> QED
      BY <3>6, <3>7
  <2>2. CASE Return
    <3>1. /\ UNCHANGED <<tags, maxTagValue, prefix, i, nMaxTag, tagString>>
          /\ status = "scan" /\ status' = "ok" /\ i = Len(tags)
      BY <2>2 DEF Return
    <3>2. TypeOK'
      BY <3>1 DEF LoopInv, TypeOK
    <3>3. Seen' = Seen /\ Limit' = Limit /\ (BestSoFar' <=> BestSoFar)
      BY <3>1 DEF Seen, Limit, BestSoFar, Value
    <3> QED
      BY <3>1, <3>2, <3>3 DEF LoopInv
  <2>3. CASE UNCHANGED vars
    <3>1. /\ TypeOK' /\ Seen' = Seen /\ Limit' = Limit /\ (BestSoFar' <=> BestSoFar)
          /\ (FailedRightly' <=> FailedRightly)
      BY <2>3 DEF LoopInv, TypeOK, vars, Seen, Limit, BestSoFar, Value, FailedRightly, Listed
    <3> QED
      BY <2>3, <3>1 DEF LoopInv, vars
  <2> QED
    BY <2>1, <2>2, <2>3 DEF Next
<1> QED
  BY <1>1, <1>2, PTL DEF Spec

\* The variables of the loop keep their types.
THEOREM TypeCorrect == Spec => []TypeOK
<1>1. LoopInv => TypeOK
  BY DEF LoopInv
<1> QED
  BY <1>1, LoopInvHolds, PTL

\* For every list of tags in every order, every limit and every prefix,
\* GetMaxTag answers with a greatest version not above the limit, with its
\* default if there is none, and fails if a tag is not a version.
THEOREM GetMaxTagCorrect == Spec => []AnswerIsMaximum
<1>1. LoopInv => AnswerIsMaximum
  <2> SUFFICES ASSUME LoopInv, status # "scan"
               PROVE  [status |-> status, n |-> nMaxTag, tag |-> tagString]
                        \in MaxTagAnswers(Listed, maxTagValue, prefix)
    BY DEF AnswerIsMaximum
  <2> DEFINE answer == [status |-> status, n |-> nMaxTag, tag |-> tagString]
             bad == {t \in Listed : ConvertTagToNumeric(t, prefix).status # "ok"}
             fit == Eligible(Listed, maxTagValue, prefix)
             best == {u \in fit : \A w \in fit : Value(w) <= Value(u)}
  <2>1. MaxTagAnswers(Listed, maxTagValue, prefix) =
          IF Limit.status = "panic" THEN {ScanFails("panic")}
          ELSE IF bad # {} THEN {ScanFails(ConvertTagToNumeric(t, prefix).status) : t \in bad}
          ELSE IF fit = {} THEN {ScanStart(prefix)}
          ELSE {[status |-> "ok", n |-> Value(t), tag |-> t] : t \in best}
    BY DEF MaxTagAnswers, Limit, Value
  <2>2. CASE status = "ok"
    <3>1. Seen = Listed
      <4>1. tags \in Seq(Tag) /\ i = Len(tags)
        BY <2>2, InputTypes DEF LoopInv
      <4> QED
        BY <4>1 DEF Seen, Listed
    <3>2. Limit.status # "panic" /\ bad = {} /\ BestSoFar
      BY <2>2, <3>1 DEF LoopInv
    <3>3. CASE fit = {}
      <4>1. nMaxTag = ScanStart(prefix).n /\ tagString = ScanStart(prefix).tag
        BY <3>1, <3>2, <3>3 DEF BestSoFar
      <4>2. answer = ScanStart(prefix)
        BY <2>2, <4>1 DEF ScanStart
      <4> QED
        BY <2>1, <3>2, <3>3, <4>2
    <3>4. CASE fit # {}
      <4>1. tagString \in fit /\ nMaxTag = Value(tagString) /\ \A w \in fit : Value(w) <= nMaxTag
        BY <3>1, <3>2, <3>4 DEF BestSoFar
      <4>2. tagString \in best
        BY <4>1
      <4> QED
        BY <2>1, <2>2, <3>2, <3>4, <4>1, <4>2
    <3> QED
      BY <3>3, <3>4
  <2>3. CASE status \in {"err", "panic"}
    <3>1. FailedRightly
      BY <2>3 DEF LoopInv
    <3>2. answer = ScanFails(status)
      BY <3>1 DEF FailedRightly, ScanFails
    <3>3. CASE Limit.status = "panic"
      BY <2>1, <3>1, <3>2, <3>3 DEF FailedRightly
    <3>4. CASE Limit.status # "panic"
      <4>1. PICK t \in Listed : ConvertTagToNumeric(t, prefix).status = status
        BY <3>1, <3>4 DEF FailedRightly
      <4>2. t \in bad
        BY <2>3, <4>1
      <4> QED
        BY <2>1, <3>2, <3>4, <4>1, <4>2
    <3> QED
      BY <3>3, <3>4
  <2> QED
    BY <2>2, <2>3 DEF LoopInv, TypeOK
<1> QED
  BY <1>1, LoopInvHolds, PTL

\* A version whose parts are at most 99 converts.
LEMMA InRangeConverts ==
  ASSUME NEW t \in Tag, NEW p, InRange(t), PrefixGoes(t, p)
  PROVE  /\ ConvertTagToNumeric(t, p).status = "ok"
         /\ \A k \in 1..3 : t.parts[k] \in 0..99
         /\ ConvertTagToNumeric(t, p).n = 10000 * t.parts[1] + 100 * t.parts[2] + t.parts[3]
<1>1. Malformed(t, p) = {}
  BY DEF Malformed, Parses, InRange, NaN
<1> QED
  BY <1>1 DEF ConvertTagToNumeric, InRange

\* For all versions with parts up to 99 the packed numbers are in the order of
\* the versions: comparing numbers never picks the older release.
THEOREM PackingCorrect == Spec => []PackingKeepsOrder
<1>1. LoopInv => PackingKeepsOrder
  <2> SUFFICES ASSUME LoopInv, NEW t \in Listed, NEW u \in Listed, InRange(t), InRange(u),
                      PrefixGoes(t, prefix), PrefixGoes(u, prefix)
               PROVE  Precedes(t, u) <=> CompareTwoTags(t, u, prefix).n = 1
    BY DEF PackingKeepsOrder
  <2>1. t \in Tag /\ u \in Tag
    BY InputTypes DEF LoopInv
  <2> DEFINE one == ConvertTagToNumeric(t, prefix)
             two == ConvertTagToNumeric(u, prefix)
  <2>2. /\ one.status = "ok" /\ two.status = "ok"
        /\ \A k \in 1..3 : t.parts[k] \in 0..99 /\ u.parts[k] \in 0..99
        /\ one.n = 10000 * t.parts[1] + 100 * t.parts[2] + t.parts[3]
        /\ two.n = 10000 * u.parts[1] + 100 * u.parts[2] + u.parts[3]
    BY <2>1, InRangeConverts
  <2>3. CompareTwoTags(t, u, prefix).n = IF one.n = two.n THEN 0 ELSE IF one.n > two.n THEN -1 ELSE 1
    BY <2>2 DEF CompareTwoTags
  <2>4. Precedes(t, u) <=>
          \/ t.parts[1] < u.parts[1]
          \/ t.parts[1] = u.parts[1] /\ t.parts[2] < u.parts[2]
          \/ t.parts[1] = u.parts[1] /\ t.parts[2] = u.parts[2] /\ t.parts[3] < u.parts[3]
    <3>1. 1..0 = {} /\ 1..1 = {1} /\ 1..2 = {1, 2} /\ 1..3 = {1, 2, 3}
      OBVIOUS
    <3> QED
      BY <3>1 DEF Precedes
  <2>5. one.n \in Nat /\ two.n \in Nat
    BY <2>1, ConvertType
  <2>6. CompareTwoTags(t, u, prefix).n = 1 <=> one.n < two.n
    BY <2>3, <2>5
  <2> DEFINE a == t.parts[1]  b == t.parts[2]  c == t.parts[3]
             d == u.parts[1]  e == u.parts[2]  f == u.parts[3]
             m == one.n  n == two.n
  <2>7. a \in 0..99 /\ b \in 0..99 /\ c \in 0..99 /\ d \in 0..99 /\ e \in 0..99 /\ f \in 0..99
    BY <2>2
  <2>8. m = 10000 * a + 100 * b + c /\ n = 10000 * d + 100 * e + f
    BY <2>2
  <2>9. (a < d \/ (a = d /\ b < e) \/ (a = d /\ b = e /\ c < f)) <=> m < n
    <3> HIDE DEF a, b, c, d, e, f, m, n
    <3> QED
      BY <2>7, <2>8
  <2> QED
    BY <2>4, <2>6, <2>9
<1> QED
  BY <1>1, LoopInvHolds, PTL
=============================================================================
