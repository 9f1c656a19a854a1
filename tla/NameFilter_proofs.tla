-------------------------- MODULE NameFilter_proofs --------------------------
(***************************************************************************)
(* CNameFilter::Match never matches a name its filter does not match, for  *)
(* every alphabet, every name and every filter.  The argument: the cursors *)
(* always stand for a cut of the name (CursorsMatch), and each branch of   *)
(* the loop extends a cut in one of three ways, which are the lemmas.      *)
(***************************************************************************)
EXTENDS NameFilter, SequenceTheorems, TLAPS

\* One more character, in the name and in the filter.
LEMMA CutOneChar ==
    ASSUME NEW n, NEW t, NEW a \in Nat, NEW b \in Nat,
           GlobPrefix(n, t, a, b), t[b + 1] = n[a + 1]
    PROVE  GlobPrefix(n, t, a + 1, b + 1)
<1>1. PICK cut \in [0 .. b -> 0 .. a] :
        cut[0] = 0 /\ cut[b] = a /\ \A k \in 1 .. b : Piece(n, t, cut, k)
  BY DEF GlobPrefix
<1> DEFINE longer == [k \in 0 .. b + 1 |-> IF k <= b THEN cut[k] ELSE a + 1]
<1>2. longer \in [0 .. b + 1 -> 0 .. a + 1]
  OBVIOUS
<1>3. longer[0] = 0 /\ longer[b + 1] = a + 1
  BY <1>1
<1>4. ASSUME NEW k \in 1 .. b + 1 PROVE Piece(n, t, longer, k)
  <2>1. CASE k <= b
    BY <2>1, <1>1 DEF Piece
  <2>2. CASE k = b + 1
    BY <2>2, <1>1 DEF Piece
  <2> QED
    BY <2>1, <2>2
<1> HIDE DEF longer
<1> QED
  BY <1>2, <1>3, <1>4 DEF GlobPrefix

\* One more star in the filter, taking nothing from the name yet.
LEMMA CutOneStar ==
    ASSUME NEW n, NEW t, NEW a \in Nat, NEW b \in Nat,
           GlobPrefix(n, t, a, b), t[b + 1] = Star
    PROVE  GlobPrefix(n, t, a, b + 1)
<1>1. PICK cut \in [0 .. b -> 0 .. a] :
        cut[0] = 0 /\ cut[b] = a /\ \A k \in 1 .. b : Piece(n, t, cut, k)
  BY DEF GlobPrefix
<1> DEFINE longer == [k \in 0 .. b + 1 |-> IF k <= b THEN cut[k] ELSE a]
<1>2. longer \in [0 .. b + 1 -> 0 .. a]
  OBVIOUS
<1>3. longer[0] = 0 /\ longer[b + 1] = a
  BY <1>1
<1>4. ASSUME NEW k \in 1 .. b + 1 PROVE Piece(n, t, longer, k)
  <2>1. CASE k <= b
    BY <2>1, <1>1 DEF Piece
  <2>2. CASE k = b + 1
    BY <2>2, <1>1 DEF Piece
  <2> QED
    BY <2>1, <2>2
<1> HIDE DEF longer
<1> QED
  BY <1>2, <1>3, <1>4 DEF GlobPrefix

\* A filter that ends in a star takes any more of the name.
LEMMA StarTakesMore ==
    ASSUME NEW n, NEW t, NEW a \in Nat, NEW b \in Nat \ {0}, NEW more \in Nat,
           GlobPrefix(n, t, a, b), t[b] = Star, a <= more
    PROVE  GlobPrefix(n, t, more, b)
<1>1. PICK cut \in [0 .. b -> 0 .. a] :
        cut[0] = 0 /\ cut[b] = a /\ \A k \in 1 .. b : Piece(n, t, cut, k)
  BY DEF GlobPrefix
<1> DEFINE longer == [k \in 0 .. b |-> IF k < b THEN cut[k] ELSE more]
<1>2. longer \in [0 .. b -> 0 .. more]
  OBVIOUS
<1>3. longer[0] = 0 /\ longer[b] = more
  BY <1>1
<1>4. ASSUME NEW k \in 1 .. b PROVE Piece(n, t, longer, k)
  <2>1. CASE k < b
    BY <2>1, <1>1 DEF Piece
  <2>2. CASE k = b
    <3>1. longer[k - 1] \in 0 .. a /\ longer[k] = more
      BY <2>2
    <3> QED
      BY <3>1, <2>2 DEF Piece
  <2> QED
    BY <2>1, <2>2
<1> HIDE DEF longer
<1> QED
  BY <1>2, <1>3, <1>4 DEF GlobPrefix

\* A filter whose rest is stars matches what its beginning does.
LEMMA RestOfStars ==
    ASSUME NEW n, NEW t, NEW a \in Nat, NEW b \in Nat, NEW c \in Nat, b <= c,
           GlobPrefix(n, t, a, b), \A k \in b + 1 .. c : t[k] = Star
    PROVE  GlobPrefix(n, t, a, c)
<1>1. PICK cut \in [0 .. b -> 0 .. a] :
        cut[0] = 0 /\ cut[b] = a /\ \A k \in 1 .. b : Piece(n, t, cut, k)
  BY DEF GlobPrefix
<1> DEFINE longer == [k \in 0 .. c |-> IF k <= b THEN cut[k] ELSE a]
<1>2. longer \in [0 .. c -> 0 .. a]
  OBVIOUS
<1>3. longer[0] = 0 /\ longer[c] = a
  BY <1>1
<1>4. ASSUME NEW k \in 1 .. c PROVE Piece(n, t, longer, k)
  <2>1. CASE k <= b
    BY <2>1, <1>1 DEF Piece
  <2>2. CASE k > b
    <3>1. longer[k - 1] = a /\ longer[k] = a
      BY <2>2, <1>1
    <3> QED
      BY <3>1, <2>2 DEF Piece
  <2> QED
    BY <2>1, <2>2
<1> HIDE DEF longer
<1> QED
  BY <1>2, <1>3, <1>4 DEF GlobPrefix

-----------------------------------------------------------------------------

\* The lengths of names and filters are numbers.
LEMMA Lengths ==
    /\ \A n \in Names : Len(n) \in Nat
    /\ \A t \in Texts : Len(t) \in Nat /\ Len(t) < NoStar
<1>1. ASSUME NEW n \in Names PROVE Len(n) \in Nat
  BY NamesAndTexts, LenProperties
<1>2. ASSUME NEW t \in Texts PROVE Len(t) \in Nat
  BY NamesAndTexts, LenProperties
<1> QED
  BY <1>1, <1>2, NoStarAbove

\* The cursors stay within the two strings, for every name and filter.
THEOREM MatchTypeCorrect == MatchSpec => []MatchTypeOK
<1>1. MatchInit => MatchTypeOK
  BY NamesAndTexts, NoStarAbove DEF MatchInit, MatchTypeOK
<1>2. ASSUME MatchTypeOK, [MatchNext]_vars PROVE MatchTypeOK'
  <2> USE Lengths, NoStarAbove, <1>2 DEF MatchTypeOK
  <2>1. CASE FilterEnded
    BY <2>1 DEF FilterEnded, Return
  <2>2. CASE StarFound
    <3>0. j \in Nat /\ Len(m_pText) \in Nat /\ j < Len(m_pText) /\ j' = j + 1 /\ lastStar' = j + 1
      <4>1. m_pText \in Texts /\ j \in 0 .. Len(m_pText)
        BY ONLY MatchTypeOK DEF MatchTypeOK
      <4>2. Len(m_pText) \in Nat
        BY ONLY <4>1, Lengths
      <4>3. j < Len(m_pText) /\ j' = j + 1 /\ lastStar' = j + 1
        BY ONLY <2>2 DEF StarFound
      <4> QED
        BY ONLY <4>1, <4>2, <4>3
    <3>1. j' \in 0 .. Len(m_pText) /\ lastStar' = j' /\ j' \in 1 .. j'
      BY ONLY <3>0
    <3>2. i' = i /\ name' = name /\ m_pText' = m_pText /\ result' = result
      BY <2>2 DEF StarFound
    <3> QED
      BY <3>1, <3>2
  <2>3. CASE SameChar
    BY <2>3 DEF SameChar, InName
  <2>4. CASE BackToStar
    BY <2>4 DEF BackToStar, OtherChar, InName
  <2>5. CASE NoStarToGoBackTo
    BY <2>5 DEF NoStarToGoBackTo, Return
  <2>6. CASE NameEnded
    BY <2>6 DEF NameEnded, Return
  <2>7. CASE UNCHANGED vars
    BY <2>7 DEF vars
  <2> QED
    BY <2>1, <2>2, <2>3, <2>4, <2>5, <2>6, <2>7 DEF MatchNext, MatchStep, Returned
<1> QED
  BY <1>1, <1>2, PTL DEF MatchSpec

-----------------------------------------------------------------------------

\* What the cursors claim, and what the answer claims, together: the answer
\* is right because the cursors were when it was given.
Sound == CursorsMatch /\ NeverOverMatches

\* Both survive every branch of the loop.
LEMMA SoundStep ==
    ASSUME MatchTypeOK, Sound, [MatchNext]_vars
    PROVE  Sound'
<1> USE Lengths, NoStarAbove DEF MatchTypeOK
<1>1. CASE FilterEnded
  <2>1. result' # "match" => Sound'
    BY <1>1 DEF FilterEnded, Return, Sound, CursorsMatch, NeverOverMatches
  <2>2. ASSUME result' = "match" PROVE Glob(name, m_pText)
    <3>1. result = "running" /\ j = Len(m_pText) /\ j = lastStar /\ j # NoStar
      BY <1>1, <2>2 DEF FilterEnded, InName, Return
    <3>2. m_pText[j] = Star /\ GlobPrefix(name, m_pText, i, j) /\ j \in Nat \ {0}
      BY <3>1 DEF Sound, CursorsMatch
    <3> QED
      BY <3>1, <3>2, StarTakesMore DEF Glob
  <2>3. UNCHANGED <<name, m_pText>> /\ result' # "running"
    BY <1>1 DEF FilterEnded, Return
  <2> QED
    BY <2>1, <2>2, <2>3 DEF Sound, CursorsMatch, NeverOverMatches, Glob
<1>2. CASE StarFound
  <2>1. GlobPrefix(name, m_pText, i, j) /\ m_pText[j + 1] = Star /\ i \in Nat /\ j \in Nat
    BY <1>2 DEF StarFound, InName, Sound, CursorsMatch
  <2>2. GlobPrefix(name, m_pText, i, j + 1)
    BY <2>1, CutOneStar
  <2>3. result' = "running" /\ j' = j + 1 /\ lastStar' = j + 1 /\ UNCHANGED <<i, name, m_pText>>
    BY <1>2 DEF StarFound, InName
  <2>4. CursorsMatch'
    BY <2>1, <2>2, <2>3 DEF CursorsMatch
  <2> QED
    BY <2>3, <2>4 DEF Sound, NeverOverMatches
<1>3. CASE SameChar
  <2>1. GlobPrefix(name, m_pText, i, j) /\ m_pText[j + 1] = name[i + 1] /\ i \in Nat /\ j \in Nat
    BY <1>3 DEF SameChar, InName, Sound, CursorsMatch
  <2>2. GlobPrefix(name, m_pText, i + 1, j + 1)
    BY <2>1, CutOneChar
  <2>3. /\ result = "running" /\ result' = "running"
        /\ i' = i + 1 /\ j' = j + 1
        /\ UNCHANGED <<lastStar, name, m_pText>>
    BY <1>3 DEF SameChar, InName
  <2>4. ASSUME lastStar # NoStar
        PROVE  m_pText[lastStar] = Star /\ GlobPrefix(name, m_pText, i + 1, lastStar)
    <3>1. /\ m_pText[lastStar] = Star
          /\ GlobPrefix(name, m_pText, i, lastStar)
          /\ lastStar \in Nat \ {0} /\ i \in Nat /\ i + 1 \in Nat /\ i <= i + 1
      BY <2>3, <2>4 DEF Sound, CursorsMatch
    <3> QED
      BY <3>1, StarTakesMore
  <2>5. CursorsMatch'
    BY <2>2, <2>3, <2>4 DEF CursorsMatch
  <2> QED
    BY <2>3, <2>5 DEF Sound, NeverOverMatches
<1>4. CASE BackToStar
  <2>1. /\ result = "running" /\ result' = "running"
        /\ i' = i + 1 /\ j' = lastStar /\ lastStar # NoStar
        /\ UNCHANGED <<lastStar, name, m_pText>>
    BY <1>4 DEF BackToStar, OtherChar, InName
  <2>2. /\ m_pText[lastStar] = Star
        /\ GlobPrefix(name, m_pText, i, lastStar)
        /\ lastStar \in Nat \ {0} /\ i \in Nat /\ i + 1 \in Nat /\ i <= i + 1
    BY <2>1 DEF Sound, CursorsMatch
  <2>3. GlobPrefix(name, m_pText, i + 1, lastStar)
    BY <2>2, StarTakesMore
  <2>4. CursorsMatch'
    BY <2>1, <2>2, <2>3 DEF CursorsMatch
  <2> QED
    BY <2>1, <2>4 DEF Sound, NeverOverMatches
<1>5. CASE NoStarToGoBackTo
  <2>1. ~RestIsStars
    <3>0. j \in Nat /\ Len(m_pText) \in Nat /\ j < Len(m_pText) /\ m_pText[j + 1] # Star
      <4>1. m_pText \in Texts /\ j \in 0 .. Len(m_pText)
        BY ONLY MatchTypeOK DEF MatchTypeOK
      <4>2. Len(m_pText) \in Nat
        BY ONLY <4>1, Lengths
      <4>3. j < Len(m_pText) /\ m_pText[j + 1] # Star
        BY ONLY <1>5 DEF NoStarToGoBackTo, OtherChar
      <4> QED
        BY ONLY <4>1, <4>2, <4>3
    <3>1. j + 1 \in j + 1 .. Len(m_pText) /\ m_pText[j + 1] # Star
      BY ONLY <3>0
    <3> QED
      BY <3>1 DEF RestIsStars
  <2>2. result' = "no match"
    BY <1>5, <2>1 DEF NoStarToGoBackTo, Return
  <2> QED
    BY <2>2 DEF Sound, CursorsMatch, NeverOverMatches
<1>6. CASE NameEnded
  <2>1. /\ result = "running" /\ i = Len(name)
        /\ UNCHANGED <<name, m_pText>> /\ result' # "running"
        /\ result' = "match" => RestIsStars
    BY <1>6 DEF NameEnded, Return
  <2>2. GlobPrefix(name, m_pText, Len(name), j) /\ j \in Nat /\ j <= Len(m_pText)
    BY <2>1 DEF Sound, CursorsMatch
  <2>3. RestIsStars => Glob(name, m_pText)
    BY <2>2, RestOfStars DEF RestIsStars, Glob
  <2> QED
    BY <2>1, <2>3 DEF Sound, CursorsMatch, NeverOverMatches, Glob
<1>7. CASE UNCHANGED vars
  BY <1>7 DEF vars, Sound, CursorsMatch, NeverOverMatches, Glob
<1> QED
  BY <1>1, <1>2, <1>3, <1>4, <1>5, <1>6, <1>7 DEF MatchNext, MatchStep, Returned

\* Wherever Match stands, what it has used of the filter matches what it has
\* used of the name, and nothing is matched by mistake (CNameFilter.cpp lines
\* 31-74): the two together hold in every step.
LEMMA SoundAlways == MatchSpec => []Sound
<1>1. MatchInit => Sound
  <2>1. ASSUME MatchInit PROVE GlobPrefix(name, m_pText, 0, 0)
    <3> DEFINE nothing == [k \in 0 .. 0 |-> 0]
    <3>1. nothing \in [0 .. 0 -> 0 .. 0] /\ nothing[0] = 0
      OBVIOUS
    <3>2. \A k \in 1 .. 0 : Piece(name, m_pText, nothing, k)
      OBVIOUS
    <3> HIDE DEF nothing
    <3> QED
      BY <3>1, <3>2 DEF GlobPrefix
  <2> QED
    BY <2>1 DEF MatchInit, Sound, CursorsMatch, NeverOverMatches
<1>2. MatchTypeOK /\ Sound /\ [MatchNext]_vars => Sound'
  BY SoundStep
<1> QED
  BY <1>1, <1>2, MatchTypeCorrect, PTL DEF MatchSpec

\* The cursors never claim more than they have (lines 38-64), whatever the
\* names and the filters.
THEOREM CursorsAreSound == MatchSpec => []CursorsMatch
<1>1. Sound => CursorsMatch
  BY DEF Sound
<1> QED
  BY <1>1, SoundAlways, PTL

\* A name is never taken to match a filter that does not match it, so none is
\* blocked, or let past the blacklist, by mistake (CNameFilter.cpp lines
\* 31-74), whatever the names and the filters.
THEOREM MatchIsSound == MatchSpec => []NeverOverMatches
<1>1. Sound => NeverOverMatches
  BY DEF Sound
<1> QED
  BY <1>1, SoundAlways, PTL

-----------------------------------------------------------------------------
(***************************************************************************)
(* The other direction, for filters with stars at their end only. Before   *)
(* the star there is one way to cut the name, and the cursors follow it;   *)
(* after it there is nothing left to compare.                              *)
(***************************************************************************)

\* cut cuts the whole name as the whole filter says.
Cuts(cut) ==
    /\ cut \in [0 .. Len(m_pText) -> 0 .. Len(name)]
    /\ cut[0] = 0 /\ cut[Len(m_pText)] = Len(name)
    /\ \A k \in 1 .. Len(m_pText) : Piece(name, m_pText, cut, k)

\* A name matches a filter if the whole of both can be so cut.
LEMMA GlobCuts == Glob(name, m_pText) <=> \E cut : Cuts(cut)
  BY DEF Glob, GlobPrefix, Cuts

\* While Match runs: before the star every cut goes through the cursors; at
\* the star only stars are left of the filter.
OnlyCut ==
    result = "running" /\ PlainOrPrefix(m_pText) =>
        \/ lastStar = NoStar /\ \A cut : Cuts(cut) => cut[j] = i
        \/ /\ lastStar # NoStar /\ j = lastStar
           /\ \A k \in lastStar .. Len(m_pText) : m_pText[k] = Star

Exact == OnlyCut /\ PrefixFiltersExact

\* What the types say of the cursors, as numbers.
LEMMA CursorNumbers ==
    ASSUME MatchTypeOK
    PROVE  /\ i \in Nat /\ j \in Nat /\ Len(name) \in Nat /\ Len(m_pText) \in Nat
           /\ NoStar \in Nat /\ j <= Len(m_pText) /\ j < NoStar
           /\ lastStar # NoStar => lastStar \in 1 .. j
<1>1. Len(name) \in Nat /\ Len(m_pText) \in Nat /\ Len(m_pText) < NoStar /\ NoStar \in Nat
  BY Lengths, NoStarAbove DEF MatchTypeOK
<1>2. i \in 0 .. Len(name) /\ j \in 0 .. Len(m_pText)
  BY DEF MatchTypeOK
<1>3. lastStar # NoStar => lastStar \in 1 .. j
  BY DEF MatchTypeOK
<1> QED
  BY <1>1, <1>2, <1>3

\* A character that is no star cuts off one character of the name, that one.
LEMMA NextCut ==
    ASSUME MatchTypeOK, j < Len(m_pText), m_pText[j + 1] # Star,
           NEW cut, Cuts(cut), cut[j] = i
    PROVE  cut[j + 1] = i + 1 /\ i < Len(name) /\ name[i + 1] = m_pText[j + 1]
<1>1. j \in Nat /\ Len(m_pText) \in Nat /\ Len(name) \in Nat /\ i \in Nat
  BY CursorNumbers
<1>2. j + 1 \in 1 .. Len(m_pText) /\ j + 1 \in 0 .. Len(m_pText) /\ (j + 1) - 1 = j
  BY <1>1
<1>3. cut[j + 1] \in 0 .. Len(name) /\ Piece(name, m_pText, cut, j + 1)
  BY <1>2 DEF Cuts
<1>4. cut[j + 1] = i + 1 /\ name[cut[j + 1]] = m_pText[j + 1]
  BY <1>2, <1>3 DEF Piece
<1> QED
  BY <1>1, <1>3, <1>4

\* Once a filter of this kind has reached its star, no character follows.
LEMMA NoCharAfterStar ==
    ASSUME MatchTypeOK, OnlyCut, PlainOrPrefix(m_pText), result = "running",
           lastStar # NoStar
    PROVE  /\ \A k \in j + 1 .. Len(m_pText) : m_pText[k] = Star
           /\ ~OtherChar /\ ~SameChar
           /\ j = lastStar
<1>1. j = lastStar /\ \A k \in lastStar .. Len(m_pText) : m_pText[k] = Star
  BY DEF OnlyCut
<1>2. j \in Nat /\ Len(m_pText) \in Nat
  BY CursorNumbers
<1>3. \A k \in j + 1 .. Len(m_pText) : m_pText[k] = Star
  BY <1>1, <1>2
<1>4. j < Len(m_pText) => m_pText[j + 1] = Star
  BY <1>2, <1>3
<1> QED
  BY <1>1, <1>3, <1>4 DEF OtherChar, SameChar

\* OnlyCut and the exactness of the answer survive every branch of the loop.
LEMMA ExactStep ==
    ASSUME MatchTypeOK, Sound', Exact, [MatchNext]_vars
    PROVE  Exact'
<1>0. /\ i \in Nat /\ j \in Nat /\ Len(name) \in Nat /\ Len(m_pText) \in Nat
      /\ NoStar \in Nat /\ j <= Len(m_pText) /\ j < NoStar
      /\ lastStar # NoStar => lastStar \in 1 .. j
  BY CursorNumbers
\* A call that returns "no match" has seen that there is no cut.
<1>1. ASSUME result' \in {"match", "no match"}, UNCHANGED <<name, m_pText>>,
             result' = "no match" /\ PlainOrPrefix(m_pText) => \A cut : ~Cuts(cut)
      PROVE  Exact'
  <2>1. result' = "match" => Glob(name, m_pText)
    BY <1>1 DEF Sound, NeverOverMatches, Glob
  <2>2. result' = "no match" /\ PlainOrPrefix(m_pText) => ~Glob(name, m_pText)
    BY <1>1, GlobCuts
  <2>3. OnlyCut'
    BY <1>1 DEF OnlyCut
  <2>4. PrefixFiltersExact'
    <3>1. Glob(name, m_pText)' <=> Glob(name, m_pText)
      BY <1>1 DEF Glob, GlobPrefix, Piece
    <3>2. PlainOrPrefix(m_pText)' <=> PlainOrPrefix(m_pText)
      BY <1>1 DEF PlainOrPrefix
    <3> QED
      BY <1>1, <2>1, <2>2, <3>1, <3>2 DEF PrefixFiltersExact
  <2> QED
    BY <2>3, <2>4 DEF Exact
<1>2. CASE FilterEnded
  <2>1. /\ result = "running" /\ i < Len(name) /\ j = Len(m_pText)
        /\ result' = (IF j = lastStar THEN "match" ELSE "no match")
        /\ UNCHANGED <<name, m_pText>>
    BY <1>2 DEF FilterEnded, InName, Return
  <2>2. ASSUME j # lastStar, PlainOrPrefix(m_pText), NEW cut, Cuts(cut) PROVE FALSE
    <3>1. cut[j] = i
      BY <2>1, <2>2 DEF Exact, OnlyCut
    <3>2. cut[j] = Len(name)
      BY <2>1, <2>2 DEF Cuts
    <3>3. i < Len(name) /\ i \in Nat /\ Len(name) \in Nat
      BY <1>0, <2>1
    <3> QED
      BY ONLY <3>1, <3>2, <3>3
  <2> QED
    BY <1>1, <2>1, <2>2
<1>3. CASE StarFound
  <2>1. /\ result = "running" /\ result' = "running" /\ j < Len(m_pText)
        /\ m_pText[j + 1] = Star /\ j' = j + 1 /\ lastStar' = j + 1
        /\ UNCHANGED <<name, m_pText>>
    BY <1>3 DEF StarFound, InName
  <2>2. lastStar' # NoStar
    BY <1>0, <2>1, Lengths DEF MatchTypeOK
  <2>3. ASSUME PlainOrPrefix(m_pText), NEW k \in j + 1 .. Len(m_pText)
        PROVE  m_pText[k] = Star
    <3>1. j + 1 \in 1 .. Len(m_pText) /\ k \in 1 .. Len(m_pText) /\ (k = j + 1 \/ j + 1 < k)
      BY <1>0, <2>1
    <3> QED
      BY <2>1, <2>3, <3>1 DEF PlainOrPrefix
  <2> QED
    BY <2>1, <2>2, <2>3 DEF Exact, OnlyCut, PrefixFiltersExact, PlainOrPrefix
<1>4. CASE SameChar
  <2>1. /\ result = "running" /\ result' = "running" /\ j < Len(m_pText)
        /\ m_pText[j + 1] # Star /\ j' = j + 1 /\ i' = i + 1
        /\ UNCHANGED <<name, m_pText, lastStar>>
    BY <1>4 DEF SameChar, InName
  <2>2. ASSUME PlainOrPrefix(m_pText)
        PROVE  lastStar = NoStar /\ \A cut : Cuts(cut) => cut[j + 1] = i + 1
    <3>1. lastStar = NoStar
      BY <1>4, <2>1, <2>2, NoCharAfterStar DEF Exact
    <3>2. ASSUME NEW cut, Cuts(cut) PROVE cut[j] = i
      BY <2>1, <2>2, <3>1, <3>2 DEF Exact, OnlyCut
    <3> QED
      BY <2>1, <3>1, <3>2, NextCut
  <2>3. \A cut : Cuts(cut)' <=> Cuts(cut)
    BY <2>1 DEF Cuts, Piece
  <2> QED
    BY <2>1, <2>2, <2>3 DEF Exact, OnlyCut, PrefixFiltersExact, PlainOrPrefix
<1>5. CASE BackToStar
  <2>1. /\ result = "running" /\ result' = "running" /\ lastStar # NoStar /\ OtherChar
        /\ UNCHANGED <<name, m_pText>>
    BY <1>0, <1>5 DEF BackToStar, OtherChar, InName
  <2>2. ~PlainOrPrefix(m_pText)
    BY <2>1, NoCharAfterStar DEF Exact
  <2> QED
    BY <2>1, <2>2 DEF Exact, OnlyCut, PrefixFiltersExact, PlainOrPrefix
<1>6. CASE NoStarToGoBackTo
  <2>0. lastStar > j
    BY <1>6 DEF NoStarToGoBackTo
  <2>1. /\ result = "running" /\ lastStar = NoStar /\ j < Len(m_pText) /\ i < Len(name)
        /\ m_pText[j + 1] # Star /\ m_pText[j + 1] # name[i + 1]
        /\ UNCHANGED <<name, m_pText>> /\ result' \in {"match", "no match"}
    <3>1. lastStar = NoStar
      BY ONLY <1>0, <2>0
    <3> QED
      BY <1>6, <3>1 DEF NoStarToGoBackTo, OtherChar, InName, Return
  <2>2. ASSUME PlainOrPrefix(m_pText), NEW cut, Cuts(cut) PROVE FALSE
    <3>1. cut[j] = i
      BY <2>1, <2>2 DEF Exact, OnlyCut
    <3> QED
      BY <2>1, <2>2, <3>1, NextCut
  <2> QED
    BY <1>1, <2>1, <2>2
<1>7. CASE NameEnded
  <2>1. /\ result = "running" /\ i = Len(name)
        /\ UNCHANGED <<name, m_pText>>
        /\ result' = (IF RestIsStars THEN "match" ELSE "no match")
    BY <1>7 DEF NameEnded, Return
  <2>2. ASSUME ~RestIsStars, PlainOrPrefix(m_pText), NEW cut, Cuts(cut) PROVE FALSE
    <3>1. PICK k \in j + 1 .. Len(m_pText) : m_pText[k] # Star
      BY <2>2 DEF RestIsStars
    <3>2. lastStar = NoStar
      BY <2>1, <2>2, <3>1, NoCharAfterStar DEF Exact
    <3>3. j < Len(m_pText) /\ m_pText[j + 1] # Star
      <4>1. j + 1 \in 1 .. Len(m_pText) /\ k \in 1 .. Len(m_pText) /\ (k = j + 1 \/ j + 1 < k)
              /\ j < Len(m_pText)
        BY <1>0, <3>1
      <4> QED
        BY <2>2, <3>1, <4>1 DEF PlainOrPrefix
    <3>4. cut[j] = i
      BY <2>1, <2>2, <3>2 DEF Exact, OnlyCut
    <3>5. i < Len(name)
      BY <2>2, <3>3, <3>4, NextCut
    <3>6. i = Len(name) /\ i \in Nat
      BY <1>0, <2>1
    <3> QED
      BY ONLY <3>5, <3>6
  <2> QED
    BY <1>1, <2>1, <2>2
<1>8. CASE UNCHANGED vars
  BY <1>8 DEF vars, Exact, OnlyCut, PrefixFiltersExact, PlainOrPrefix, Cuts, Piece,
              Glob, GlobPrefix
<1> QED
  BY <1>2, <1>3, <1>4, <1>5, <1>6, <1>7, <1>8 DEF MatchNext, MatchStep, Returned

\* For a filter without stars, or with stars at its end only, Match says what
\* the filter says: giving up at the first mismatch (CNameFilter.cpp line 58)
\* loses nothing, whatever the names.
THEOREM PrefixMatchIsExact == MatchSpec => []PrefixFiltersExact
<1>1. MatchInit => Exact
  BY DEF MatchInit, Exact, OnlyCut, PrefixFiltersExact, Cuts
<1>2. MatchTypeOK /\ Sound' /\ Exact /\ [MatchNext]_vars => Exact'
  BY ExactStep
<1>3. Exact => PrefixFiltersExact
  BY DEF Exact
<1> QED
  BY <1>1, <1>2, <1>3, MatchTypeCorrect, SoundAlways, PTL DEF MatchSpec

=============================================================================
