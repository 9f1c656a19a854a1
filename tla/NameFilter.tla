----------------------------- MODULE NameFilter -----------------------------
(***************************************************************************)
(* CNameFilter::Match: does a white- or blacklist filter, a text in which  *)
(* '*' stands for any characters, match a domain name?  The code walks     *)
(* both strings with three cursors: i in the name, j in the filter, and    *)
(* lastStar, where to resume in the filter after a mismatch.  Cursors are  *)
(* 0-based as in the code; the terminating 0 of a string is its end.       *)
(***************************************************************************)
EXTENDS Naturals, Sequences

CONSTANTS
    Char,        \* the characters of names and filters
    Star,        \* ASTERISK
    Names,       \* the names asked for
    Texts,       \* the filters of the configuration
    NoStar       \* lastStar before a star was seen: 0xFFFFFFFF

ASSUME NamesAndTexts == Names \subseteq Seq(Char) /\ Texts \subseteq Seq(Char \cup {Star})

\* No filter is long enough for a cursor to reach the value that says "none".
ASSUME NoStarAbove == NoStar \in Nat /\ \A t \in Texts : Len(t) < NoStar

VARIABLES
    name,      \* the name asked for
    m_pText,   \* the filter
    i, j, lastStar,
    result     \* what Match returned, or "running"

vars == <<name, m_pText, i, j, lastStar, result>>

-----------------------------------------------------------------------------
(* What a filter means, independently of the code: its first b characters  *)
(* match the first a of the name when the name can be cut into b pieces,   *)
(* one for each character of the filter: any piece for a star, exactly     *)
(* that character for any other.  cut[k] is where piece k ends.            *)

Piece(n, t, cut, k) ==
    /\ cut[k - 1] <= cut[k]
    /\ t[k] # Star => cut[k] = cut[k - 1] + 1 /\ n[cut[k]] = t[k]

GlobPrefix(n, t, a, b) ==
    \E cut \in [0 .. b -> 0 .. a] :
        /\ cut[0] = 0
        /\ cut[b] = a
        /\ \A k \in 1 .. b : Piece(n, t, cut, k)

Glob(n, t) == GlobPrefix(n, t, Len(n), Len(t))

-----------------------------------------------------------------------------

MatchInit ==
    /\ name \in Names
    /\ m_pText \in Texts
    /\ i = 0
    /\ j = 0
    /\ lastStar = NoStar
    /\ result = "running"

InName == result = "running" /\ i < Len(name)

Return(b) ==
    /\ result' = IF b THEN "match" ELSE "no match"
    /\ UNCHANGED <<name, m_pText, i, j, lastStar>>

\* Faulty variant of FilterEnded: a star at its end is forgotten.
FilterEndedRefuses ==
    /\ InName
    /\ j = Len(m_pText)
    /\ Return(FALSE)

\* The filter is used up before the name is: only a star at its end saves it.
FilterEnded ==
    /\ InName
    /\ j = Len(m_pText)
    /\ Return(j = lastStar)

\* A star: remember where the filter goes on after it.
StarFound ==
    /\ InName
    /\ j < Len(m_pText)
    /\ m_pText[j + 1] = Star
    /\ j' = j + 1
    /\ lastStar' = j + 1
    /\ UNCHANGED <<name, m_pText, i, result>>

SameChar ==
    /\ InName
    /\ j < Len(m_pText)
    /\ m_pText[j + 1] # Star
    /\ m_pText[j + 1] = name[i + 1]
    /\ i' = i + 1
    /\ j' = j + 1
    /\ UNCHANGED <<name, m_pText, lastStar, result>>

OtherChar ==
    /\ InName
    /\ j < Len(m_pText)
    /\ m_pText[j + 1] # Star
    /\ m_pText[j + 1] # name[i + 1]

\* Faulty variant of BackToStar: without a star it starts over.
BackToStarOrStart ==
    /\ OtherChar
    /\ j' = IF lastStar <= j THEN lastStar ELSE 0
    /\ i' = i + 1
    /\ UNCHANGED <<name, m_pText, lastStar, result>>

\* Faulty variant of BackToStar: the name is not moved on.
BackToStarStuck ==
    /\ OtherChar
    /\ lastStar <= j
    /\ j' = lastStar
    /\ UNCHANGED <<i, name, m_pText, lastStar, result>>

\* A mismatch after a star: go back to it, and on to the next character of
\* the name (the mismatching one is not compared again).
BackToStar ==
    /\ OtherChar
    /\ lastStar <= j
    /\ j' = lastStar
    /\ i' = i + 1
    /\ UNCHANGED <<name, m_pText, lastStar, result>>

\* Faulty variant of RestIsStars: the rest of the filter is not looked at.
RestIgnored == TRUE

\* The loop after the main one: what is left of the filter must be stars.
RestIsStars == \A k \in j + 1 .. Len(m_pText) : m_pText[k] = Star

\* A mismatch with no star to go back to leaves the main loop.
NoStarToGoBackTo ==
    /\ OtherChar
    /\ lastStar > j
    /\ Return(RestIsStars)

NameEnded ==
    /\ result = "running"
    /\ i = Len(name)
    /\ Return(RestIsStars)

MatchStep ==
    \/ FilterEnded
    \/ StarFound
    \/ SameChar
    \/ BackToStar
    \/ NoStarToGoBackTo
    \/ NameEnded

\* Match has returned: the call is over.
Returned == result # "running" /\ UNCHANGED vars

MatchNext == MatchStep \/ Returned

MatchSpec == MatchInit /\ [][MatchNext]_vars

\* Match runs on its own: nothing can keep the thread from its next step for
\* ever.
FairMatchSpec == MatchSpec /\ WF_vars(MatchStep)

-----------------------------------------------------------------------------

MatchTypeOK ==
    /\ name \in Names
    /\ m_pText \in Texts
    /\ i \in 0 .. Len(name)
    /\ j \in 0 .. Len(m_pText)
    /\ lastStar \in {NoStar} \cup 1 .. j
    /\ result \in {"running", "match", "no match"}

\* The cursors never claim more than they have: what lies before j in the
\* filter matches what lies before i in the name, and so does what lies
\* before lastStar, which follows a star.
CursorsMatch ==
    result = "running" =>
        /\ GlobPrefix(name, m_pText, i, j)
        /\ lastStar # NoStar =>
               /\ m_pText[lastStar] = Star
               /\ GlobPrefix(name, m_pText, i, lastStar)

\* Match never accepts a name its filter does not match (CNameFilter.cpp
\* lines 31-74): a name is never blocked, or let through, by mistake.
NeverOverMatches == result = "match" => Glob(name, m_pText)

\* Texts in which every star is at the end: plain names and prefixes.
PlainOrPrefix(t) ==
    \A a, b \in 1 .. Len(t) : a < b /\ t[a] = Star => t[b] = Star

\* For a filter without stars, or with stars at its end only, Match is exact:
\* giving up at the first mismatch (line 58) loses nothing.
PrefixFiltersExact ==
    result # "running" /\ PlainOrPrefix(m_pText) => (result = "match" <=> Glob(name, m_pText))

\* Going back to the last star never makes the two cursors chase each other:
\* every call returns.
MatchReturns == <>(result # "running")

\* "if star is found, mark the position / return to it when miss-match is
\* found" (lines 48-49): what the mark is for, so that a name the filter
\* matches is found to match.
MatchesWhatTheFilterSays == result = "no match" => ~Glob(name, m_pText)

=============================================================================
