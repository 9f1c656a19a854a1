---------------------------- MODULE MCNameFilter ----------------------------
(* Every name and filter of at most a few characters over two letters.     *)
EXTENDS NameFilter

CONSTANTS MaxName, MaxText

Strings(S, max) == UNION {[1 .. n -> S] : n \in 0 .. max}

MCNames == Strings(Char, MaxName)
MCTexts == Strings(Char \cup {Star}, MaxText)

=============================================================================
