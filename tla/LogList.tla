------------------------------- MODULE LogList -------------------------------
(* What the log promises: it keeps the last lines said, in order, as many as *)
(* it has room for.                                                         *)
EXTENDS Naturals, Sequences

CONSTANT Room        \* the number of lines it keeps

VARIABLE said        \* the lines kept, the oldest first

LogListInit == said = <<>>

Say(line) ==
    said' = IF Len(said) < Room THEN Append(said, line) ELSE Append(Tail(said), line)

\* Some line is said; it is then the last one kept.
LogListNext == said' # <<>> /\ Say(said'[Len(said')])

LogListSpec == LogListInit /\ [][LogListNext]_said

=============================================================================
