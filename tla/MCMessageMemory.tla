-------------------------- MODULE MCMessageMemory --------------------------
(***************************************************************************)
(* Datagrams with no, one or two queries and with records in one or two    *)
(* sections, complete or cut after any number of them or in the data of    *)
(* the next; files that are not there, that end early, and that have lines *)
(* of every kind.                                                          *)
(***************************************************************************)
EXTENDS MessageMemory

CONSTANTS
    MaxTurns,   \* bound on the datagrams, clean-ups and loads
    MaxLoads    \* bound on the loads after the first one

VARIABLES turns, loads

MCInit == MemoryInit /\ turns = 0 /\ loads = 0
MCNext ==
    \/ turns < MaxTurns /\ turns' = turns + 1 /\ TurnNext /\ UNCHANGED loads
    \/ turns < MaxTurns /\ turns' = turns + 1 /\ loads < MaxLoads /\ loads' = loads + 1
       /\ \E file \in Files : Reload(file)
    \/ turns = MaxTurns /\ UNCHANGED <<memoryVars, turns, loads>>
MCSpec == MCInit /\ [][MCNext]_<<memoryVars, turns, loads>>

Counts == {<<0, 0, 0, 0>>, <<2, 0, 0, 0>>, <<1, 0, 1, 0>>, <<1, 1, 0, 1>>}
Total(c) == c[1] + c[2] + c[3] + c[4]
MCDatagrams ==
    UNION {[counts : {c}, read : 0 .. Total(c), half : {<<>>}]
           \cup [counts : {c}, read : c[1] .. Total(c) - 1, half : HalfRead] : c \in Counts}

File(opened, whole, lines) == [opened |-> opened, whole |-> whole, lines |-> lines]
MCFiles == {
    File(FALSE, FALSE, <<>>),
    File(TRUE, FALSE, <<"other">>),
    File(TRUE, TRUE, <<"other", "server", "noServer", "blank", "other", "black">>),
    File(TRUE, TRUE, <<"other", "record", "noRecord", "duplicate", "other", "white">>)}

=============================================================================
