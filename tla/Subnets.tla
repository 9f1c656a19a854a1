------------------------------ MODULE Subnets ------------------------------
(***************************************************************************)
(* Which of its own addresses the server gives to a client that asks for a *)
(* local name: findBestSubnet of dnsServer.cpp, over the interfaces that   *)
(* mlib/enumip.cpp lists. An address is a sequence of four bytes.          *)
(***************************************************************************)
EXTENDS Integers, Sequences, SequencesExt

Addresses == [1 .. 4 -> 0 .. 255]

isLoopBack(ip) == ip[1] = 127

\* The least shift, below 8, after which two bytes agree; 0 if none does.
ShiftToAgree(x, y) ==
    SelectInSeq([j \in 1 .. 7 |-> x \div 2 ^ j = y \div 2 ^ j], LAMBDA same : same)

\* Faulty variant of MaskBits: every shift after which the bytes agree counts,
\* as without the break.
MaskBitsSummed(x, y) ==
    FoldLeft(LAMBDA n, j : IF x \div 2 ^ j = y \div 2 ^ j THEN n + j ELSE n, 0,
             [j \in 1 .. 7 |-> j])

MaskBits(x, y) == ShiftToAgree(x, y)

\* 8 for every byte in common, and for the first that differs the shift: more
\* the sooner the bits differ.
evalMask(a, b) ==
    IF a = b THEN 32
    ELSE LET i == SelectInSeq([k \in 1 .. 4 |-> a[k] # b[k]], LAMBDA differs : differs)
         IN  8 * (i - 1) + MaskBits(a[i], b[i])

\* The first address with the greatest mask, or src if all masks are 0.
findBestSubnet(src, interfaces) ==
    FoldLeft(LAMBDA r, ip : LET mask == evalMask(src, ip)
                            IN  IF mask > r.maxMask THEN [maxMask |-> mask, best |-> ip] ELSE r,
             [maxMask |-> 0, best |-> src], interfaces).best

\* Of what the operating system lists, the addresses of family AF_INET that
\* are not zero.
getNetworkInterfaces(listed) ==
    LET kept == SelectSeq(listed, LAMBDA ifa : ifa.family = "AF_INET" /\ ifa.addr # <<0, 0, 0, 0>>)
    IN  [k \in DOMAIN kept |-> kept[k].addr]

-----------------------------------------------------------------------------

\* How many whole bytes two addresses have in common.
CommonBytes(a, b) ==
    IF a = b THEN 4 ELSE SelectInSeq([k \in 1 .. 4 |-> a[k] # b[k]], LAMBDA differs : differs) - 1

=============================================================================
