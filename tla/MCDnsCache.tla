----------------------------- MODULE MCDnsCache -----------------------------
(***************************************************************************)
(* A small instance of DnsCacheHistory: answers of up to two records whose *)
(* times to live agree or differ, are zero, or exceed MAX_CACHE_TTL.       *)
(***************************************************************************)
EXTENDS DnsCacheHistory

MCAnswers == {{}} \cup {{a, b} : a, b \in [record : Records, ttl : 0..MaxTtl]}

=============================================================================
