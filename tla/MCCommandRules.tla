--------------------------- MODULE MCCommandRules ---------------------------
(* CommandRules for TLC. *)
EXTENDS CommandRules

MCUnlisted == (NotForSharing \ Denied) \cup {"OBJECT"}
MCArgcs == (0 .. 6) \cup {UINT16_MAX, UINT16_MAX + 1, UINT16_MAX + 3}

\* Listed commands narrowed or denied, denied ones allowed, unlisted ones allowed or
\* allowed and dangerous.
MCOverrides ==
  {[word |-> w, rule |-> r] : w \in {"GET", "MGET"}, r \in {allow(3, 4), deny}}
    \cup {[word |-> w, rule |-> r] : w \in {"AUTH", "OBJECT", "WAIT"},
                                    r \in {allow(2, 3), Rule(TRUE, 2, 3, TRUE)}}
=============================================================================
