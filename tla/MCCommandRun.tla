----------------------------- MODULE MCCommandRun -----------------------------
(* Command lines for TLC: any of up to two commands, and longer ones with a
   command before and after each that waits, fails or is malformed. *)
EXTENDS CommandRun

Upto(n, kinds) == UNION {[1..k -> kinds] : k \in 1..n}

Lines == Upto(2, Kinds) \cup Upto(3, {"type", "wait", "pause", "raise"})
==============================================================================
