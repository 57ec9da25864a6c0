---------------------------- MODULE MCBanRegistry ----------------------------
(* BanRegistry on a small instance: one profile bans on the first failed     *)
(* login; the other detects a scan on the first missing path and bans on two *)
(* failed logins, for one client only.                                       *)
EXTENDS BanRegistry, TLC

CONSTANTS first, mixed

block(n) == [mode |-> "block", window |-> 1, threshold |-> n, ban_ttl |-> 1]
detect(n) == [mode |-> "detect", window |-> 1, threshold |-> n, ban_ttl |-> 1]

MCConfig ==
  (first :> [max_clients |-> 2, failed_login |-> {block(1)}, scan |-> {}]) @@
  (mixed :> [max_clients |-> 1, failed_login |-> {block(2)}, scan |-> {detect(1)}])

Symmetric == Permutations(Requests) \cup Permutations(Identities)
=============================================================================
