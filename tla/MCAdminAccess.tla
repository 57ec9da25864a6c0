---------------------------- MODULE MCAdminAccess ----------------------------
(* AdminAccess on small instances: enrolment and logins against each other, a *)
(* password change against logins and revocations, and an administrator and a *)
(* rebuild of the plugin against both.                                        *)
EXTENDS AdminAccess, TLC

CONSTANTS r1, r2

MCSurfaces == {{"totp", "setup", "enable", "disable", "reset"},
               {"password", "revoke", "logout", "update"}}

Symmetric == Permutations({r1, r2})
=============================================================================
