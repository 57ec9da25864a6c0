---------------------------- MODULE AdminAccess ----------------------------
(***************************************************************************)
(* One account of the admin API: its password, its second factor and its   *)
(* sessions, used by concurrent requests.  Every store call is an await,    *)
(* so a request is a sequence of steps and any other request runs between   *)
(* two of them; the store's own writes are single statements behind one     *)
(* writer and are atomic.                                                   *)
(*   login, complete_totp, logout, authenticate: src/src/plugin/admin_auth.rs *)
(*   own-account routes: crates/pingap-admin-api/src/routes/account.rs       *)
(*   an administrator's routes: .../routes/users.rs                          *)
(*   the gate: src/src/plugin/admin.rs and .../rbac.rs                       *)
(* A password and a secret are numbers, a code is the TOTP step it is for,   *)
(* and the clock counts TOTP steps.                                          *)
(***************************************************************************)
EXTENDS Naturals, FiniteSets

CONSTANTS
    Reqs,           \* requests in progress at the same time
    MaxSessions,    \* bound: sessions ever created
    MaxPasswords,   \* bound: passwords the account ever has
    MaxSecrets,     \* bound: secrets ever generated
    MaxStep,        \* bound: TOTP steps the clock passes through
    Codes,          \* bound: the steps whose codes are presented
    MaxGuards,      \* bound: instances the admin plugin ever has
    SessionTtl,     \* SESSION_TTL, in TOTP steps
    Surfaces        \* bound: the sets of routes one behaviour's clients call

Routes == {"totp", "logout", "revoke", "setup", "enable", "disable", "password"}
AdminRoutes == {"update", "reset"}    \* another user's, on this account

ASSUME AccessAssumption ==
    /\ {MaxSessions, MaxSecrets} \subseteq Nat
    /\ {MaxPasswords, MaxStep, MaxGuards} \subseteq Nat \ {0}     \* all start at 1
    /\ Codes \subseteq 0 .. MaxStep
    /\ Surfaces \subseteq SUBSET (Routes \cup AdminRoutes)
    /\ SessionTtl \in Nat \ {0}

VARIABLES
    active,         \* users.is_active
    password,       \* users.password_hash, by the password it verifies
    factor,         \* two_factor_auth row: [secret, enabled]; secret 0 is ""
    sessions,       \* user_sessions rows, by id
    guard,          \* the plugin instance in use, each with a TotpGuard of its own
    spent,          \* TotpGuard.spent of each: steps whose code was accepted
    step,           \* now / TOTP_STEP
    generated,      \* secrets handed out by enrol_totp so far
    call,           \* the requests' local state
    surface,        \* the routes called in this behaviour
    \* ghosts
    accepted,       \* how often each guard accepted a code of each step
    confirmed       \* secrets a code of which was accepted

accessVars == <<active, password, factor, sessions, guard, spent, step, generated, call,
                surface, accepted, confirmed>>

Ids == 1 .. MaxSessions
Steps == 0 .. MaxStep
Guards == 1 .. MaxGuards
TotpSkew == 1
Nil == 0
Levels == {"PasswordOnly", "TwoFactor"}

\* A request's locals: the route and the session it authenticated with, the
\* password it carries, and what it read (is_active, the level, the ciphertext,
\* the ids to revoke); `start` is the clock its login began at, `guard` that of
\* the plugin instance that runs it, `old` (a ghost) the sessions open when a
\* password change was written.
NoReq == [pc |-> "idle", route |-> "none", sid |-> Nil, level |-> "PasswordOnly",
          live |-> FALSE, pwd |-> Nil, start |-> 0, secret |-> Nil, guard |-> 1,
          ids |-> {}, old |-> {}]

CallState == [pc : {"idle", "hash", "factor", "create", "user", "read", "verify", "write",
                   "list", "cut"},
             route : Routes \cup {"none"}, sid : 0 .. MaxSessions, level : Levels,
             live : BOOLEAN, pwd : 0 .. MaxPasswords, start : Steps,
             secret : 0 .. MaxSecrets, guard : Guards, ids : SUBSET Ids, old : SUBSET Ids]

\* Session::is_usable
IsUsable(s) == s \in DOMAIN sessions /\ ~sessions[s].revoked /\ sessions[s].expires > step

Doing(r, pc) == call[r].pc = pc
On(r, pc, routes) == call[r].pc = pc /\ call[r].route \in routes
Advance(r, pc) == call' = [call EXCEPT ![r].pc = pc]
Return(r) == call' = [call EXCEPT ![r] = NoReq]

account == <<active, password, factor, surface>>
guardVars == <<guard, spent, accepted, confirmed>>

AccessInit ==
    /\ active = TRUE
    /\ password = 1
    /\ factor = [secret |-> Nil, enabled |-> FALSE]
    /\ sessions = [s \in {} |-> NoReq]
    /\ guard = 1
    /\ spent = [g \in Guards |-> {}]
    /\ step = 1
    /\ generated = 0
    /\ call = [r \in Reqs |-> NoReq]
    /\ surface \in Surfaces
    /\ accepted = [g \in Guards |-> [c \in Steps |-> 0]]
    /\ confirmed = {}

-----------------------------------------------------------------------------
(* AdminAuth::login: the user row, the hash, the second factor and the insert *)
(* are four store calls.                                                      *)

\* find_user_by_username; the request carries password p
LoginUser(r, p) ==
    /\ Doing(r, "idle")
    /\ call' = [call EXCEPT ![r] = [NoReq EXCEPT !.pc = "hash", !.pwd = p, !.live = active,
                                               !.start = step]]
    /\ UNCHANGED <<account, sessions, guardVars, step, generated>>

\* password_hash_for and verify_password; an inactive user is refused after it
LoginHash(r) ==
    /\ Doing(r, "hash")
    /\ IF call[r].pwd = password /\ call[r].live
       THEN call' = [call EXCEPT ![r].pc = "factor", ![r].pwd = Nil, ![r].live = FALSE]
       ELSE Return(r)
    /\ UNCHANGED <<account, sessions, guardVars, step, generated>>

\* totp_secret_for: is a second factor outstanding?
LoginFactor(r) ==
    /\ Doing(r, "factor")
    /\ call' = [call EXCEPT ![r].pc = "create",
                          ![r].level = IF factor.enabled THEN "PasswordOnly" ELSE "TwoFactor"]
    /\ UNCHANGED <<account, sessions, guardVars, step, generated>>

\* create_session.  `own` is a ghost: the session needs no code or has spent one.
LoginCreate(r) ==
    /\ Doing(r, "create")
    /\ Cardinality(DOMAIN sessions) < MaxSessions
    /\ LET new == Cardinality(DOMAIN sessions) + 1 IN
       sessions' = [s \in DOMAIN sessions \cup {new} |->
                      IF s = new
                      THEN [level |-> call[r].level, revoked |-> FALSE,
                            expires |-> call[r].start + SessionTtl,
                            own |-> call[r].level = "TwoFactor"]
                      ELSE sessions[s]]
    /\ Return(r)
    /\ UNCHANGED <<account, guardVars, step, generated>>

-----------------------------------------------------------------------------
(* AdminAuth::authenticate reads the session and then the user, on every      *)
(* request; the gate after it is handle_request_admin's and authorize's: a    *)
(* password-only session may complete its second factor or log out, and       *)
(* mutate nothing.  Every route here is open to every role.                   *)

\* the routes that check a code
WithCode == {"totp", "enable", "disable"}

\* session_by_token, in the plugin instance that was in use when the request came
AuthSession(r, s, route) ==
    /\ Doing(r, "idle")
    /\ IsUsable(s)
    /\ call' = [call EXCEPT ![r] = [NoReq EXCEPT !.pc = "user", !.route = route, !.sid = s,
                                               !.level = sessions[s].level,
                                               !.guard = IF route \in WithCode THEN guard ELSE 1]]
    /\ UNCHANGED <<account, sessions, guardVars, step, generated>>

\* the routes that use the caller's session id again
OwnSession == {"totp", "logout", "password"}

Permitted(level, route) == level = "TwoFactor" \/ route \in {"totp", "logout"}

\* find_user_by_id, then the gate
AuthUser(r) ==
    /\ Doing(r, "user")
    /\ IF active /\ Permitted(call[r].level, call[r].route)
       THEN call' = [call EXCEPT ![r].pc = "read", ![r].level = "PasswordOnly",
                               ![r].sid = IF call[r].route \in OwnSession THEN @ ELSE Nil]
       ELSE Return(r)
    /\ UNCHANGED <<account, sessions, guardVars, step, generated>>

-----------------------------------------------------------------------------
(* The routes.                                                                *)

\* revoke_session: only an unrevoked row is written
RevokeSession(s) == sessions' = [sessions EXCEPT ![s].revoked = TRUE]

\* AdminAuth::logout
Logout(r) ==
    /\ On(r, "read", {"logout"})
    /\ RevokeSession(call[r].sid)
    /\ Return(r)
    /\ UNCHANGED <<account, guardVars, step, generated>>

\* revoke_session of account.rs: the caller's own listing, then the write
RevokeList(r, s) ==
    /\ On(r, "read", {"revoke"})
    /\ IF IsUsable(s)
       THEN call' = [call EXCEPT ![r].pc = "write", ![r].ids = {s}]
       ELSE Return(r)
    /\ UNCHANGED <<account, sessions, guardVars, step, generated>>

RevokeWrite(r) ==
    /\ On(r, "write", {"revoke"})
    /\ \E s \in call[r].ids : RevokeSession(s)
    /\ Return(r)
    /\ UNCHANGED <<account, guardVars, step, generated>>

\* What the routes that check a code make of the row they read: complete_totp
\* and second_factor_disable need it enabled, second_factor_enable non-empty.
HasFactor(route) == factor.secret # Nil /\ (factor.enabled \/ route = "enable")

\* totp_secret_for
FactorRead(r) ==
    /\ On(r, "read", WithCode)
    /\ IF HasFactor(call[r].route)
       THEN call' = [call EXCEPT ![r].pc = "verify", ![r].secret = factor.secret]
       ELSE Return(r)
    /\ UNCHANGED <<account, sessions, guardVars, step, generated>>

\* verify_once keeps the steps a code may still be presented for
Floor == IF step > TotpSkew + 1 THEN step - (TotpSkew + 1) ELSE 0

InWindow(code) == code <= step + TotpSkew /\ step <= code + TotpSkew

\* Mutant: the guard keeps what is younger than the current step only.
KeptThisStep(g) == {c \in spent[g] : c >= step}

\* What a guard still remembers when it is asked
Kept(g) == {c \in spent[g] : c >= Floor}

\* TotpGuard::verify_once for a code of the secret that was read
VerifyOnce(r, code) ==
    LET g == call[r].guard IN
    /\ Doing(r, "verify")
    /\ IF ~InWindow(code)
       THEN Return(r) /\ UNCHANGED <<sessions, guardVars>>
       ELSE /\ spent' = [spent EXCEPT ![g] = Kept(g) \cup {code}]
            /\ UNCHANGED guard
            /\ IF code \in Kept(g)
               THEN Return(r) /\ UNCHANGED <<sessions, accepted, confirmed>>
               ELSE /\ call' = [call EXCEPT ![r].pc = "write", ![r].guard = 1,
                                          ![r].secret = IF call[r].route = "enable" THEN @ ELSE Nil]
                    /\ accepted' = [accepted EXCEPT ![g][code] = @ + 1]
                    /\ confirmed' = confirmed \cup {call[r].secret}
                    /\ sessions' = IF call[r].route = "totp"
                                   THEN [sessions EXCEPT ![call[r].sid].own = TRUE]
                                   ELSE sessions
    /\ UNCHANGED <<account, step, generated>>

\* Mutant: complete_second_factor by user id, every open session is promoted.
TotpPromoteByUser(r) ==
    /\ On(r, "write", {"totp"})
    /\ sessions' = [s \in DOMAIN sessions |-> [sessions[s] EXCEPT !.level = "TwoFactor"]]
    /\ Return(r)
    /\ UNCHANGED <<account, guardVars, step, generated>>

\* complete_second_factor: this session only, and only while it is not revoked
TotpPromote(r) ==
    /\ On(r, "write", {"totp"})
    /\ sessions' = IF sessions[call[r].sid].revoked THEN sessions
                   ELSE [sessions EXCEPT ![call[r].sid].level = "TwoFactor"]
    /\ Return(r)
    /\ UNCHANGED <<account, guardVars, step, generated>>

SetFactor(secret, enabled) == factor' = [secret |-> secret, enabled |-> enabled]

\* second_factor_enable: the ciphertext it read, now enabled
EnableWrite(r) ==
    /\ On(r, "write", {"enable"})
    /\ SetFactor(call[r].secret, TRUE)
    /\ Return(r)
    /\ UNCHANGED <<active, password, surface, sessions, guardVars, step, generated>>

\* second_factor_disable: cleared, not merely disabled
DisableWrite(r) ==
    /\ On(r, "write", {"disable"})
    /\ SetFactor(Nil, FALSE)
    /\ Return(r)
    /\ UNCHANGED <<active, password, surface, sessions, guardVars, step, generated>>

\* second_factor_setup: refused while a factor is enabled
SetupRead(r) ==
    /\ On(r, "read", {"setup"})
    /\ IF factor.enabled /\ factor.secret # Nil THEN Return(r) ELSE Advance(r, "write")
    /\ UNCHANGED <<account, sessions, guardVars, step, generated>>

SetupWrite(r) ==
    /\ On(r, "write", {"setup"})
    /\ generated < MaxSecrets
    /\ generated' = generated + 1
    /\ SetFactor(generated + 1, FALSE)
    /\ Return(r)
    /\ UNCHANGED <<active, password, surface, sessions, guardVars, step>>

\* change_password: the current password p is checked against the stored hash
PasswordRead(r, p) ==
    /\ On(r, "read", {"password"})
    /\ IF p = password THEN Advance(r, "write") ELSE Return(r)
    /\ UNCHANGED <<account, sessions, guardVars, step, generated>>

\* Mutant: a session in its last step is taken for expired.
OthersOutlasting(r) ==
    {s \in DOMAIN sessions : s # call[r].sid /\ IsUsable(s) /\ sessions[s].expires > step + 1}

\* list_sessions but for the caller's own
Others(r) == {s \in DOMAIN sessions : s # call[r].sid /\ IsUsable(s)}

\* set_password_hash, to a password never used before
PasswordWrite(r) ==
    /\ On(r, "write", {"password"})
    /\ password < MaxPasswords
    /\ password' = password + 1
    /\ call' = [call EXCEPT ![r].pc = "list",
                             ![r].old = {s \in DOMAIN sessions : s # call[r].sid /\ IsUsable(s)}]
    /\ UNCHANGED <<active, factor, surface, sessions, guardVars, step, generated>>

\* list_sessions, after the write
PasswordList(r) ==
    /\ Doing(r, "list")
    /\ call' = [call EXCEPT ![r].pc = "cut", ![r].ids = Others(r)]
    /\ UNCHANGED <<account, sessions, guardVars, step, generated>>

\* the loop: one revoke_session per listed id
PasswordCut(r, s) ==
    /\ Doing(r, "cut")
    /\ s \in call[r].ids
    /\ RevokeSession(s)
    /\ call' = [call EXCEPT ![r].ids = @ \ {s}]
    /\ UNCHANGED <<account, guardVars, step, generated>>

PasswordDone(r) ==
    /\ Doing(r, "cut")
    /\ call[r].ids = {}
    /\ Return(r)
    /\ UNCHANGED <<account, sessions, guardVars, step, generated>>

\* A store call that fails: the handler's `?` ends the request where it is
StoreFails(r) ==
    /\ ~Doing(r, "idle")
    /\ Return(r)
    /\ UNCHANGED <<account, sessions, guardVars, step, generated>>

-----------------------------------------------------------------------------
(* An administrator's routes (users.rs: update, reset_second_factor), each a  *)
(* single write to this account.                                              *)

UpdateUser ==
    /\ "update" \in surface
    /\ active' = ~active
    /\ UNCHANGED <<password, factor, surface, sessions, guardVars, step, generated, call>>

ResetSecondFactor ==
    /\ "reset" \in surface
    /\ factor.secret # Nil
    /\ SetFactor(Nil, FALSE)
    /\ UNCHANGED <<active, password, surface, sessions, guardVars, step, generated, call>>

\* A reload with another admin configuration builds the plugin anew, with an
\* empty guard; requests under way go on in the old instance.  A restart does
\* the same and ends them.
RebuildPlugin ==
    /\ guard < MaxGuards
    /\ guard' = guard + 1
    /\ call' \in {call, [r \in Reqs |-> NoReq]}
    /\ UNCHANGED <<account, sessions, spent, accepted, confirmed, step, generated>>

StepPasses ==
    /\ step < MaxStep
    /\ step' = step + 1
    /\ UNCHANGED <<account, sessions, guardVars, generated, call>>

AccessNext ==
    \/ \E r \in Reqs :
         \/ \E p \in 1 .. password : LoginUser(r, p) \/ PasswordRead(r, p)
         \/ LoginHash(r) \/ LoginFactor(r) \/ LoginCreate(r)
         \/ \E s \in Ids, route \in surface \cap Routes : AuthSession(r, s, route)
         \/ AuthUser(r)
         \/ Logout(r)
         \/ \E s \in Ids : RevokeList(r, s)
         \/ RevokeWrite(r)
         \/ FactorRead(r)
         \/ \E code \in Codes : VerifyOnce(r, code)
         \/ TotpPromote(r) \/ EnableWrite(r) \/ DisableWrite(r)
         \/ SetupRead(r) \/ SetupWrite(r)
         \/ PasswordWrite(r) \/ PasswordList(r) \/ PasswordDone(r)
         \/ \E s \in Ids : PasswordCut(r, s)
         \/ StoreFails(r)
    \/ UpdateUser
    \/ ResetSecondFactor
    \/ RebuildPlugin
    \/ StepPasses

AccessSpec == AccessInit /\ [][AccessNext]_accessVars

-----------------------------------------------------------------------------
AccessTypeOK ==
    /\ active \in BOOLEAN
    /\ password \in 1 .. MaxPasswords
    /\ factor \in [secret : 0 .. MaxSecrets, enabled : BOOLEAN]
    /\ DOMAIN sessions \subseteq Ids
    /\ \A s \in DOMAIN sessions :
         sessions[s] \in [level : Levels, revoked : BOOLEAN, expires : Nat,
                          own : BOOLEAN]
    /\ guard \in Guards
    /\ spent \in [Guards -> SUBSET Steps]
    /\ step \in Steps
    /\ generated \in 0 .. MaxSecrets
    /\ call \in [Reqs -> CallState]
    /\ surface \in Surfaces
    /\ accepted \in [Guards -> [Steps -> Nat]]
    /\ confirmed \subseteq 1 .. MaxSecrets

\* A code is good once for as long as the plugin is not rebuilt: whichever
\* routes two requests present it to, whatever the clock does between them, one
\* TotpGuard accepts a step of this account at most one time, although it
\* forgets steps as they leave the window, and although requests that began
\* before a rebuild still use the old one.
CodeSpentOnce == \A g \in Guards, c \in Steps : accepted[g][c] <= 1

\* A session that holds the second factor level either was opened when the
\* account had none enabled or had a code of its own accepted: another
\* session's challenge never promotes it.
PromotedByOwnCode ==
    \A s \in DOMAIN sessions : sessions[s].level = "TwoFactor" => sessions[s].own

\* What a login is challenged by is a secret some device has proven it holds:
\* no interleaving of setup, enable, disable and an administrator's reset turns
\* on a secret that was never confirmed, which would lock the account out.
ArmedByCode == factor.enabled => factor.secret \in confirmed

\* What the second factor rests on, whatever the interleaving of the handlers'
\* awaited store calls: a guard accepts a code once, a session is promoted by a
\* code presented in it, and only a confirmed secret is armed.
AccessInv == AccessTypeOK /\ CodeSpentOnce /\ PromotedByOwnCode /\ ArmedByCode

\* When change_password reports success, every session other than the caller's
\* that was open when the new hash was written is unusable, including the ones
\* opened between the check of the old password and the write.
RotationCutsOff ==
    [][\A r \in Reqs : PasswordDone(r) => \A s \in call[r].old : ~IsUsable(s)]_accessVars

\* account.rs: setup "Refuses an account whose second factor is already enabled.
\* Overwriting a live secret would disarm it without a code".  The check and
\* the write are two store calls, so an enable between them is overwritten.
LiveSecretKept ==
    [][\A r \in Reqs : SetupWrite(r) => ~factor.enabled]_accessVars

\* auth.rs: TotpGuard "Rejects a TOTP code that has already been accepted".  The
\* guard is the plugin's, so a code of the current step works again in the
\* instance that a reload of another admin configuration, or a restart, brings.
CodeSpentOnceEver ==
    \A g, h \in Guards, c \in Steps : accepted[g][c] > 0 /\ accepted[h][c] > 0 => g = h
=============================================================================
