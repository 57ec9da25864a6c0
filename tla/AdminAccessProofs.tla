-------------------------- MODULE AdminAccessProofs --------------------------
(***************************************************************************)
(* Proofs about AdminAccess, for any number of requests, sessions,         *)
(* passwords, secrets, TOTP steps and plugin instances, and any set of      *)
(* routes called and codes presented.                                      *)
(*                                                                         *)
(* A handler acts on what it read some awaits ago, so the argument is what *)
(* every request may still rely on when it writes (RequestOK): the session *)
(* it authenticated with exists and has spent a code of its own, the       *)
(* secret it is about to arm is confirmed, the sessions a password change  *)
(* has to cut off are listed or unusable by now.  All of it is stable:     *)
(* sessions are never deleted, revocation, `own` and confirmation are      *)
(* never taken back and the clock only advances (Onward).  That a guard    *)
(* accepts a code once although it forgets steps rests on Remembers: a     *)
(* step it forgot has left the window.                                     *)
(***************************************************************************)
EXTENDS AdminAccess, FiniteSetTheorems, TLAPS

Session == [level : Levels, revoked : BOOLEAN, expires : Nat, own : BOOLEAN]

(* The session rows: numbered in order of creation, none ever deleted. *)
SessionsOK(ss) ==
  /\ \E n \in 0 .. MaxSessions : ss \in [1 .. n -> Session]
  /\ \A s \in DOMAIN ss : ss[s].level = "TwoFactor" => ss[s].own

(* IsUsable, of given rows at a given time. *)
Usable(s, ss, t) == s \in DOMAIN ss /\ ~ss[s].revoked /\ ss[s].expires > t

(* A request with locals c, given the rows, the clock and the confirmed secrets. *)
RequestOK(c, ss, t, conf) ==
  /\ c \in CallState
  /\ c.pc = "verify" => c.route \in WithCode /\ c.secret # Nil
  /\ c.pc = "user" \/ (c.pc \in {"read", "verify", "write"} /\ c.route \in OwnSession)
       => c.sid \in DOMAIN ss
  /\ c.pc = "write" /\ c.route = "totp" => ss[c.sid].own
  /\ c.pc = "write" /\ c.route = "enable" => c.secret \in conf
  /\ c.pc \in {"list", "cut"} => c.old \subseteq DOMAIN ss
  /\ c.pc = "list" => c.sid \notin c.old
  /\ c.pc = "cut" => \A s \in c.old : s \in c.ids \/ ~Usable(s, ss, t)

CallsOK ==
  /\ call \in [Reqs -> CallState]
  /\ \A r \in Reqs : RequestOK(call[r], sessions, step, confirmed)

(* One TotpGuard that holds sp and accepted ac, at time t: a step accepted is *)
(* remembered as long as its code is in the window.                           *)
Remembers(sp, ac, t) ==
  /\ sp \in SUBSET Steps
  /\ ac \in [Steps -> Nat]
  /\ \A c \in Steps : ac[c] <= 1 /\ (ac[c] = 0 \/ c \in sp \/ c + TotpSkew < t)

GuardOK ==
  /\ guard \in Guards
  /\ spent \in [Guards -> SUBSET Steps]
  /\ accepted \in [Guards -> [Steps -> Nat]]
  /\ \A g \in Guards : Remembers(spent[g], accepted[g], step)

AccountOK ==
  /\ active \in BOOLEAN
  /\ password \in 1 .. MaxPasswords
  /\ factor \in [secret : 0 .. MaxSecrets, enabled : BOOLEAN]
  /\ step \in Steps
  /\ generated \in 0 .. MaxSecrets
  /\ surface \in Surfaces
  /\ confirmed \subseteq 1 .. MaxSecrets
  /\ factor.enabled => factor.secret \in confirmed

Inv == AccountOK /\ GuardOK /\ SessionsOK(sessions) /\ CallsOK

(* What no step takes back. *)
Onward(ss, t, conf, ss2, t2, conf2) ==
  /\ DOMAIN ss \subseteq DOMAIN ss2
  /\ \A s \in DOMAIN ss : /\ ss[s].own => ss2[s].own
                          /\ ss[s].revoked => ss2[s].revoked
                          /\ ss2[s].expires = ss[s].expires
  /\ t \in Nat /\ t2 \in Nat /\ t <= t2
  /\ conf \subseteq conf2

OnwardNow == Onward(sessions, step, confirmed, sessions', step', confirmed')

LEMMA RequestKept ==
  ASSUME NEW c, NEW ss, NEW t, NEW conf, NEW ss2, NEW t2, NEW conf2,
         SessionsOK(ss), Onward(ss, t, conf, ss2, t2, conf2), RequestOK(c, ss, t, conf)
  PROVE  RequestOK(c, ss2, t2, conf2)
<1>1. ASSUME NEW s \in DOMAIN ss, Usable(s, ss2, t2) PROVE Usable(s, ss, t)
  BY <1>1 DEF Usable, Onward, SessionsOK, Session
<1>2. c.pc = "cut" => c.old \subseteq DOMAIN ss
  BY DEF RequestOK
<1>3. c.pc = "cut" => \A s \in c.old : s \in c.ids \/ ~Usable(s, ss2, t2)
  BY <1>1, <1>2 DEF RequestOK
<1>4. /\ c.pc = "user" \/ (c.pc \in {"read", "verify", "write"} /\ c.route \in OwnSession)
           => c.sid \in DOMAIN ss2
      /\ c.pc \in {"list", "cut"} => c.old \subseteq DOMAIN ss2
  BY DEF RequestOK, Onward
<1>5. c.pc = "write" /\ c.route = "totp" => ss2[c.sid].own
  BY DEF RequestOK, Onward, OwnSession
<1>6. c.pc = "write" /\ c.route = "enable" => c.secret \in conf2
  BY DEF RequestOK, Onward
<1> QED BY <1>3, <1>4, <1>5, <1>6 DEF RequestOK

(* One request advances, or none. *)
LEMMA OneMoves ==
  ASSUME Inv, OnwardNow, NEW r \in Reqs, NEW c,
         call' = [call EXCEPT ![r] = c],
         RequestOK(c, sessions', step', confirmed')
  PROVE  CallsOK'
<1>1. c \in CallState
  BY DEF RequestOK
<1>2. call' \in [Reqs -> CallState]
  BY <1>1 DEF Inv, CallsOK
<1>3. ASSUME NEW q \in Reqs PROVE RequestOK(call'[q], sessions', step', confirmed')
  <2>1. CASE q = r
    BY <2>1 DEF Inv, CallsOK
  <2>2. CASE q # r
    <3>1. call'[q] = call[q]
      BY <2>2 DEF Inv, CallsOK
    <3>2. RequestOK(call[q], sessions', step', confirmed')
      BY RequestKept DEF Inv, CallsOK, OnwardNow
    <3> QED BY <3>1, <3>2
  <2> QED BY <2>1, <2>2
<1> QED BY <1>2, <1>3 DEF CallsOK

LEMMA NoneMoves ==
  ASSUME Inv, OnwardNow, UNCHANGED call
  PROVE  CallsOK'
<1>1. ASSUME NEW q \in Reqs PROVE RequestOK(call'[q], sessions', step', confirmed')
  BY RequestKept DEF Inv, CallsOK, OnwardNow
<1> QED BY <1>1 DEF Inv, CallsOK

LEMMA NoReqOK ==
  ASSUME NEW ss, NEW t, NEW conf
  PROVE  NoReq \in CallState /\ NoReq.pc = "idle" /\ RequestOK(NoReq, ss, t, conf)
<1>1. NoReq \in CallState /\ NoReq.pc = "idle"
  BY AccessAssumption DEF NoReq, CallState, Steps, Nil, Levels, Ids, Guards
<1> QED BY <1>1 DEF RequestOK

LEMMA Returns ==
  ASSUME Inv, OnwardNow, NEW r \in Reqs, Return(r)
  PROVE  CallsOK'
BY OneMoves, NoReqOK DEF Return

(* A step that leaves the rows, the clock and the guard alone. *)
LEMMA Still ==
  ASSUME Inv, UNCHANGED <<sessions, guardVars, step>>
  PROVE  OnwardNow /\ GuardOK' /\ SessionsOK(sessions')
<1>1. step \in Nat
  BY AccessAssumption DEF Inv, AccountOK, Steps
<1>2. OnwardNow
  BY <1>1 DEF OnwardNow, Onward, guardVars
<1> QED BY <1>2 DEF Inv, GuardOK, guardVars

(* A step that also leaves the account alone: only a request moves. *)
LEMMA OnlyCalls ==
  ASSUME Inv, NEW r \in Reqs, NEW c, RequestOK(c, sessions, step, confirmed),
         call' = [call EXCEPT ![r] = c],
         UNCHANGED <<account, sessions, guardVars, step, generated>>
  PROVE  Inv'
<1>1. OnwardNow /\ GuardOK' /\ SessionsOK(sessions') /\ SessionsOK(sessions)'
  BY Still
<1>2. RequestOK(c, sessions', step', confirmed')
  BY DEF guardVars
<1>3. CallsOK'
  BY <1>1, <1>2, OneMoves
<1>4. AccountOK'
  BY DEF Inv, AccountOK, account, guardVars
<1> QED BY <1>1, <1>3, <1>4 DEF Inv

(* Small facts about the ranges, and the type of a request's locals. *)
LEMMA Ranges ==
  /\ Nil \in 0 .. MaxPasswords /\ Nil \in 0 .. MaxSecrets /\ Nil \in 0 .. MaxSessions
  /\ Ids \subseteq 0 .. MaxSessions /\ Steps \subseteq Nat
  /\ Guards \subseteq Nat /\ 1 \in Guards
BY AccessAssumption DEF Nil, Ids, Steps, Guards

LEMMA CallType ==
  ASSUME Inv, NEW r \in Reqs
  PROVE  call[r] \in CallState /\ RequestOK(call[r], sessions, step, confirmed)
BY DEF Inv, CallsOK

LEMMA InitInv == AccessInit => Inv
<1> SUFFICES ASSUME AccessInit PROVE Inv
  OBVIOUS
<1>1. AccountOK
  BY AccessAssumption DEF AccessInit, AccountOK, Steps, Nil
<1>2. GuardOK
  <2>1. \A c \in Steps : c \in Nat
    BY Ranges
  <2>2. Remembers({}, [c \in Steps |-> 0], step)
    BY <2>1 DEF Remembers
  <2> QED BY <2>2, Ranges DEF AccessInit, GuardOK
<1>3. SessionsOK(sessions)
  <2>1. sessions \in [1 .. 0 -> Session] /\ DOMAIN sessions = {}
    BY DEF AccessInit
  <2>2. 0 \in 0 .. MaxSessions
    BY AccessAssumption
  <2> QED BY <2>1, <2>2 DEF SessionsOK
<1>4. CallsOK
  <2>1. call = [r \in Reqs |-> NoReq]
    BY DEF AccessInit
  <2> QED BY <2>1, NoReqOK DEF CallsOK
<1> QED BY <1>1, <1>2, <1>3, <1>4 DEF Inv

-----------------------------------------------------------------------------
(* Login and authentication.                                                 *)

LEMMA Idles ==
  ASSUME Inv, NEW r \in Reqs, Return(r),
         UNCHANGED <<account, sessions, guardVars, step, generated>>
  PROVE  Inv'
BY OnlyCalls, NoReqOK DEF Return

LEMMA LoginInv ==
  ASSUME Inv, NEW r \in Reqs,
         (\E p \in 1 .. password : LoginUser(r, p)) \/ LoginHash(r) \/ LoginFactor(r)
  PROVE  Inv'
<1>1. ASSUME NEW p \in 1 .. password, LoginUser(r, p) PROVE Inv'
  <2> DEFINE c == [NoReq EXCEPT !.pc = "hash", !.pwd = p, !.live = active, !.start = step]
  <2>1. p \in 0 .. MaxPasswords /\ active \in BOOLEAN /\ step \in Steps
    BY AccessAssumption DEF Inv, AccountOK
  <2>2. c \in CallState /\ c.pc = "hash"
    BY <2>1, NoReqOK DEF CallState
  <2>3. RequestOK(c, sessions, step, confirmed)
    BY <2>2 DEF RequestOK
  <2>4. call' = [call EXCEPT ![r] = c] /\ UNCHANGED <<account, sessions, guardVars, step, generated>>
    BY <1>1 DEF LoginUser
  <2> HIDE DEF c
  <2> QED BY <2>3, <2>4, OnlyCalls
<1>2. CASE LoginHash(r)
  <2>1. CASE Return(r)
    BY <1>2, <2>1, Idles DEF LoginHash
  <2>2. CASE ~Return(r)
    <3> DEFINE c == [call[r] EXCEPT !.pc = "factor", !.pwd = Nil, !.live = FALSE]
    <3>1. call' = [call EXCEPT ![r] = c] /\ UNCHANGED <<account, sessions, guardVars, step, generated>>
      BY <1>2, <2>2 DEF LoginHash
    <3>2. c \in CallState /\ c.pc = "factor"
      BY CallType, Ranges DEF CallState
    <3>3. RequestOK(c, sessions, step, confirmed)
      BY <3>2 DEF RequestOK
    <3> HIDE DEF c
    <3> QED BY <3>1, <3>3, OnlyCalls
  <2> QED BY <2>1, <2>2
<1>3. CASE LoginFactor(r)
  <2> DEFINE l == IF factor.enabled THEN "PasswordOnly" ELSE "TwoFactor"
             c == [call[r] EXCEPT !.pc = "create", !.level = l]
  <2>1. call' = [call EXCEPT ![r] = c] /\ UNCHANGED <<account, sessions, guardVars, step, generated>>
    BY <1>3 DEF LoginFactor
  <2>2. c \in CallState /\ c.pc = "create"
    <3>1. l \in Levels
      BY DEF Levels
    <3> HIDE DEF l
    <3> QED BY <3>1, CallType, ZenonT(30) DEF CallState
  <2>3. RequestOK(c, sessions, step, confirmed)
    BY <2>2 DEF RequestOK
  <2> HIDE DEF c
  <2> QED BY <2>1, <2>3, OnlyCalls
<1> QED BY <1>1, <1>2, <1>3

LEMMA LoginCreateInv ==
  ASSUME Inv, NEW r \in Reqs, LoginCreate(r)
  PROVE  Inv'
<1> DEFINE new == Cardinality(DOMAIN sessions) + 1
           row == [level |-> call[r].level, revoked |-> FALSE,
                   expires |-> call[r].start + SessionTtl, own |-> call[r].level = "TwoFactor"]
<1>1. PICK n \in 0 .. MaxSessions : sessions \in [1 .. n -> Session]
  BY DEF Inv, SessionsOK
<1>2. n \in Nat /\ new = n + 1 /\ n < MaxSessions
  <2>1. n \in Nat /\ 1 \in Int /\ DOMAIN sessions = 1 .. n
    BY <1>1, AccessAssumption
  <2>2. Cardinality(1 .. n) = n
    BY <2>1, FS_Interval
  <2> QED BY <2>1, <2>2 DEF LoginCreate
<1>3. row \in Session /\ (row.level = "TwoFactor" => row.own)
  <2>1. call[r].level \in Levels /\ call[r].start \in Nat /\ SessionTtl \in Nat
    BY CallType, Ranges, AccessAssumption DEF CallState
  <2>2. call[r].start + SessionTtl \in Nat
    BY <2>1
  <2>3. (call[r].level = "TwoFactor") \in BOOLEAN
    OBVIOUS
  <2> QED BY <2>1, <2>2, <2>3 DEF Session
<1>4. sessions' = [s \in DOMAIN sessions \cup {new} |-> IF s = new THEN row ELSE sessions[s]]
  BY DEF LoginCreate
<1> HIDE DEF row, new
<1>5. sessions' \in [1 .. n + 1 -> Session] /\ n + 1 \in 0 .. MaxSessions
  <2>1. DOMAIN sessions \cup {new} = 1 .. n + 1
    BY <1>1, <1>2
  <2>2. n + 1 \in 0 .. MaxSessions
    BY <1>2, AccessAssumption
  <2> QED BY <1>1, <1>2, <1>3, <1>4, <2>1, <2>2
<1>6. SessionsOK(sessions')
  <2>1. \A s \in DOMAIN sessions' : sessions'[s].level = "TwoFactor" => sessions'[s].own
    BY <1>3, <1>4 DEF Inv, SessionsOK
  <2> QED BY <1>5, <2>1 DEF SessionsOK
<1>7. OnwardNow
  <2>1. step \in Nat /\ step' = step /\ confirmed' = confirmed
    BY AccessAssumption DEF LoginCreate, Inv, AccountOK, Steps, guardVars
  <2>2. new \notin DOMAIN sessions
    BY <1>1, <1>2
  <2> QED BY <1>4, <2>1, <2>2 DEF OnwardNow, Onward
<1>8. CallsOK'
  BY <1>7, Returns DEF LoginCreate
<1>9. AccountOK' /\ GuardOK'
  BY DEF LoginCreate, Inv, AccountOK, GuardOK, account, guardVars
<1> QED BY <1>6, <1>8, <1>9 DEF Inv

LEMMA AuthInv ==
  ASSUME Inv, NEW r \in Reqs,
         (\E s \in Ids, route \in surface \cap Routes : AuthSession(r, s, route)) \/ AuthUser(r)
  PROVE  Inv'
<1>1. ASSUME NEW s \in Ids, NEW route \in surface \cap Routes, AuthSession(r, s, route) PROVE Inv'
  <2> DEFINE c == [NoReq EXCEPT !.pc = "user", !.route = route, !.sid = s,
                                !.level = sessions[s].level,
                                !.guard = IF route \in WithCode THEN guard ELSE 1]
  <2>1. call' = [call EXCEPT ![r] = c] /\ UNCHANGED <<account, sessions, guardVars, step, generated>>
    BY <1>1 DEF AuthSession
  <2>2. s \in DOMAIN sessions /\ s \in 0 .. MaxSessions /\ sessions[s].level \in Levels
    <3>1. s \in DOMAIN sessions
      BY <1>1 DEF AuthSession, IsUsable
    <3> QED BY <3>1, Ranges DEF Inv, SessionsOK, Session
  <2>3. route \in Routes /\ (IF route \in WithCode THEN guard ELSE 1) \in Guards
    BY Ranges DEF Inv, GuardOK
  <2>4. c \in CallState /\ c.pc = "user" /\ c.sid = s
    BY <2>2, <2>3, NoReqOK DEF CallState
  <2>5. RequestOK(c, sessions, step, confirmed)
    BY <2>2, <2>4 DEF RequestOK
  <2> HIDE DEF c
  <2> QED BY <2>1, <2>5, OnlyCalls
<1>2. CASE AuthUser(r)
  <2>1. CASE Return(r)
    BY <1>2, <2>1, Idles DEF AuthUser
  <2>2. CASE ~Return(r)
    <3> DEFINE sid == IF call[r].route \in OwnSession THEN call[r].sid ELSE Nil
               c == [call[r] EXCEPT !.pc = "read", !.level = "PasswordOnly", !.sid = sid]
    <3>1. call' = [call EXCEPT ![r] = c] /\ UNCHANGED <<account, sessions, guardVars, step, generated>>
      BY <1>2, <2>2 DEF AuthUser, Inv, CallsOK
    <3>2. /\ c \in CallState /\ c.pc = "read"
          /\ c.route = call[r].route /\ (c.route \in OwnSession => c.sid = call[r].sid)
      <4>1. sid \in 0 .. MaxSessions /\ (call[r].route \in OwnSession => sid = call[r].sid)
        BY CallType, Ranges DEF CallState
      <4> HIDE DEF sid
      <4> QED BY <4>1, CallType, ZenonT(30) DEF CallState, Levels
    <3>3. call[r].pc = "user" /\ call[r].sid \in DOMAIN sessions
      BY <1>2 DEF AuthUser, Doing, Inv, CallsOK, RequestOK
    <3>4. RequestOK(c, sessions, step, confirmed)
      BY <3>2, <3>3 DEF RequestOK
    <3> HIDE DEF c
    <3> QED BY <3>1, <3>4, OnlyCalls
  <2> QED BY <2>1, <2>2
<1> QED BY <1>1, <1>2

-----------------------------------------------------------------------------
(* The routes.                                                               *)

(* A row written in place: the level, the mark or the revocation of one session. *)
RowWrite(ss, ss2, x) ==
  \/ ss2 = ss
  \/ ss2 = [ss EXCEPT ![x].revoked = TRUE]
  \/ ss2 = [ss EXCEPT ![x].own = TRUE]
  \/ x \in DOMAIN ss /\ ss[x].own /\ ss2 = [ss EXCEPT ![x].level = "TwoFactor"]

LEMMA RowWritten ==
  ASSUME NEW ss, NEW ss2, NEW x, SessionsOK(ss), RowWrite(ss, ss2, x)
  PROVE  /\ SessionsOK(ss2) /\ DOMAIN ss2 = DOMAIN ss
         /\ \A s \in DOMAIN ss : /\ ss[s].own => ss2[s].own
                                 /\ ss[s].revoked => ss2[s].revoked
                                 /\ ss2[s].expires = ss[s].expires
<1>1. PICK n \in 0 .. MaxSessions : ss \in [1 .. n -> Session]
  BY DEF SessionsOK
<1> DEFINE Row(s) == /\ ss2[s] \in Session
                     /\ ss[s].own => ss2[s].own
                     /\ ss[s].revoked => ss2[s].revoked
                     /\ ss2[s].expires = ss[s].expires
                     /\ ss2[s].level = "TwoFactor" => ss2[s].own
<1>2. DOMAIN ss = 1 .. n /\ DOMAIN ss2 = 1 .. n /\ ss2 = [s \in 1 .. n |-> ss2[s]]
  <2>1. CASE ss2 = ss
    BY <1>1, <2>1
  <2>2. CASE ss2 = [ss EXCEPT ![x].revoked = TRUE]
    BY <1>1, <2>2
  <2>3. CASE ss2 = [ss EXCEPT ![x].own = TRUE]
    BY <1>1, <2>3
  <2>4. CASE ss2 = [ss EXCEPT ![x].level = "TwoFactor"]
    BY <1>1, <2>4
  <2> QED BY <2>1, <2>2, <2>3, <2>4 DEF RowWrite
<1>3. ASSUME NEW s \in 1 .. n PROVE Row(s)
  <2>1. ss[s] \in Session /\ (ss[s].level = "TwoFactor" => ss[s].own)
    BY <1>1 DEF SessionsOK
  <2>2. \/ ss2[s] = ss[s]
        \/ ss2[s] = [ss[s] EXCEPT !.revoked = TRUE]
        \/ ss2[s] = [ss[s] EXCEPT !.own = TRUE]
        \/ ss[s].own /\ ss2[s] = [ss[s] EXCEPT !.level = "TwoFactor"]
    BY <1>1 DEF RowWrite
  <2>3. CASE ss2[s] = ss[s]
    BY <2>1, <2>3
  <2>4. CASE ss2[s] = [ss[s] EXCEPT !.revoked = TRUE]
    BY <2>1, <2>4 DEF Session
  <2>5. CASE ss2[s] = [ss[s] EXCEPT !.own = TRUE]
    BY <2>1, <2>5 DEF Session
  <2>6. CASE ss[s].own /\ ss2[s] = [ss[s] EXCEPT !.level = "TwoFactor"]
    BY <2>1, <2>6 DEF Session, Levels
  <2> QED BY <2>2, <2>3, <2>4, <2>5, <2>6
<1>4. ss2 \in [1 .. n -> Session]
  BY <1>2, <1>3
<1> QED BY <1>2, <1>3, <1>4 DEF SessionsOK

(* A step of one request that writes a row and nothing else of the account. *)
LEMMA RowStep ==
  ASSUME Inv, NEW r \in Reqs, NEW x, NEW c,
         RowWrite(sessions, sessions', x),
         call' = [call EXCEPT ![r] = c],
         RequestOK(c, sessions', step, confirmed),
         UNCHANGED <<account, guardVars, step, generated>>
  PROVE  Inv'
<1>1. /\ SessionsOK(sessions') /\ DOMAIN sessions' = DOMAIN sessions
      /\ \A s \in DOMAIN sessions : /\ sessions[s].own => sessions'[s].own
                                    /\ sessions[s].revoked => sessions'[s].revoked
                                    /\ sessions'[s].expires = sessions[s].expires
  BY RowWritten DEF Inv
<1>2. OnwardNow
  <2>1. step \in Nat
    BY Ranges DEF Inv, AccountOK
  <2> QED BY <1>1, <2>1 DEF OnwardNow, Onward, guardVars
<1>3. CallsOK'
  <2>1. RequestOK(c, sessions', step', confirmed')
    BY DEF guardVars
  <2> QED BY <1>2, <2>1, OneMoves
<1>4. AccountOK' /\ GuardOK'
  BY DEF Inv, AccountOK, GuardOK, account, guardVars
<1> QED BY <1>1, <1>3, <1>4 DEF Inv

LEMMA RevokeInv ==
  ASSUME Inv, NEW r \in Reqs,
         Logout(r) \/ (\E s \in Ids : RevokeList(r, s)) \/ RevokeWrite(r) \/ TotpPromote(r)
  PROVE  Inv'
<1>1. CASE Logout(r)
  <2>1. RowWrite(sessions, sessions', call[r].sid)
    BY <1>1 DEF Logout, RevokeSession, RowWrite
  <2> QED BY <1>1, <2>1, RowStep, NoReqOK DEF Logout, Return
<1>2. ASSUME NEW s \in Ids, RevokeList(r, s) PROVE Inv'
  <2>1. CASE Return(r)
    BY <1>2, <2>1, Idles DEF RevokeList
  <2>2. CASE ~Return(r)
    <3> DEFINE c == [call[r] EXCEPT !.pc = "write", !.ids = {s}]
    <3>1. call' = [call EXCEPT ![r] = c] /\ UNCHANGED <<account, sessions, guardVars, step, generated>>
      BY <1>2, <2>2 DEF RevokeList
    <3>2. c \in CallState /\ c.pc = "write" /\ c.route = "revoke"
      BY <1>2, CallType DEF CallState, RevokeList, On
    <3>3. RequestOK(c, sessions, step, confirmed)
      BY <3>2 DEF RequestOK, OwnSession
    <3> HIDE DEF c
    <3> QED BY <3>1, <3>3, OnlyCalls
  <2> QED BY <2>1, <2>2
<1>3. CASE RevokeWrite(r)
  <2>1. PICK s \in call[r].ids : RevokeSession(s)
    BY <1>3 DEF RevokeWrite
  <2>2. RowWrite(sessions, sessions', s)
    BY <2>1 DEF RevokeSession, RowWrite
  <2> QED BY <1>3, <2>2, RowStep, NoReqOK DEF RevokeWrite, Return
<1>4. CASE TotpPromote(r)
  <2>1. call[r].pc = "write" /\ call[r].route = "totp"
    BY <1>4 DEF TotpPromote, On
  <2>2. call[r].sid \in DOMAIN sessions /\ sessions[call[r].sid].own
    BY <2>1, CallType DEF RequestOK, OwnSession
  <2>3. RowWrite(sessions, sessions', call[r].sid)
    BY <1>4, <2>2 DEF TotpPromote, RowWrite
  <2>4. /\ call' = [call EXCEPT ![r] = NoReq]
        /\ UNCHANGED <<account, guardVars, step, generated>>
    BY <1>4 DEF TotpPromote, Return
  <2> QED BY <2>3, <2>4, RowStep, NoReqOK
<1> QED BY <1>1, <1>2, <1>3, <1>4

LEMMA FactorReadInv ==
  ASSUME Inv, NEW r \in Reqs, FactorRead(r)
  PROVE  Inv'
<1>1. CASE Return(r)
  BY <1>1, Idles DEF FactorRead
<1>2. CASE ~Return(r)
  <2> DEFINE c == [call[r] EXCEPT !.pc = "verify", !.secret = factor.secret]
  <2>1. call' = [call EXCEPT ![r] = c] /\ UNCHANGED <<account, sessions, guardVars, step, generated>>
    BY <1>2 DEF FactorRead
  <2>2. factor.secret \in 0 .. MaxSecrets /\ factor.secret # Nil
    BY <1>2 DEF FactorRead, HasFactor, Inv, AccountOK
  <2>3. call[r].pc = "read" /\ call[r].route \in WithCode
    BY DEF FactorRead, On
  <2>4. /\ c \in CallState /\ c.pc = "verify" /\ c.route = call[r].route
        /\ c.secret # Nil /\ c.sid = call[r].sid
    BY <2>2, CallType DEF CallState
  <2>5. RequestOK(c, sessions, step, confirmed)
    BY <2>3, <2>4, CallType DEF RequestOK
  <2> HIDE DEF c
  <2> QED BY <2>1, <2>5, OnlyCalls
<1> QED BY <1>1, <1>2

(* A code in its window is found if it was accepted before: what the guard *)
(* forgets is older than any code in the window.                           *)
LEMMA GuardChecks ==
  ASSUME NEW sp, NEW ac, Remembers(sp, ac, step), step \in Steps, NEW code \in Steps,
         InWindow(code), NEW kept, kept = {c \in sp : c >= Floor}
  PROVE  /\ code \in kept => Remembers(kept \cup {code}, ac, step)
         /\ code \notin kept => Remembers(kept \cup {code}, [ac EXCEPT ![code] = @ + 1], step)
<1>1. step \in Nat /\ code \in Nat /\ \A c \in Steps : c \in Nat
  BY Ranges
<1>2. ASSUME NEW c \in Steps, c < Floor PROVE c + TotpSkew < step
  BY <1>1, <1>2 DEF Floor, TotpSkew
<1>3. Floor \in Nat
  BY <1>1 DEF Floor, TotpSkew
<1>4. ~(code + TotpSkew < step)
  BY <1>1 DEF InWindow, TotpSkew
<1>5. ASSUME NEW c \in Steps
      PROVE  ac[c] = 0 \/ c \in kept \/ c + TotpSkew < step
  <2>1. CASE c < Floor
    BY <2>1, <1>2
  <2>2. CASE c >= Floor
    BY <2>2 DEF Remembers
  <2> QED BY <1>1, <1>3, <2>1, <2>2
<1>6. kept \cup {code} \in SUBSET Steps /\ ac \in [Steps -> Nat] /\ \A c \in Steps : ac[c] <= 1
  BY DEF Remembers
<1>7. code \in kept => Remembers(kept \cup {code}, ac, step)
  BY <1>5, <1>6 DEF Remembers
<1>8. ASSUME code \notin kept PROVE Remembers(kept \cup {code}, [ac EXCEPT ![code] = @ + 1], step)
  <2> DEFINE a2 == [ac EXCEPT ![code] = @ + 1]
  <2>1. ac[code] = 0
    BY <1>4, <1>5, <1>8
  <2>2. a2 \in [Steps -> Nat] /\ a2[code] = 1 /\ \A c \in Steps : c # code => a2[c] = ac[c]
    BY <1>6, <2>1
  <2> HIDE DEF a2
  <2>3. \A c \in Steps : a2[c] <= 1 /\ (a2[c] = 0 \/ c \in kept \cup {code} \/ c + TotpSkew < step)
    BY <1>5, <1>6, <2>2
  <2>4. Remembers(kept \cup {code}, a2, step)
    BY <1>6, <2>2, <2>3 DEF Remembers
  <2> QED BY <2>4 DEF a2
<1> QED BY <1>7, <1>8

(* One guard is asked. *)
LEMMA GuardAsked ==
  ASSUME GuardOK, NEW g \in Guards, NEW sp, NEW ac, Remembers(sp, ac, step),
         spent' = [spent EXCEPT ![g] = sp], accepted' = [accepted EXCEPT ![g] = ac],
         UNCHANGED <<guard, step>>
  PROVE  GuardOK'
<1>1. sp \in SUBSET Steps /\ ac \in [Steps -> Nat]
  BY DEF Remembers
<1>2. spent' \in [Guards -> SUBSET Steps] /\ accepted' \in [Guards -> [Steps -> Nat]]
  BY <1>1 DEF GuardOK
<1>3. ASSUME NEW h \in Guards PROVE Remembers(spent'[h], accepted'[h], step)
  <2>1. CASE h = g
    <3>1. spent'[h] = sp /\ accepted'[h] = ac
      BY <2>1 DEF GuardOK
    <3> QED BY <3>1
  <2>2. CASE h # g
    <3>1. spent'[h] = spent[h] /\ accepted'[h] = accepted[h]
      BY <2>2 DEF GuardOK
    <3> QED BY <3>1 DEF GuardOK
  <2> QED BY <2>1, <2>2
<1> QED BY <1>2, <1>3 DEF GuardOK

LEMMA VerifyInv ==
  ASSUME Inv, NEW r \in Reqs, NEW code \in Steps, VerifyOnce(r, code)
  PROVE  Inv'
<1> DEFINE g == call[r].guard
           kept == Kept(g)
<1>0. /\ call[r].pc = "verify" /\ call[r].route \in WithCode
      /\ call[r].secret # Nil
  BY CallType DEF VerifyOnce, Doing, RequestOK
<1>g. /\ g \in Guards /\ Remembers(spent[g], accepted[g], step) /\ step \in Steps
      /\ kept = {c \in spent[g] : c >= Floor}
  BY CallType DEF CallState, Inv, GuardOK, AccountOK, Kept
<1>1. CASE ~InWindow(code)
  BY <1>1, Idles DEF VerifyOnce, guardVars
<1>2. CASE InWindow(code) /\ code \in kept
  <2>1. /\ spent' = [spent EXCEPT ![g] = kept \cup {code}] /\ Return(r)
        /\ UNCHANGED <<account, sessions, guard, accepted, confirmed, step, generated>>
    BY <1>2 DEF VerifyOnce
  <2> HIDE DEF kept, g
  <2>2. Remembers(kept \cup {code}, accepted[g], step)
    BY <1>2, <1>g, GuardChecks
  <2>3. GuardOK'
    <3>1. accepted' = [accepted EXCEPT ![g] = accepted[g]]
      BY <1>g, <2>1 DEF Inv, GuardOK
    <3> QED BY <1>g, <2>1, <2>2, <3>1, GuardAsked DEF Inv
  <2>4. OnwardNow
    BY <2>1, Ranges DEF Inv, AccountOK, OnwardNow, Onward
  <2>5. CallsOK'
    BY <2>1, <2>4, Returns
  <2>6. AccountOK' /\ SessionsOK(sessions')
    BY <2>1 DEF Inv, AccountOK, account
  <2> QED BY <2>3, <2>5, <2>6 DEF Inv
<1>3. CASE InWindow(code) /\ code \notin kept
  <2> DEFINE sec == IF call[r].route = "enable" THEN call[r].secret ELSE Nil
             c == [call[r] EXCEPT !.pc = "write", !.guard = 1, !.secret = sec]
  <2>1. /\ spent' = [spent EXCEPT ![g] = kept \cup {code}]
        /\ call' = [call EXCEPT ![r] = c]
        /\ accepted' = [accepted EXCEPT ![g][code] = @ + 1]
        /\ confirmed' = confirmed \cup {call[r].secret}
        /\ sessions' = IF call[r].route = "totp" THEN [sessions EXCEPT ![call[r].sid].own = TRUE]
                       ELSE sessions
        /\ UNCHANGED <<account, guard, step, generated>>
    BY <1>3 DEF VerifyOnce, Inv, CallsOK
  <2>3. GuardOK'
    <3> HIDE DEF kept, g
    <3>1. Remembers(kept \cup {code}, [accepted[g] EXCEPT ![code] = @ + 1], step)
      BY <1>3, <1>g, GuardChecks
    <3>2. accepted' = [accepted EXCEPT ![g] = [accepted[g] EXCEPT ![code] = @ + 1]]
      BY <2>1
    <3> QED BY <1>g, <2>1, <3>1, <3>2, GuardAsked DEF Inv
  <2>4. /\ SessionsOK(sessions') /\ DOMAIN sessions' = DOMAIN sessions
        /\ \A s \in DOMAIN sessions : /\ sessions[s].own => sessions'[s].own
                                      /\ sessions[s].revoked => sessions'[s].revoked
                                      /\ sessions'[s].expires = sessions[s].expires
    <3>1. RowWrite(sessions, sessions', call[r].sid)
      BY <2>1 DEF RowWrite
    <3> QED BY <3>1, RowWritten DEF Inv
  <2>5. OnwardNow
    BY <2>1, <2>4, Ranges DEF Inv, AccountOK, OnwardNow, Onward
  <2>6. /\ sec \in 0 .. MaxSecrets
        /\ call[r].route = "enable" => sec \in confirmed'
    BY <2>1, CallType, Ranges DEF CallState
  <2> HIDE DEF sec
  <2>7. /\ c \in CallState /\ c.pc = "write" /\ c.route = call[r].route
        /\ c.secret = sec /\ c.sid = call[r].sid
    BY <2>6, CallType, Ranges DEF CallState
  <2>8. c.route \in OwnSession => c.sid \in DOMAIN sessions'
    BY <1>0, <2>4, <2>7, CallType DEF RequestOK
  <2>9. c.route = "totp" => sessions'[c.sid].own
    <3>1. SUFFICES ASSUME call[r].route = "totp" PROVE sessions'[call[r].sid].own
      BY <2>7
    <3>2. call[r].sid \in DOMAIN sessions
      BY <1>0, <3>1, CallType DEF RequestOK, OwnSession
    <3>3. sessions' = [sessions EXCEPT ![call[r].sid].own = TRUE]
      BY <2>1, <3>1
    <3> QED BY <3>2, <3>3 DEF Inv, SessionsOK, Session
  <2>10. RequestOK(c, sessions', step', confirmed')
    BY <2>6, <2>7, <2>8, <2>9 DEF RequestOK
  <2>11. CallsOK'
    <3> HIDE DEF c
    <3> QED BY <2>1, <2>5, <2>10, OneMoves
  <2>12. AccountOK'
    <3>1. call[r].secret \in 1 .. MaxSecrets
      BY <1>0, CallType, AccessAssumption DEF CallState, Nil
    <3> QED BY <2>1, <3>1 DEF Inv, AccountOK, account
  <2> QED BY <2>3, <2>4, <2>11, <2>12 DEF Inv
<1> QED BY <1>1, <1>2, <1>3

LEMMA FactorWriteInv ==
  ASSUME Inv, NEW r \in Reqs, EnableWrite(r) \/ DisableWrite(r) \/ SetupWrite(r)
  PROVE  Inv'
<1>1. Return(r) /\ UNCHANGED <<active, password, surface, sessions, guardVars, step>>
  BY DEF EnableWrite, DisableWrite, SetupWrite
<1>2. OnwardNow /\ GuardOK' /\ SessionsOK(sessions')
  BY <1>1, Still
<1>3. CallsOK'
  BY <1>1, <1>2, Returns
<1>4. PICK x \in 0 .. MaxSecrets, b \in BOOLEAN :
        factor' = [secret |-> x, enabled |-> b] /\ (b => x \in confirmed)
  <2>1. CASE EnableWrite(r)
    <3>1. call[r].secret \in 0 .. MaxSecrets /\ call[r].secret \in confirmed
      BY <2>1, CallType DEF EnableWrite, On, RequestOK, CallState
    <3> QED BY <2>1, <3>1 DEF EnableWrite, SetFactor
  <2>2. CASE DisableWrite(r)
    BY <2>2, Ranges DEF DisableWrite, SetFactor
  <2>3. CASE SetupWrite(r)
    <3>1. generated + 1 \in 0 .. MaxSecrets
      BY <2>3, AccessAssumption DEF SetupWrite, Inv, AccountOK
    <3> QED BY <2>3, <3>1 DEF SetupWrite, SetFactor
  <2> QED BY <2>1, <2>2, <2>3
<1>5. generated' \in 0 .. MaxSecrets
  <2>1. generated \in 0 .. MaxSecrets /\ MaxSecrets \in Nat
    BY AccessAssumption DEF Inv, AccountOK
  <2>2. generated' = generated \/ (generated < MaxSecrets /\ generated' = generated + 1)
    BY DEF EnableWrite, DisableWrite, SetupWrite
  <2> QED BY <2>1, <2>2
<1>6. AccountOK'
  <2>1. factor' \in [secret : 0 .. MaxSecrets, enabled : BOOLEAN]
        /\ (factor'.enabled => factor'.secret \in confirmed)
    BY <1>4
  <2> QED BY <1>1, <1>5, <2>1 DEF Inv, AccountOK, guardVars
<1> QED BY <1>2, <1>3, <1>6 DEF Inv

(* The reads that only send the request on to its write. *)
LEMMA ReadInv ==
  ASSUME Inv, NEW r \in Reqs, SetupRead(r) \/ (\E p \in 1 .. password : PasswordRead(r, p))
  PROVE  Inv'
<1>1. UNCHANGED <<account, sessions, guardVars, step, generated>>
  BY DEF SetupRead, PasswordRead
<1>2. CASE Return(r)
  BY <1>1, <1>2, Idles
<1>3. CASE ~Return(r)
  <2> DEFINE c == [call[r] EXCEPT !.pc = "write"]
  <2>1. /\ call' = [call EXCEPT ![r] = c]
        /\ call[r].pc = "read" /\ call[r].route \in {"setup", "password"}
    BY <1>3 DEF SetupRead, PasswordRead, Advance, On
  <2>2. /\ c \in CallState /\ c.pc = "write" /\ c.route = call[r].route
        /\ c.sid = call[r].sid
    BY CallType DEF CallState
  <2>3. RequestOK(c, sessions, step, confirmed)
    BY <2>1, <2>2, CallType DEF RequestOK
  <2> HIDE DEF c
  <2> QED BY <1>1, <2>1, <2>3, OnlyCalls
<1> QED BY <1>2, <1>3

LEMMA PasswordWriteInv ==
  ASSUME Inv, NEW r \in Reqs, PasswordWrite(r)
  PROVE  Inv'
<1> DEFINE o == {s \in DOMAIN sessions : s # call[r].sid /\ IsUsable(s)}
           c == [call[r] EXCEPT !.pc = "list", !.old = o]
<1>1. /\ call' = [call EXCEPT ![r] = c] /\ password' \in 1 .. MaxPasswords
      /\ UNCHANGED <<active, factor, surface, sessions, guardVars, step, generated>>
  <2>1. password \in 1 .. MaxPasswords /\ MaxPasswords \in Nat
    BY AccessAssumption DEF Inv, AccountOK
  <2>2. password < MaxPasswords /\ password' = password + 1
    BY DEF PasswordWrite
  <2>3. password' \in 1 .. MaxPasswords
    BY <2>1, <2>2
  <2> QED BY <2>3 DEF PasswordWrite
<1>2. DOMAIN sessions \subseteq Ids
  BY AccessAssumption DEF Inv, SessionsOK, Ids
<1>3. o \in SUBSET Ids /\ o \subseteq DOMAIN sessions /\ call[r].sid \notin o
  BY <1>2
<1> HIDE DEF o
<1>4. c \in CallState /\ c.pc = "list" /\ c.old = o /\ c.sid = call[r].sid
  BY <1>3, CallType DEF CallState
<1>5. RequestOK(c, sessions, step, confirmed)
  BY <1>3, <1>4 DEF RequestOK
<1> HIDE DEF c
<1>6. OnwardNow /\ GuardOK' /\ SessionsOK(sessions')
  BY <1>1, Still
<1>7. CallsOK'
  BY <1>1, <1>5, <1>6, OneMoves DEF guardVars
<1>8. AccountOK'
  BY <1>1 DEF Inv, AccountOK, guardVars
<1> QED BY <1>6, <1>7, <1>8 DEF Inv

LEMMA PasswordCutInv ==
  ASSUME Inv, NEW r \in Reqs,
         PasswordList(r) \/ (\E s \in Ids : PasswordCut(r, s)) \/ PasswordDone(r)
  PROVE  Inv'
<1>1. CASE PasswordList(r)
  <2> DEFINE o == Others(r)
             c == [call[r] EXCEPT !.pc = "cut", !.ids = o]
  <2>1. /\ call' = [call EXCEPT ![r] = c] /\ call[r].pc = "list"
        /\ UNCHANGED <<account, sessions, guardVars, step, generated>>
    BY <1>1 DEF PasswordList, Doing
  <2>2. DOMAIN sessions \subseteq Ids
    BY AccessAssumption DEF Inv, SessionsOK, Ids
  <2>3. /\ o \in SUBSET Ids
        /\ \A s \in DOMAIN sessions : s # call[r].sid => s \in o \/ ~Usable(s, sessions, step)
    BY <2>2 DEF Others, IsUsable, Usable
  <2> HIDE DEF o
  <2>4. c \in CallState /\ c.pc = "cut" /\ c.ids = o /\ c.old = call[r].old
    BY <2>3, CallType DEF CallState
  <2>5. call[r].old \subseteq DOMAIN sessions /\ call[r].sid \notin call[r].old
    BY <2>1, CallType DEF RequestOK
  <2>6. RequestOK(c, sessions, step, confirmed)
    BY <2>3, <2>4, <2>5 DEF RequestOK
  <2> HIDE DEF c
  <2> QED BY <2>1, <2>6, OnlyCalls
<1>2. ASSUME NEW s \in Ids, PasswordCut(r, s) PROVE Inv'
  <2> DEFINE i == call[r].ids \ {s}
             c == [call[r] EXCEPT !.ids = i]
  <2>1. /\ call' = [call EXCEPT ![r] = c] /\ call[r].pc = "cut"
        /\ sessions' = [sessions EXCEPT ![s].revoked = TRUE]
        /\ UNCHANGED <<account, guardVars, step, generated>>
    BY <1>2 DEF PasswordCut, Doing, RevokeSession, Inv, CallsOK
  <2>2. RowWrite(sessions, sessions', s)
    BY <2>1 DEF RowWrite
  <2>3. i \in SUBSET Ids
    BY CallType DEF CallState
  <2>4. c \in CallState /\ c.pc = "cut" /\ c.ids = i /\ c.old = call[r].old
    <3> HIDE DEF i
    <3> QED BY <2>1, <2>3, CallType DEF CallState
  <2>5. /\ call[r].old \subseteq DOMAIN sessions
        /\ \A x \in call[r].old : x \in call[r].ids \/ ~Usable(x, sessions, step)
    BY <2>1, CallType DEF RequestOK
  <2>6. /\ DOMAIN sessions' = DOMAIN sessions
        /\ \A x \in DOMAIN sessions : /\ sessions[x].revoked => sessions'[x].revoked
                                      /\ sessions'[x].expires = sessions[x].expires
    BY <2>2, RowWritten DEF Inv
  <2>7. s \in DOMAIN sessions => sessions'[s].revoked
    BY <2>1 DEF Inv, SessionsOK, Session
  <2>8. ASSUME NEW x \in call[r].old PROVE x \in i \/ ~Usable(x, sessions', step)
    <3>1. x \in DOMAIN sessions
      BY <2>5
    <3>2. CASE x = s
      BY <2>7, <3>1, <3>2 DEF Usable
    <3>3. CASE x # s
      BY <2>5, <2>6, <3>1, <3>3 DEF Usable
    <3> QED BY <3>2, <3>3
  <2>9. RequestOK(c, sessions', step, confirmed)
    BY <2>4, <2>5, <2>6, <2>8 DEF RequestOK
  <2> HIDE DEF c
  <2> QED BY <2>1, <2>2, <2>9, RowStep
<1>3. CASE PasswordDone(r)
  BY <1>3, Idles DEF PasswordDone
<1> QED BY <1>1, <1>2, <1>3

-----------------------------------------------------------------------------
(* The administrator and the clock.                                          *)

LEMMA OutsideInv ==
  ASSUME Inv, UpdateUser \/ ResetSecondFactor \/ StepPasses
  PROVE  Inv'
<1>1. OnwardNow /\ GuardOK' /\ SessionsOK(sessions')
  <2>1. CASE UpdateUser \/ ResetSecondFactor
    BY <2>1, Still DEF UpdateUser, ResetSecondFactor
  <2>2. CASE StepPasses
    <3>1. step \in Nat /\ step' = step + 1 /\ UNCHANGED <<sessions, guardVars>>
      BY <2>2, Ranges DEF StepPasses, Inv, AccountOK
    <3>2. OnwardNow
      BY <3>1 DEF OnwardNow, Onward, guardVars
    <3>3. ASSUME NEW c \in Steps, c + TotpSkew < step PROVE c + TotpSkew < step'
      BY <3>1, <3>3, Ranges DEF TotpSkew
    <3>4. GuardOK'
      BY <3>1, <3>3 DEF Inv, GuardOK, Remembers, guardVars
    <3> QED BY <3>1, <3>2, <3>4 DEF Inv
  <2> QED BY <2>1, <2>2
<1>2. CallsOK'
  BY <1>1, NoneMoves DEF UpdateUser, ResetSecondFactor, StepPasses
<1>3. AccountOK'
  <2>1. CASE UpdateUser
    BY <2>1 DEF UpdateUser, Inv, AccountOK, guardVars
  <2>2. CASE ResetSecondFactor
    BY <2>2, Ranges DEF ResetSecondFactor, SetFactor, Inv, AccountOK, guardVars
  <2>3. CASE StepPasses
    <3>1. step' \in Steps
      BY <2>3, AccessAssumption DEF StepPasses, Inv, AccountOK, Steps
    <3> QED BY <2>3, <3>1 DEF StepPasses, Inv, AccountOK, account, guardVars
  <2> QED BY <2>1, <2>2, <2>3
<1> QED BY <1>1, <1>2, <1>3 DEF Inv

LEMMA RebuildInv ==
  ASSUME Inv, RebuildPlugin
  PROVE  Inv'
<1>1. /\ guard' = guard + 1 /\ guard < MaxGuards
      /\ UNCHANGED <<account, sessions, spent, accepted, confirmed, step, generated>>
  BY DEF RebuildPlugin
<1>2. GuardOK'
  <2>1. guard' \in Guards
    BY <1>1, AccessAssumption DEF Inv, GuardOK, Guards
  <2> QED BY <1>1, <2>1 DEF Inv, GuardOK
<1>3. OnwardNow
  BY <1>1, Ranges DEF Inv, AccountOK, OnwardNow, Onward
<1>4. CallsOK'
  <2>1. CASE call' = call
    BY <1>3, <2>1, NoneMoves
  <2>2. CASE call' = [r \in Reqs |-> NoReq]
    BY <2>2, NoReqOK DEF CallsOK
  <2> QED BY <2>1, <2>2 DEF RebuildPlugin
<1>5. AccountOK' /\ SessionsOK(sessions')
  BY <1>1 DEF Inv, AccountOK, account
<1> QED BY <1>2, <1>4, <1>5 DEF Inv

LEMMA NextInv == Inv /\ [AccessNext]_accessVars => Inv'
<1> SUFFICES ASSUME Inv, [AccessNext]_accessVars PROVE Inv'
  OBVIOUS
<1>1. CASE UNCHANGED accessVars
  <2>1. UNCHANGED <<account, sessions, guardVars, step, generated, call>>
    BY <1>1 DEF accessVars, account, guardVars
  <2>2. OnwardNow /\ GuardOK' /\ SessionsOK(sessions')
    BY <2>1, Still
  <2>3. CallsOK' /\ AccountOK'
    BY <2>1, <2>2, NoneMoves DEF Inv, AccountOK, account, guardVars
  <2> QED BY <2>2, <2>3 DEF Inv
<1>2. ASSUME NEW r \in Reqs, LoginHash(r) \/ LoginFactor(r) \/ (\E p \in 1 .. password : LoginUser(r, p))
      PROVE  Inv'
  BY <1>2, LoginInv
<1>3. ASSUME NEW r \in Reqs, LoginCreate(r) PROVE Inv'
  BY <1>3, LoginCreateInv
<1>4. ASSUME NEW r \in Reqs,
             AuthUser(r) \/ (\E s \in Ids, route \in surface \cap Routes : AuthSession(r, s, route))
      PROVE  Inv'
  BY <1>4, AuthInv
<1>5. ASSUME NEW r \in Reqs,
             Logout(r) \/ RevokeWrite(r) \/ TotpPromote(r) \/ (\E s \in Ids : RevokeList(r, s))
      PROVE  Inv'
  BY <1>5, RevokeInv
<1>6. ASSUME NEW r \in Reqs, FactorRead(r) PROVE Inv'
  BY <1>6, FactorReadInv
<1>7. ASSUME NEW r \in Reqs, NEW code \in Codes, VerifyOnce(r, code) PROVE Inv'
  <2>1. code \in Steps
    BY AccessAssumption DEF Steps
  <2> QED BY <1>7, <2>1, VerifyInv
<1>8. ASSUME NEW r \in Reqs, EnableWrite(r) \/ DisableWrite(r) \/ SetupWrite(r) PROVE Inv'
  BY <1>8, FactorWriteInv
<1>9. ASSUME NEW r \in Reqs, SetupRead(r) \/ (\E p \in 1 .. password : PasswordRead(r, p))
      PROVE  Inv'
  BY <1>9, ReadInv
<1>10. ASSUME NEW r \in Reqs, PasswordWrite(r) PROVE Inv'
  BY <1>10, PasswordWriteInv
<1>11. ASSUME NEW r \in Reqs,
              PasswordList(r) \/ PasswordDone(r) \/ (\E s \in Ids : PasswordCut(r, s))
       PROVE  Inv'
  BY <1>11, PasswordCutInv
<1>12. ASSUME NEW r \in Reqs, StoreFails(r) PROVE Inv'
  BY <1>12, Idles DEF StoreFails
<1>13. CASE UpdateUser \/ ResetSecondFactor \/ StepPasses
  BY <1>13, OutsideInv
<1>14. CASE RebuildPlugin
  BY <1>14, RebuildInv
<1> QED
  BY <1>1, <1>2, <1>3, <1>4, <1>5, <1>6, <1>7, <1>8, <1>9, <1>10, <1>11, <1>12, <1>13, <1>14
  DEF AccessNext

LEMMA Safety == AccessSpec => []Inv
<1> QED BY InitInv, NextInv, PTL DEF AccessSpec

(* The second factor is sound whatever the requests of an account await and    *)
(* in whatever order their store calls land: a plugin instance accepts a TOTP  *)
(* code once, a session reaches the second-factor level by a code presented in *)
(* it or because none was enabled, and only a secret a code of which was       *)
(* accepted is armed.                                                          *)
THEOREM SecondFactorIsSound == AccessSpec => []AccessInv
<1>1. Inv => AccessInv
  <2> SUFFICES ASSUME Inv PROVE AccessInv
    OBVIOUS
  <2>1. PICK n \in 0 .. MaxSessions : sessions \in [1 .. n -> Session]
    BY DEF Inv, SessionsOK
  <2>2. DOMAIN sessions \subseteq Ids /\ \A s \in DOMAIN sessions : sessions[s] \in Session
    BY <2>1, AccessAssumption DEF Ids
  <2>3. AccessTypeOK
    BY <2>2 DEF Inv, AccountOK, GuardOK, CallsOK, AccessTypeOK, Session
  <2>4. CodeSpentOnce /\ PromotedByOwnCode /\ ArmedByCode
    BY DEF Inv, AccountOK, GuardOK, Remembers, SessionsOK, CodeSpentOnce, PromotedByOwnCode,
           ArmedByCode
  <2> QED BY <2>3, <2>4 DEF AccessInv
<1> QED BY <1>1, Safety, PTL

(* change_password reports success only when no session but the caller's that *)
(* was open when the new hash was written can still be used, however many     *)
(* logins, revocations and other changes ran between its store calls.         *)
THEOREM RotationIsComplete == AccessSpec => RotationCutsOff
<1>1. Inv /\ [AccessNext]_accessVars
        => [\A r \in Reqs : PasswordDone(r) => \A s \in call[r].old : ~IsUsable(s)]_accessVars
  <2> SUFFICES ASSUME Inv, NEW r \in Reqs, PasswordDone(r), NEW s \in call[r].old
               PROVE  ~IsUsable(s)
    OBVIOUS
  <2>1. call[r].pc = "cut" /\ call[r].ids = {}
    BY DEF PasswordDone, Doing
  <2>2. ~Usable(s, sessions, step)
    BY <2>1, CallType DEF RequestOK
  <2> QED BY <2>2 DEF Usable, IsUsable
<1> QED BY <1>1, Safety, PTL DEF AccessSpec, RotationCutsOff
=============================================================================
