---------------------------- MODULE CertRenewal ----------------------------
(***************************************************************************)
(* Two writers of one stored config: the Let's Encrypt task, which renews a *)
(* certificate and saves it beside its definition, and the projection,      *)
(* which writes the whole config from an intent that has no issued          *)
(* certificate in it.  Beside them the hot reload, which compares storage   *)
(* with the manager's current config and may restart the process.           *)
(*   the renewal: pingap-acme/src/lets_encrypt.rs                            *)
(*   the reload and the restart: src/process/auto_restart.rs, common.rs      *)
(*   the projection's write: src/projection.rs, .../projection/generate.rs   *)
(* A config is a rule (everything hot reload can apply), the names the       *)
(* certificate is for, the issued certificate (its names and the term it is  *)
(* valid in) and the token an HTTP-01 order leaves in the config's storage   *)
(* for the CA to ask for (a DNS challenge does without).                     *)
(***************************************************************************)
EXTENDS Naturals

CONSTANTS
    NameSets,       \* what an operator may list as the certificate's domains
    OnlyHotReload,  \* --autoreload: never restart
    MaxRules,       \* bound: edits of a rule
    MaxNamings,     \* bound: edits of the domains
    MaxTerm         \* bound: times a certificate expires

NoCert == [names |-> "none", term |-> 0]

ASSUME CertAssumption ==
    /\ NameSets # {} /\ "none" \notin NameSets
    /\ OnlyHotReload \in BOOLEAN
    /\ {MaxRules, MaxNamings, MaxTerm} \subseteq Nat

VARIABLES
    kept,       \* the stored config
    known,      \* ConfigManager's current_config
    inUse,      \* the providers: the rule and the certificate in effect
    intended,   \* the applied intent: the rule and the domains
    reloading,  \* diff_and_update_config
    renewing,   \* LetsEncryptTask::execute
    term,       \* certificates of an earlier term have expired
    namings     \* bound: edits of the domains so far

certVars == <<kept, known, inUse, intended, reloading, renewing, term, namings>>

Tokens == 1 .. 2
Stored(rule, names, cert) == [rule |-> rule, names |-> names, cert |-> cert, token |-> 0]
Nothing == Stored(0, "none", NoCert)
IdleReload == [at |-> "idle", hot |-> TRUE, next |-> Nothing, whole |-> TRUE]
IdleRenewal == [at |-> "idle", names |-> "none", conf |-> "none", token |-> 0,
                cert |-> NoCert, load |-> Nothing]

\* main: the process starts from what is stored
Started(c) ==
    /\ known' = c
    /\ inUse' = [rule |-> c.rule, cert |-> c.cert]
    /\ reloading' = IdleReload
    /\ renewing' = IdleRenewal

CertInit ==
    \E names \in NameSets :
    \E cert \in {NoCert, [names |-> names, term |-> 1]} :
      LET c == Stored(0, names, cert) IN
      /\ kept = c /\ known = c
      /\ inUse = [rule |-> 0, cert |-> cert]
      /\ intended = [rule |-> 0, names |-> names]
      /\ reloading = IdleReload /\ renewing = IdleRenewal
      /\ term = 1 /\ namings = 0

-----------------------------------------------------------------------------
(* The operator, by way of the projection: generate leaves the issued pair of *)
(* an ACME certificate empty, and save_all writes the whole config.           *)

ApplyIntent(rule, names) ==
    /\ intended' = [rule |-> rule, names |-> names]
    /\ kept' = Stored(rule, names, NoCert)
    /\ UNCHANGED <<known, inUse, reloading, renewing, term>>

EditRule ==
    /\ intended.rule < MaxRules
    /\ ApplyIntent(intended.rule + 1, intended.names)
    /\ UNCHANGED namings

EditNames ==
    /\ namings < MaxNamings
    /\ \E names \in NameSets \ {intended.names} : ApplyIntent(intended.rule, names)
    /\ namings' = namings + 1

Expire ==
    /\ term < MaxTerm
    /\ term' = term + 1
    /\ UNCHANGED <<kept, known, inUse, intended, reloading, renewing, namings>>

-----------------------------------------------------------------------------
(* diff_and_update_config, as AutoRestart and the observer run it.            *)

\* what of a new config can be applied while the process runs: with an ACME
\* certificate defined, everything but the certificates
Reloaded(base, new) == [base EXCEPT !.rule = new.rule]

\* Storage and the current config are read and what can be is put in effect;
\* next is the config then current, and whole when it is all that was stored.
\* A hot reload that changes nothing ends here.
LoadDiff(hot) ==
    LET next == Reloaded(known, kept) IN
    /\ reloading.at = "idle"
    /\ OnlyHotReload => hot
    /\ kept # known /\ (hot => next # known)
    /\ inUse' = IF kept.rule # known.rule THEN [inUse EXCEPT !.rule = kept.rule] ELSE inUse
    /\ reloading' = [at |-> "commit", hot |-> hot, next |-> next, whole |-> next = kept]
    /\ UNCHANGED <<kept, known, intended, renewing, term, namings>>

\* set_current_config, after the notifications
CommitDiff ==
    /\ reloading.at = "commit"
    /\ known' = reloading.next
    /\ reloading' = IF reloading.hot \/ reloading.whole
                    THEN IdleReload ELSE [IdleReload EXCEPT !.at = "restart"]
    /\ UNCHANGED <<kept, inUse, intended, renewing, term, namings>>

\* restart, a minute later
Restart ==
    /\ reloading.at = "restart"
    /\ Started(kept)
    /\ UNCHANGED <<kept, intended, term, namings>>

RestartFails ==
    /\ reloading.at = "restart"
    /\ reloading' = IdleReload
    /\ UNCHANGED <<kept, known, inUse, intended, renewing, term, namings>>

-----------------------------------------------------------------------------
(* LetsEncryptTask, one execution at a time.  Not for the manual DNS provider,  *)
(* which renews at the first execution of a process only.                      *)

InTerm(cert) == cert.term = term

\* Mutant: a certificate is renewed for its age alone.
ShouldRenewAge(c) == ~InTerm(c.cert)

ShouldRenew(c) == ~InTerm(c.cert) \/ c.cert.names # c.names

\* do_update_certificates decides on the current config, and the new pair will be
\* written into the stored definition as it is now
CheckCertificate ==
    /\ renewing.at = "idle"
    /\ ShouldRenew(known)
    /\ renewing' = [renewing EXCEPT !.at = "order", !.names = known.names, !.conf = kept.names]
    /\ UNCHANGED <<kept, known, inUse, intended, reloading, term, namings>>

\* new_lets_encrypt: a token of this order is kept with the config, from where
\* any instance answers the CA, then the CA asks for it
StoreToken ==
    /\ renewing.at = "order"
    /\ \E k \in Tokens \ {kept.token} :
         /\ kept' = [kept EXCEPT !.token = k]
         /\ renewing' = [renewing EXCEPT !.at = "validate", !.token = k]
    /\ UNCHANGED <<known, inUse, intended, reloading, term, namings>>

Issue ==
    /\ renewing.at = "validate" /\ kept.token = renewing.token
    /\ renewing' = [renewing EXCEPT !.at = "save",
                                    !.cert = [names |-> renewing.names, term |-> term]]
    /\ UNCHANGED <<kept, known, inUse, intended, reloading, term, namings>>

OrderFails ==
    /\ renewing.at \in {"order", "validate"}
    /\ renewing' = IdleRenewal
    /\ UNCHANGED <<kept, known, inUse, intended, reloading, term, namings>>

\* clear_stale_http_tokens, between two orders
ClearTokens ==
    /\ renewing.at = "idle" /\ kept.token # 0
    /\ kept' = [kept EXCEPT !.token = 0]
    /\ UNCHANGED <<known, inUse, intended, reloading, renewing, term, namings>>

\* update of the certificate's entry, under the manager's write lock
SaveCertificate ==
    /\ renewing.at = "save"
    /\ kept' = [kept EXCEPT !.names = renewing.conf, !.cert = renewing.cert]
    /\ renewing' = [IdleRenewal EXCEPT !.at = "load"]
    /\ UNCHANGED <<known, inUse, intended, reloading, term, namings>>

\* handle_successful_renewal: load_all, and after the notification both the
\* provider's certificates and the whole current config
LoadRenewed ==
    /\ renewing.at = "load"
    /\ renewing' = [IdleRenewal EXCEPT !.at = "publish", !.load = kept]
    /\ UNCHANGED <<kept, known, inUse, intended, reloading, term, namings>>

PublishRenewed ==
    /\ renewing.at = "publish"
    /\ inUse' = [inUse EXCEPT !.cert = renewing.load.cert]
    /\ known' = renewing.load
    /\ renewing' = IdleRenewal
    /\ UNCHANGED <<kept, intended, reloading, term, namings>>

\* ... but not the current config when some certificate of it does not parse
PublishPartly ==
    /\ renewing.at = "publish"
    /\ inUse' = [inUse EXCEPT !.cert = renewing.load.cert]
    /\ renewing' = IdleRenewal
    /\ UNCHANGED <<kept, known, intended, reloading, term, namings>>

\* the storage fails the save or the load: logged, and decided again later
RenewalFails ==
    /\ renewing.at \in {"save", "load"}
    /\ renewing' = IdleRenewal
    /\ UNCHANGED <<kept, known, inUse, intended, reloading, term, namings>>

RenewalStep ==
    CheckCertificate \/ SaveCertificate \/ LoadRenewed \/ PublishRenewed \/ PublishPartly
    \/ RenewalFails

OrderEnds == Issue \/ OrderFails

CertNext ==
    \/ EditRule \/ EditNames \/ Expire
    \/ LoadDiff(FALSE) \/ LoadDiff(TRUE) \/ CommitDiff \/ Restart \/ RestartFails
    \/ RenewalStep \/ StoreToken \/ OrderEnds \/ ClearTokens

\* the tasks keep their intervals, an order ends (it polls for a minute), every
\* interval of the reload has a cycle that may restart, neither the CA nor the save
\* nor the restart fails forever, and not every restart comes in the moment between
\* the answer of the CA and its saving
CertFairness ==
    /\ WF_certVars(RenewalStep) /\ WF_certVars(OrderEnds) /\ SF_certVars(StoreToken)
    /\ SF_certVars(Issue) /\ SF_certVars(SaveCertificate)
    /\ WF_certVars(CommitDiff) /\ SF_certVars(LoadDiff(FALSE))
    /\ SF_certVars(Restart)

CertSpec == CertInit /\ [][CertNext]_certVars /\ CertFairness

-----------------------------------------------------------------------------
Certs == {NoCert} \cup [names : NameSets, term : 1 .. MaxTerm]
CertConfigs == [rule : 0 .. MaxRules, names : NameSets, cert : Certs,
                token : {0} \cup Tokens]

CertTypeOK ==
    /\ {kept, known} \subseteq CertConfigs
    /\ inUse \in [rule : 0 .. MaxRules, cert : Certs]
    /\ intended \in [rule : 0 .. MaxRules, names : NameSets]

\* Whatever the two writers and the reload overwrite of each other's, once the
\* operator is done a valid certificate for the stored domains comes into effect
\* and stays.
CertificateCatchesUp ==
    <>[](InTerm(inUse.cert) /\ inUse.cert.names = kept.names)

\* docs/config-projection.md: "A rule toggle applies within one hot-reload cycle
\* without a restart".  Without an edit of the certificate's own definition
\* the process does not restart.
ToggleWithoutRestart == [][Restart => namings > 0]_certVars

\* A rule that was applied is the rule in effect, in the end.
RulesTakeEffect == <>[](inUse.rule = intended.rule)

\* The operator's domains are the stored ones, in the end.
NamesAreKept == <>[](kept.names = intended.names)

\* A certificate that was issued and is still good is not thrown away.
IssuedIsKept == [][InTerm(kept.cert) /\ intended'.names = intended.names => kept'.cert # NoCert]_certVars
=============================================================================
