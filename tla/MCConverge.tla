----------------------------- MODULE MCConverge -----------------------------
(***************************************************************************)
(* What must come true in the end on the management side, on small          *)
(* instances: a version left pending is settled, and a certificate is       *)
(* renewed although the projection, the reload and the renewal overwrite    *)
(* each other's config.  The parts share no variable, so a behaviour is one *)
(* of one part while the other stays as it started.                         *)
(***************************************************************************)
EXTENDS ConfigApply, CertRenewal

VARIABLE part

convergeVars == <<part, vars, certVars>>

\* the operator's sets of names are interchangeable: it is the same which is first
ConvergeInit ==
    /\ part \in {"apply", "certs"}
    /\ Init /\ CertInit
    /\ kept.names = CHOOSE n \in NameSets : TRUE
    /\ part # "certs" => kept.cert # NoCert

InApply(A) == part = "apply" /\ A /\ UNCHANGED <<part, certVars>>
InCerts(A) == part = "certs" /\ A /\ UNCHANGED <<part, vars>>

ConvergeNext == InApply(Next) \/ InCerts(CertNext)

\* the fairness of each part's own specification
ConvergeFairness ==
    /\ WF_convergeVars(InApply(Operation))
    /\ WF_convergeVars(InApply(SettlePending))
    /\ WF_convergeVars(InApply(Reload))
    /\ WF_convergeVars(InApply(Tick))
    /\ WF_convergeVars(InCerts(RenewalStep)) /\ WF_convergeVars(InCerts(OrderEnds))
    /\ SF_convergeVars(InCerts(Issue))
    /\ SF_convergeVars(InCerts(StoreToken)) /\ SF_convergeVars(InCerts(SaveCertificate))
    /\ WF_convergeVars(InCerts(CommitDiff))
    /\ SF_convergeVars(InCerts(LoadDiff(FALSE))) /\ SF_convergeVars(InCerts(Restart))

ConvergeSpec == ConvergeInit /\ [][ConvergeNext]_convergeVars /\ ConvergeFairness
=============================================================================
