----------------------------- MODULE AgentPlane -----------------------------
(* The components an agent's turn passes through, in one specification.      *)
(* They share no row that their properties look at, so their interleavings   *)
(* would multiply states and show nothing: `focus` picks the component that  *)
(* moves, and the others stay as they began.                                 *)
EXTENDS Mediation, Campaigns, Ingress, Packs, AuditTrail, Identity, Membership,
        Scheduler, ModelRouting, Diagnosis

VARIABLE focus

planeVars == <<autonomyVars, mediationVars, campaignVars, ingressVars,
               packVars, auditVars, identityVars, memberVars, schedulerVars,
               routingVars, diagnosisVars>>
AgentPlaneVars == <<focus, planeVars>>

PlaneParts == {"autonomy", "mediation", "campaigns", "ingress", "packs", "audit",
               "identity", "membership", "scheduler", "routing", "diagnosis"}

(* Every component as it begins.                                             *)
PlaneAtRest ==
  /\ AutonomyInit /\ MediationInit /\ CampaignInit /\ IngressInit /\ PacksInit
  /\ AuditInit /\ IdentityInit /\ MembershipInit /\ SchedulerInit
  /\ RoutingInit /\ DiagnosisInit

AgentPlaneInit == PlaneAtRest /\ focus \in PlaneParts

Alone(name) == focus = name /\ UNCHANGED focus

AgentPlaneNext ==
  \/ /\ Alone("autonomy") /\ AutonomyNext
     /\ UNCHANGED <<mediationVars, campaignVars, ingressVars, packVars,
                    auditVars, identityVars, memberVars, schedulerVars,
                    routingVars, diagnosisVars>>
  \/ /\ Alone("mediation") /\ MediationNext
     /\ UNCHANGED <<campaignVars, ingressVars, packVars, auditVars, identityVars,
                    memberVars, schedulerVars, routingVars, diagnosisVars>>
  \/ /\ Alone("campaigns") /\ CampaignNext
     /\ UNCHANGED <<autonomyVars, mediationVars, ingressVars, packVars,
                    auditVars, identityVars, memberVars, schedulerVars,
                    routingVars, diagnosisVars>>
  \/ /\ Alone("ingress") /\ IngressNext
     /\ UNCHANGED <<autonomyVars, mediationVars, campaignVars, packVars,
                    auditVars, identityVars, memberVars, schedulerVars,
                    routingVars, diagnosisVars>>
  \/ /\ Alone("packs") /\ PacksNext
     /\ UNCHANGED <<autonomyVars, mediationVars, campaignVars, ingressVars,
                    auditVars, identityVars, memberVars, schedulerVars,
                    routingVars, diagnosisVars>>
  \/ /\ Alone("audit") /\ AuditNext
     /\ UNCHANGED <<autonomyVars, mediationVars, campaignVars, ingressVars,
                    packVars, identityVars, memberVars, schedulerVars,
                    routingVars, diagnosisVars>>
  \/ /\ Alone("identity") /\ IdentityNext
     /\ UNCHANGED <<autonomyVars, mediationVars, campaignVars, ingressVars,
                    packVars, auditVars, memberVars, schedulerVars, routingVars,
                    diagnosisVars>>
  \/ /\ Alone("membership") /\ MembershipNext
     /\ UNCHANGED <<autonomyVars, mediationVars, campaignVars, ingressVars,
                    packVars, auditVars, identityVars, schedulerVars,
                    routingVars, diagnosisVars>>
  \/ /\ Alone("scheduler") /\ SchedulerNext
     /\ UNCHANGED <<autonomyVars, mediationVars, campaignVars, ingressVars,
                    packVars, auditVars, identityVars, memberVars, routingVars,
                    diagnosisVars>>
  \/ /\ Alone("routing") /\ RoutingNext
     /\ UNCHANGED <<autonomyVars, mediationVars, campaignVars, ingressVars,
                    packVars, auditVars, identityVars, memberVars, schedulerVars,
                    diagnosisVars>>
  \/ /\ Alone("diagnosis") /\ DiagnosisNext
     /\ UNCHANGED <<autonomyVars, mediationVars, campaignVars, ingressVars,
                    packVars, auditVars, identityVars, memberVars, schedulerVars,
                    routingVars>>

AgentPlaneSpec == AgentPlaneInit /\ [][AgentPlaneNext]_AgentPlaneVars

-----------------------------------------------------------------------------
(* Properties                                                                *)

(* An agent never does more than the pack, the owner, an incident and the    *)
(* grants of its run allow: the knob only tightens, trust is earned, a       *)
(* refusal that stands holds, the rate is exceeded by racing calls only, and *)
(* what it recommends and does after a diagnosis rests on what the pack      *)
(* declares, the model said, and an authority that still stands.             *)
AgentsStayInBounds ==
  /\ focus = "autonomy" =>
        AutonomyTypeOK /\ OnlyTightens /\ CleanUnlessOverwritten /\ TrustIsEarned
  /\ focus = "mediation" => MediationTypeOK /\ StandingRefusalHolds /\ RateExcessBounded
  /\ focus = "diagnosis" => DiagnosisTypeOK /\ DiagnosisGrounded /\ ActsWithAuthority

(* What comes in is ingested once and answered or reported; a run starts on  *)
(* guards that did not refuse it, an answer rests on an attempt that         *)
(* succeeded and was logged, a broken route on an alert; and a campaign      *)
(* sends a member no more copies than its races account for.                 *)
MessagesAccounted ==
  /\ focus = "campaigns" => CampaignTypeOK /\ CopiesBounded /\ RejectedSendsNothing
  /\ focus = "ingress" =>
        /\ IngressTypeOK /\ IngestedOnce /\ OneOpenConversation
        /\ ConfirmationsAccounted /\ QuarantineAlerted
  /\ focus = "routing" => RoutingTypeOK /\ RoutesAnswerable

(* A store's installation, history, sessions and seats survive overlapping   *)
(* requests and failures: packs install whole, the audit chain has neither   *)
(* gap nor fork and its diffs are true, a refresh token has one successor,   *)
(* guesses and seats are exceeded by racing requests only.                   *)
StoreHoldsTogether ==
  /\ focus = "packs" => PacksTypeOK /\ InstallAllOrNothing /\ UninstalledIsPaused
  /\ focus = "audit" => AuditTypeOK /\ ChainIntact /\ AppendsNeverCollide /\ DiffsAreTrue
  /\ focus = "identity" => IdentityTypeOK /\ OneSuccessor /\ AttemptsBounded
  /\ focus = "membership" => MembershipTypeOK /\ SeatOverrunBounded

(* A job is started for every due minute the scheduler was not away for, and *)
(* a second time only when its lock has run out.                             *)
JobsFireOnce == [][focus = "scheduler" => FiresOnce /\ DueJobsFire]_AgentPlaneVars

(* What ended stays ended, and a person's role is not overwritten.           *)
EndedStaysEnded ==
  [][/\ focus = "campaigns" => EndedNeverRestarts
     /\ focus = "identity" => RevokedStaysDead
     /\ focus = "membership" => RolesStay]_AgentPlaneVars

=============================================================================
