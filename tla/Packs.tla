--------------------------------- MODULE Packs ---------------------------------
(* Installation of a vertical pack into a store (src/core/packs/installer.py)   *)
(* and the setup that follows provisioning: the pipeline is one transaction,    *)
(* the rows around it are written in transactions of their own, and any process *)
(* may die between two of them. A bundle is a pack row and a content digest.    *)
EXTENDS Naturals, FiniteSets

CONSTANTS
  Stores,       \* organisations
  PackRows,     \* rows of `packs`: one per slug and version
  Digests,      \* contents a bundle of that version may have
  Installers,   \* installs at work
  MaxFaults     \* bound: failed pipelines and deaths

ASSUME PacksAssumption == MaxFaults \in Nat

VARIABLES
  installation, \* pack_installations, unique on (organisation, pack)
  instance,     \* agent_instances of the pack's agents in the store
  manifest,     \* packs.manifest: the digest upserted last
  shell,        \* stores committed by provision_store, not set up yet
  installer,    \* what each install is about to do
  refused,      \* installs the unique constraint ended, with the row they met
  late,         \* uninstalled before the setup had activated the plan's agents
  faults

packVars == <<installation, instance, manifest, shell, installer, refused, late, faults>>

NoInstallation == [status |-> "absent", digest |-> {}]
OffDuty == [doing |-> "nothing", org |-> {}, pack |-> {}, digest |-> {}, setup |-> FALSE]

PacksInit ==
  /\ installation = [o \in Stores |-> [p \in PackRows |-> NoInstallation]]
  /\ instance = [o \in Stores |-> [p \in PackRows |-> "none"]]
  /\ manifest = [p \in PackRows |-> {}]
  /\ shell = Stores
  /\ installer = [k \in Installers |-> OffDuty]
  /\ refused = {} /\ late = {} /\ faults = 0

At(k, what, o, p) == /\ installer[k].doing = what
                     /\ installer[k].org = {o} /\ installer[k].pack = {p}
Proceed(k, what) == installer' = [installer EXCEPT ![k].doing = what]
GoHome(k) == installer' = [installer EXCEPT ![k] = OffDuty]
SetInstallation(o, p, s) == installation' = [installation EXCEPT ![o][p].status = s]

(* _get_or_create_pack commits the manifest; an active installation of the   *)
(* same digest is returned at once                                           *)
StartInstall(k, o, p, d, setup) ==
  /\ installer[k] = OffDuty
  /\ setup => o \in shell
  /\ shell' = IF setup THEN shell \ {o} ELSE shell
  /\ manifest' = [manifest EXCEPT ![p] = {d}]
  /\ LET goOn(what) ==
           [doing |-> what, org |-> {o}, pack |-> {p}, digest |-> {d}, setup |-> setup]
     IN  installer' = [installer EXCEPT ![k] =
           IF installation[o][p] # [status |-> "active", digest |-> {d}] THEN goOn("claim")
           ELSE IF setup THEN goOn("activate") ELSE OffDuty]
  /\ UNCHANGED <<installation, instance, refused, late, faults>>

(* _create_installation: a plain INSERT                                      *)
ClaimRow(k, o, p) ==
  /\ At(k, "claim", o, p)
  /\ IF installation[o][p] = NoInstallation
     THEN /\ installation' = [installation EXCEPT ![o][p] =
                               [status |-> "installing", digest |-> installer[k].digest]]
          /\ Proceed(k, "pipeline") /\ UNCHANGED refused
     ELSE /\ refused' = refused \cup {[org |-> o, pack |-> p, met |-> installation[o][p].status]}
          /\ GoHome(k) /\ UNCHANGED installation
  /\ UNCHANGED <<instance, manifest, shell, late, faults>>

(* The steps run in one transaction; the agents start paused                 *)
RunPipeline(k, o, p) ==
  /\ At(k, "pipeline", o, p)
  /\ SetInstallation(o, p, "active")
  /\ instance' = [instance EXCEPT ![o][p] = IF @ = "none" THEN "paused" ELSE @]
  /\ IF installer[k].setup THEN Proceed(k, "activate") ELSE GoHome(k)
  /\ UNCHANGED <<manifest, shell, refused, late, faults>>

(* Mutant: the steps before the failing one were committed. *)
LeftByFailureSteps(o, p) == [instance EXCEPT ![o][p] = IF @ = "none" THEN "paused" ELSE @]

LeftByFailure(o, p) == instance

FailPipeline(k, o, p) ==
  /\ At(k, "pipeline", o, p) /\ faults < MaxFaults
  /\ instance' = LeftByFailure(o, p) /\ faults' = faults + 1
  /\ Proceed(k, "mark")
  /\ UNCHANGED <<installation, manifest, shell, refused, late>>
MarkFailed(k, o, p) ==
  /\ At(k, "mark", o, p)
  /\ SetInstallation(o, p, "failed") /\ GoHome(k)
  /\ UNCHANGED <<instance, manifest, shell, refused, late, faults>>

(* activate_plan_agents, after the install of a provisioned store            *)
ActivateAgents(k, o, p) ==
  /\ At(k, "activate", o, p)
  /\ instance' = [instance EXCEPT ![o] = [q \in PackRows |->
                    IF @[q] = "none" THEN "none" ELSE "active"]]
  /\ GoHome(k)
  /\ UNCHANGED <<installation, manifest, shell, refused, late, faults>>

(* failure.py: the third failed step in a row opens the agent's circuit      *)
OpenCircuit(o, p) ==
  /\ instance[o][p] \in {"paused", "active"}
  /\ instance' = [instance EXCEPT ![o][p] = "circuit_open"]
  /\ UNCHANGED <<installation, manifest, shell, installer, refused, late, faults>>

(* Mutant: the agents are left as they are. *)
PausedNot(o, p) == instance

Paused(o, p) == [instance EXCEPT ![o][p] = IF @ = "none" THEN "none" ELSE "paused"]

(* uninstall: whatever the status of the row                                 *)
Uninstall(o, p) ==
  /\ installation[o][p] # NoInstallation
  /\ SetInstallation(o, p, "uninstalled")
  /\ instance' = Paused(o, p)
  /\ late' = IF o \in shell \/ \E k \in Installers : installer[k].org = {o} /\ installer[k].setup
             THEN late \cup {<<o, p>>} ELSE late
  /\ UNCHANGED <<manifest, shell, installer, refused, faults>>

Die(k) ==
  /\ installer[k] # OffDuty /\ faults < MaxFaults
  /\ faults' = faults + 1 /\ GoHome(k)
  /\ UNCHANGED <<installation, instance, manifest, shell, refused, late>>

-----------------------------------------------------------------------------
PacksNext ==
  \E o \in Stores, p \in PackRows :
    \/ Uninstall(o, p)
    \/ OpenCircuit(o, p)
    \/ \E k \in Installers :
         \/ \E d \in Digests, setup \in BOOLEAN : StartInstall(k, o, p, d, setup)
         \/ ClaimRow(k, o, p) \/ RunPipeline(k, o, p) \/ FailPipeline(k, o, p)
         \/ MarkFailed(k, o, p) \/ ActivateAgents(k, o, p) \/ Die(k)

PacksSpec == PacksInit /\ [][PacksNext]_packVars

-----------------------------------------------------------------------------
PacksTypeOK ==
  /\ \A o \in Stores, p \in PackRows :
       /\ installation[o][p].status \in {"absent", "installing", "active", "failed",
                                         "uninstalled"}
       /\ installation[o][p].digest \subseteq Digests
       /\ instance[o][p] \in {"none", "paused", "active", "circuit_open"}
       /\ manifest[p] \subseteq Digests
  /\ shell \subseteq Stores /\ late \subseteq Stores \X PackRows
  /\ \A k \in Installers : installer[k].doing \in {"nothing", "claim", "pipeline", "mark",
                                                   "activate"}
  /\ faults \in 0..MaxFaults

(* An installation is whole or absent: the agents are there exactly when the  *)
(* pipeline committed, whatever failed, died or was uninstalled around it.    *)
InstallAllOrNothing ==
  \A o \in Stores, p \in PackRows :
    /\ installation[o][p].status = "active" => instance[o][p] # "none"
    /\ instance[o][p] # "none" => installation[o][p].status \in {"active", "uninstalled"}

(* No agent of an uninstalled pack is active, except when the pack went before *)
(* the setup of the new store had activated the plan's agents: the activation  *)
(* asks neither for the pack an agent came from nor for its installation.     *)
UninstalledIsPaused ==
  \A o \in Stores, p \in PackRows :
    installation[o][p].status = "uninstalled" /\ <<o, p>> \notin late => instance[o][p] # "active"

(* provisioning.finalize_store_setup: after a real install failure the shell  *)
(* "exists with a failed install and can be retried". No install is refused   *)
(* because the failed one left its row.                                       *)
FailedInstallRetries == \A r \in refused : r.met # "failed"
=============================================================================
