-------------------------------- MODULE MCAgent --------------------------------
(***************************************************************************)
(* Parts of one agent, and of the platform around it, that share no state, *)
(* checked side by side: a behaviour chooses one of them and runs it.      *)
(***************************************************************************)
EXTENDS TaskHost, AgentLink, AgentInstall, AgentUpdate, HostRegistry, AgentPresence, PointsLedger,
        CredentialToken

VARIABLE part

agentVars == <<part, hostVars, linkVars, installVars, updateVars, registryVars, presenceVars, ledgerVars,
               credentialVars>>

AgentInit ==
  /\ part \in {"host", "link", "install", "update", "registry", "presence", "ledger", "credential"}
  /\ HostInit /\ LinkInit /\ InstallInit /\ UpdateInit /\ RegistryInit
  /\ PresenceInit /\ LedgerInit /\ CredentialInit
  /\ part # "presence" => redis
  /\ part # "credential" => keyed

HostPart ==
  /\ part = "host" /\ HostNext
  /\ UNCHANGED <<part, linkVars, installVars, updateVars, registryVars, presenceVars, ledgerVars, credentialVars>>
LinkPart ==
  /\ part = "link" /\ LinkNext
  /\ UNCHANGED <<part, hostVars, installVars, updateVars, registryVars, presenceVars, ledgerVars, credentialVars>>
InstallPart ==
  /\ part = "install" /\ InstallNext
  /\ UNCHANGED <<part, hostVars, linkVars, updateVars, registryVars, presenceVars, ledgerVars, credentialVars>>
UpdatePart ==
  /\ part = "update" /\ UpdateNext
  /\ UNCHANGED <<part, hostVars, linkVars, installVars, registryVars, presenceVars, ledgerVars, credentialVars>>
RegistryPart ==
  /\ part = "registry" /\ RegistryNext
  /\ UNCHANGED <<part, hostVars, linkVars, installVars, updateVars, presenceVars, ledgerVars, credentialVars>>
PresencePart ==
  /\ part = "presence" /\ PresenceNext
  /\ UNCHANGED <<part, hostVars, linkVars, installVars, updateVars, registryVars, ledgerVars, credentialVars>>
LedgerPart ==
  /\ part = "ledger" /\ LedgerNext
  /\ UNCHANGED <<part, hostVars, linkVars, installVars, updateVars, registryVars, presenceVars, credentialVars>>
CredentialPart ==
  /\ part = "credential" /\ CredentialNext
  /\ UNCHANGED <<part, hostVars, linkVars, installVars, updateVars, registryVars, presenceVars, ledgerVars>>

\* The fairness of TaskHost and AgentLink, each for the behaviours that are its own.
AgentSpec ==
  /\ AgentInit /\ [][\/ HostPart \/ LinkPart \/ InstallPart \/ UpdatePart \/ RegistryPart
                     \/ PresencePart \/ LedgerPart \/ CredentialPart]_agentVars
  /\ \A d \in Copy : WF_hostVars(part = "host" /\ FirstStep(d)) /\ WF_hostVars(part = "host" /\ RunFinally(d))
  /\ \A k \in Killer : WF_hostVars(part = "host" /\ AfterWait(k))
  /\ WF_linkVars(part = "link" /\ Dialling) /\ WF_linkVars(part = "link" /\ BeatWakes)
  /\ WF_linkVars(part = "link" /\ BeatSends) /\ WF_linkVars(part = "link" /\ StartBeat)
  /\ WF_linkVars(part = "link" /\ (ListenTop \/ RecvFails \/ Awaited))

\* The types of every part.
AgentTypeOK == HostTypeOK /\ LinkTypeOK /\ InstallTypeOK /\ UpdateTypeOK /\ RegistryTypeOK
               /\ PresenceTypeOK /\ LedgerTypeOK /\ CredentialTypeOK
=============================================================================
