-------------------------- MODULE MCTargetScripts --------------------------
(* The two scripts that run what the compiler emits for a target: the EVM     *)
(* corpus and the Psy session.  A behaviour is one of MCEvmCorpus or one      *)
(* session; the programs share nothing.                                      *)
EXTENDS MCEvmCorpus, PsySession, MCPsySession

\* What the theorem about sessions takes for granted.
ASSUME PackagesAssumption == PackagesAreLists

IdleCorpus == probe = "none" /\ IdleRuns /\ IdleCheck
NoSession == Started(Counter)

ScriptsInit ==
    \/ MCInit /\ NoSession
    \/ gate = "psy" /\ IdleCorpus /\ PsyInit

ScriptsNext ==
    \/ gate # "psy" /\ MCNext /\ UNCHANGED psyVars
    \/ gate = "psy" /\ PsyNext /\ UNCHANGED <<gate, probe, vars, mvars>>
=============================================================================
