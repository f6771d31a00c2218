-------------------------- MODULE MCBedrockCatalogue --------------------------
(* Two sessions of one backend, three calls in two places.  opus can only be
   invoked through a profile, titan is no text model. *)
EXTENDS BedrockCatalogue, TLC
CONSTANTS here, there, opus, sonnet, nova, titan,
          usOpus, globalOpus, otherOpus

MCModels == {opus, sonnet, nova, titan}
MCProfiles == {usOpus, globalOpus, otherOpus}
MCBuiltin == <<{opus}, {sonnet}>>
Configured(p, preferred) == [place |-> p, prefer |-> preferred]
MCConfigs == {Configured(here, {nova}), Configured(there, {})}
\* The one configuration of an AgentSession.
MCOneConfig == {Configured(there, {})}
MCCold == Configured(there, {})

Entry(m, kinds, isText, position) ==
    [model |-> m, types |-> kinds, text |-> isText, streaming |-> TRUE, rank |-> position]
OpusEntry == Entry(opus, {"INFERENCE_PROFILE"}, TRUE, 1)
SonnetEntry == Entry(sonnet, {"ON_DEMAND", "INFERENCE_PROFILE"}, TRUE, 1)
NovaEntry == Entry(nova, {"ON_DEMAND"}, TRUE, 2)
TitanEntry == Entry(titan, {"ON_DEMAND"}, FALSE, 3)
Profile(name, kind, ms) == [id |-> name, scope |-> kind, models |-> ms]
UsOpus == Profile(usOpus, "regional", {opus})
GlobalOpus == Profile(globalOpus, "global", {opus, sonnet})
OtherOpus == Profile(otherOpus, "other", {opus})

Rich == [models |-> <<TitanEntry, NovaEntry, SonnetEntry, OpusEntry>>,
         profiles |-> <<OtherOpus, GlobalOpus, UsOpus>>]
Global == [models |-> <<OpusEntry, TitanEntry>>, profiles |-> <<OtherOpus, GlobalOpus>>]
Bedless == [models |-> <<TitanEntry, OpusEntry>>, profiles |-> <<>>]
Sonnets == [models |-> <<SonnetEntry, NovaEntry>>, profiles |-> <<>>]
MCAccounts == {(here :> Rich @@ there :> Global), (here :> Bedless @@ there :> Sonnets)}

Symmetry == Permutations(Calls) \cup Permutations(Sessions)
===============================================================================
