----------------------------- MODULE MCPlatform -----------------------------
(* The services that the process runs beside the two workers.  They share    *)
(* no state, so TLC explores each of them with the others at rest: a product  *)
(* of the state spaces would only repeat every one of them.                  *)
EXTENDS Sandbox, Integrations, RateLimiter, DispatchLock, EventStream, TLC

VARIABLE component

platformVars == <<sandboxVars, integrationVars, rateVars, lockVars, eventVars, component>>

MCSettingsRows ==
    {[enabled |-> TRUE, base_url |-> TRUE, key |-> "none", fail_mode |-> "closed"],
     [enabled |-> TRUE, base_url |-> TRUE, key |-> "good", fail_mode |-> "open"],
     [enabled |-> FALSE, base_url |-> TRUE, key |-> "none", fail_mode |-> "closed"]}

MCPaths == {<<"api", "v1", "settings">>, <<"api", "x">>, <<"health">>}
MCExemptPaths == {<<"health">>}
MCRateLimits ==
    (<<"api", "v1", "settings">> :> [max_requests |-> 1, window |-> 2])
    @@ (<<"api">> :> [max_requests |-> 2, window |-> 3])

\* Where a component that is at rest stays.
AtRest(c) ==
    CASE c = "integrations" -> minter = "absent" /\ saved = <<CHOOSE row \in SettingsRows : TRUE>>
      [] c = "dispatch lock" -> postgres
      [] c = "event stream" -> stream = 0
      [] OTHER -> TRUE

Components == {"sandbox", "integrations", "rate limiter", "dispatch lock", "event stream"}

Init ==
    /\ component \in Components
    /\ SandboxInit /\ IntegrationsInit /\ RateLimiterInit /\ DispatchLockInit /\ EventStreamInit
    /\ \A c \in Components \ {component} : AtRest(c)

Next ==
    /\ UNCHANGED component
    /\ \/ /\ component = "sandbox" /\ SandboxNext
          /\ UNCHANGED <<integrationVars, rateVars, lockVars, eventVars>>
       \/ /\ component = "integrations" /\ IntegrationsNext
          /\ UNCHANGED <<sandboxVars, rateVars, lockVars, eventVars>>
       \/ /\ component = "rate limiter" /\ RateLimiterNext
          /\ UNCHANGED <<sandboxVars, integrationVars, lockVars, eventVars>>
       \/ /\ component = "dispatch lock" /\ DispatchLockNext
          /\ UNCHANGED <<sandboxVars, integrationVars, rateVars, eventVars>>
       \/ /\ component = "event stream" /\ EventStreamNext
          /\ UNCHANGED <<sandboxVars, integrationVars, rateVars, lockVars>>

\* Nothing that is fair is enabled in a component at rest.
PlatformSpec == Init /\ [][Next]_platformVars /\ SandboxFairness /\ IntegrationsFairness

\* Every component's variables have their types.
PlatformTypeOK ==
    /\ SandboxTypeOK /\ IntegrationsTypeOK /\ RateLimiterTypeOK
    /\ DispatchLockTypeOK /\ EventStreamTypeOK

=============================================================================
