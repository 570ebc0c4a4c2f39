---------------------------- MODULE Integrations ----------------------------
(***************************************************************************)
(* The sibling services of one tenant, as a dispatch would use them: the    *)
(* settings a founder saves, the cached snapshot of them, the adapters that *)
(* are resolved from it (BSupervisor's audit sink, BSage's knowledge        *)
(* client), the service token they send and what they make of a reply.      *)
(*                                                                         *)
(* The services and the auth server are external.  Both providers' rows are *)
(* one record here; only the audit sink reads its fail mode.                *)
(***************************************************************************)
EXTENDS Integers, Sequences, FiniteSets

CONSTANTS
    Dispatches,    \* tasks that resolve the integrations
    SettingsRows,  \* rows [enabled, base_url, key, fail_mode] a founder may save
    Forwarded,     \* those that carry the founder's own token
    MaxSaves       \* bound: how often

ASSUME MaxSavesAssumption == MaxSaves \in Nat
ASSUME ForwardedAssumption == Forwarded \subseteq Dispatches

VARIABLES
    saved,      \* the rows that were committed, the newest last
    saving,     \* a committed row's snapshot is still to be invalidated
    snapshot,   \* _cache: which row, 0 for none, and whether within its TTL
    loader,     \* the tenant's lock: the dispatch that loads the rows
    minter,     \* the ServiceJWTMinter: absent, or what its cache holds
    dispatch    \* where each dispatch is, the row it goes by, whether the audit
                \* answered it, and its outcome

integrationVars == <<saved, saving, snapshot, loader, minter, dispatch>>

NoLoader == "no_loader"
NoSnapshot == [row |-> 0, live |-> FALSE]
NoDispatch == [at |-> "idle", row |-> 0, heard |-> FALSE, outcome |-> "none"]
AuditReplies == {"allowed", "refused", "silent", "odd", "timeout", "error"}
KnowledgeReplies == {"found", "missing", "odd", "timeout", "error"}
KnowledgeCalls == {"search", "fetch", "backlinks", "index", "record_decision"}

IntegrationsTypeOK ==
    /\ saved \in Seq(SettingsRows) /\ Len(saved) \in 1 .. MaxSaves + 1
    /\ saving \in BOOLEAN
    /\ snapshot \in [row : 0 .. Len(saved), live : BOOLEAN]
    /\ loader \in Dispatches \cup {NoLoader}
    /\ minter \in {"absent", "empty", "token"}
    /\ \A d \in Dispatches :
          /\ dispatch[d].at \in {"idle", "lock", "load", "store", "resolve", "preflight", "compose"}
          /\ dispatch[d].row \in 0 .. Len(saved)
          /\ dispatch[d].heard \in BOOLEAN
          /\ dispatch[d].outcome \in {"none", "pass", "blocked", "raised"}

IntegrationsInit ==
    /\ saved \in {<<row>> : row \in SettingsRows}
    /\ saving = FALSE
    /\ snapshot = NoSnapshot
    /\ loader = NoLoader
    /\ minter \in {"absent", "empty"}
    /\ dispatch = [d \in Dispatches |-> NoDispatch]

Row(d) == saved[dispatch[d].row]
Goes(d, place) == dispatch' = [dispatch EXCEPT ![d].at = place]
GoesBy(d, place, row) == dispatch' = [dispatch EXCEPT ![d].at = place, ![d].row = row]

----------------------------------------------------------------------------
(* Settings.                                                               *)

\* PATCH: the row is committed, then refreshed, then the snapshot dropped.
UpdateIntegration(row) ==
    /\ ~saving
    /\ Len(saved) <= MaxSaves
    /\ saved' = Append(saved, row)
    /\ saving' = TRUE
    /\ UNCHANGED <<snapshot, loader, minter, dispatch>>

InvalidateTenantCache ==
    /\ saving
    /\ saving' = FALSE
    /\ snapshot' = NoSnapshot
    /\ UNCHANGED <<saved, loader, minter, dispatch>>

(* Mutant: a read renews the snapshot.                                     *)
SnapshotExpiresUnread ==
    /\ snapshot.live
    /\ \A d \in Dispatches : dispatch[d].at = "idle"
    /\ snapshot' = [snapshot EXCEPT !.live = FALSE]
    /\ UNCHANGED <<saved, saving, loader, minter, dispatch>>

\* _CACHE_TTL_SECONDS after it was stored, however often it was read.
SnapshotExpires ==
    /\ snapshot.live
    /\ snapshot' = [snapshot EXCEPT !.live = FALSE]
    /\ UNCHANGED <<saved, saving, loader, minter, dispatch>>

----------------------------------------------------------------------------
(* get_tenant_integration_snapshot.                                        *)

Cached(d) == GoesBy(d, "resolve", snapshot.row)

BeginLoad(d) == loader' = d /\ Goes(d, "load")

GetSnapshot(d) ==
    /\ dispatch[d].at = "idle"
    /\ \/ snapshot.live /\ Cached(d) /\ loader' = loader
       \/ ~snapshot.live /\ loader = NoLoader /\ BeginLoad(d)
       \/ ~snapshot.live /\ loader # NoLoader /\ Goes(d, "lock") /\ loader' = loader
    /\ UNCHANGED <<saved, saving, snapshot, minter>>

\* The lock in hand, the cache is looked at again.
RecheckSnapshot(d) ==
    /\ dispatch[d].at = "lock"
    /\ loader = NoLoader
    /\ IF snapshot.live THEN Cached(d) /\ loader' = loader ELSE BeginLoad(d)
    /\ UNCHANGED <<saved, saving, snapshot, minter>>

LoadRows(d) ==
    /\ dispatch[d].at = "load"
    /\ \/ GoesBy(d, "store", Len(saved)) /\ loader' = loader
       \/ /\ dispatch' = [dispatch EXCEPT ![d].at = "compose", ![d].outcome = "raised"]
          /\ loader' = NoLoader
    /\ UNCHANGED <<saved, saving, snapshot, minter>>

\* The rows were read before this await returned; a row saved in between, and
\* its invalidation, are overwritten.
StoreSnapshot(d) ==
    /\ dispatch[d].at = "store"
    /\ snapshot' = [row |-> dispatch[d].row, live |-> TRUE]
    /\ loader' = NoLoader
    /\ Goes(d, "resolve")
    /\ UNCHANGED <<saved, saving, minter>>

----------------------------------------------------------------------------
(* Adapters and their tokens.                                              *)

\* A provider that is disabled, or has no address, is none.
Configured(row) == row.enabled /\ row.base_url

\* A key that cannot be decrypted is no key.
ApiKey(row) == row.key = "good"

\* Without a minter, a forwarded token or a key the audit sink is the Noop; the
\* knowledge client is made all the same and calls anonymously.
ResolveAuditSink(d) ==
    IF ~Configured(Row(d)) THEN "noop"
    ELSE IF minter # "absent" THEN "minted"
    ELSE IF d \in Forwarded \/ ApiKey(Row(d)) THEN "static" ELSE "noop"

ResolveKnowledgeClient(d) ==
    IF ~Configured(Row(d)) THEN "noop" ELSE IF minter # "absent" THEN "minted" ELSE "static"

\* The Bearer of a call: "" from a mint that fails and where there is no key.
ResolveAuthToken(d, adapter) ==
    CASE adapter = "noop" -> {"none"}
      [] adapter = "static" -> {IF d \in Forwarded \/ ApiKey(Row(d)) THEN "given" ELSE "empty"}
      [] adapter = "minted" -> IF minter = "token" THEN {"given"} ELSE {"given", "empty"}

\* mint() keeps what it got for the next call.
Minted(adapter, token) ==
    minter' = IF adapter = "minted" /\ token = "given" THEN "token" ELSE minter

\* The token of the minter runs out.
TokenExpires ==
    /\ minter = "token"
    /\ minter' = "empty"
    /\ UNCHANGED <<saved, saving, snapshot, loader, dispatch>>

----------------------------------------------------------------------------
(* The calls.                                                              *)

\* The Noop allows.  An answer of the service decides, one that does not say
\* allows, one that is no object raises; anything else goes by the fail mode.
\* The sink of a call without a token is answered with a 401.
AuditReplyTo(adapter, token) ==
    IF adapter = "noop" THEN {"none"} ELSE IF token = "empty" THEN {"error", "timeout"} ELSE AuditReplies

(* Mutant: what cannot be asked is allowed.                                 *)
FailResultOpen(mode) == IF mode = "none" THEN "blocked" ELSE "pass"

FailResult(mode) == IF mode = "closed" THEN "blocked" ELSE "pass"

PreflightOutcome(reply, mode) ==
    CASE reply \in {"none", "allowed", "silent"} -> "pass"
      [] reply = "refused" -> "blocked"
      [] reply \in {"timeout", "error"} -> FailResult(mode)
      [] reply = "odd" -> "raised"

Preflight(d) ==
    LET sink == ResolveAuditSink(d)
        Checked(reply) == [dispatch[d] EXCEPT !.at = "preflight",
                                              !.heard = reply \in {"allowed", "silent"},
                                              !.outcome = PreflightOutcome(reply, Row(d).fail_mode)]
    IN  /\ dispatch[d].at = "resolve"
        /\ \E token \in ResolveAuthToken(d, sink) :
              /\ Minted(sink, token)
              /\ \E checked \in {Checked(reply) : reply \in AuditReplyTo(sink, token)} :
                    dispatch' = [dispatch EXCEPT ![d] = checked]
        /\ UNCHANGED <<saved, saving, snapshot, loader>>

\* A knowledge call that fails finds nothing; only three of the five read a
\* reply that is no object outside their try.
KnowledgeOutcome(call, reply) ==
    IF reply = "odd" /\ call \notin {"fetch", "backlinks"} THEN "raised" ELSE "pass"

\* A run that passed composes its context from the knowledge client.
Compose(d) ==
    LET client == ResolveKnowledgeClient(d)
        replies == IF client = "noop" THEN {"missing"} ELSE KnowledgeReplies
    IN  /\ dispatch[d].at = "preflight"
        /\ dispatch[d].outcome = "pass"
        /\ \E token \in ResolveAuthToken(d, client) : Minted(client, token)
        /\ \E call \in KnowledgeCalls, reply \in replies :
              dispatch' = [dispatch EXCEPT ![d] = [at |-> "compose", row |-> 0, heard |-> FALSE,
                                                   outcome |-> KnowledgeOutcome(call, reply)]]
        /\ UNCHANGED <<saved, saving, snapshot, loader>>

EndDispatch(d) ==
    /\ \/ dispatch[d].at = "compose"
       \/ dispatch[d].at = "preflight" /\ dispatch[d].outcome # "pass"
    /\ dispatch' = [dispatch EXCEPT ![d] = NoDispatch]
    /\ UNCHANGED <<saved, saving, snapshot, loader, minter>>

----------------------------------------------------------------------------

Resolving(d) == GetSnapshot(d) \/ RecheckSnapshot(d) \/ LoadRows(d) \/ StoreSnapshot(d)
Calling(d) == Preflight(d) \/ Compose(d) \/ EndDispatch(d)

IntegrationsNext ==
    \/ \E row \in SettingsRows : UpdateIntegration(row)
    \/ InvalidateTenantCache \/ SnapshotExpires \/ TokenExpires
    \/ \E d \in Dispatches : Resolving(d) \/ Calling(d)

IntegrationsSpec == IntegrationsInit /\ [][IntegrationsNext]_integrationVars

\* Time passes, a PATCH that has committed returns, and a load comes back.
IntegrationsFairness ==
    /\ WF_integrationVars(SnapshotExpires) /\ WF_integrationVars(InvalidateTenantCache)
    /\ \A d \in Dispatches : WF_integrationVars(StoreSnapshot(d))

----------------------------------------------------------------------------
(* Properties.                                                             *)

\* fail_mode closed, by the settings the dispatch goes by: nothing runs without
\* BSupervisor's answer, whatever the cache, the mint, the network and the
\* reply do; but an unusable key with nothing else to authenticate by turns the
\* audit off.
ClosedMeansAudited ==
    \A d \in Dispatches :
        (/\ dispatch[d].at = "preflight" /\ dispatch[d].outcome = "pass"
         /\ Row(d).fail_mode = "closed" /\ Configured(Row(d)))
        => \/ dispatch[d].heard
           \/ minter = "absent" /\ d \notin Forwarded /\ ~ApiKey(Row(d))

\* A saved setting takes effect: a load that straddles the save may put the old
\* row back after the invalidation, but it expires, and no later load finds it.
SettingsTakeEffect ==
    (Len(saved) = MaxSaves + 1) ~> [](snapshot.live => snapshot.row = Len(saved))

=============================================================================
