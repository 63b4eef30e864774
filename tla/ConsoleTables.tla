--------------------------- MODULE ConsoleTables ---------------------------
(* The tables of the Console database that the token broker writes and proxy
   sync reads: broker_credentials, and of each principal the version of its
   sync configuration and the settings that go into it.

   A secret of a credential is a number: its token endpoint counts up what it
   has been given out or been told, 0 is NULL.  The initial values of a grant
   (client secret, password, API key) are one such number.  Times are reduced
   to whether next_attempt_at has come. *)
EXTENDS Naturals, FiniteSets

CONSTANTS Credentials, Principals,
          Grantees,             \* the principals a credential's token is granted to
          Grants,               \* the grant types an instance has
          MaxTokens,            \* bound: tokens issued for a credential
          MaxSettings,          \* bound: edits of a principal's settings
          Faults, MaxFaults     \* the kinds of fault of an instance, and how many

GrantTypes == {"refresh_token", "client_credentials", "password", "preqin"}

ASSUME TablesAssumption ==
  /\ Grants \subseteq GrantTypes
  /\ Grantees \in [Credentials -> SUBSET Principals]
  /\ MaxTokens \in Nat
  /\ MaxSettings \in Nat
  /\ MaxFaults \in Nat

VARIABLES row,          \* broker_credentials
          version,      \* principals.sync_config_cache_version
          settings,     \* what else of a principal its configuration carries
          faults        \* the kinds of fault that have happened

tables == <<row, version, settings>>

None == "none"
Tokens == 0..MaxTokens

\* refresh_token, initial values, access_token, dead, whether next_attempt_at
\* has come, whether last_refresh is set.
Row == [grant : GrantTypes, rt : Tokens, key : Tokens, at : Tokens,
        dead : BOOLEAN, due : BOOLEAN, refreshed : BOOLEAN]

TablesInit ==
  \* Console creates a credential due, with what its grant needs or, for a
  \* refresh token, possibly without.
  /\ row \in [Credentials ->
       {r \in Row : /\ r.grant \in Grants /\ r.at = 0 /\ ~r.dead /\ r.due /\ ~r.refreshed
                    /\ r.grant = "refresh_token" => r.key = 0 /\ r.rt \in {0, 1}
                    /\ r.grant # "refresh_token" => r.key = 1 /\ r.rt = 0}]
  /\ version = [p \in Principals |-> 0]
  /\ settings = [p \in Principals |-> 0]
  /\ faults = {}

\* A fault of a kind happens at most once.
Fault(k) ==
  /\ k \in Faults \ faults
  /\ Cardinality(faults) < MaxFaults
  /\ faults' = faults \cup {k}

\* The scope `refreshable`: live, due, and with what its grant needs.
Refreshable(r) ==
  /\ ~r.dead
  /\ r.grant = "refresh_token" => ~r.refreshed \/ r.rt # 0
  /\ r.due

\* Every principal the credential's token is granted to gets a new version of
\* its configuration, in the transaction of the change.
InvalidateProxyConfigs(c) ==
  version' = [p \in Principals |-> IF p \in Grantees[c] THEN version[p] + 1 ELSE version[p]]

\* next_attempt_at comes.
TimePasses(c) ==
  /\ ~row[c].due
  /\ row' = [row EXCEPT ![c] = [@ EXCEPT !.due = TRUE]]
  /\ UNCHANGED <<version, settings, faults>>

\* An operator edits what else goes into a principal's configuration (grants,
\* rules, channel permissions); before_commit bumps its version.
EditSettings(p) ==
  /\ settings[p] < MaxSettings
  /\ settings' = [settings EXCEPT ![p] = @ + 1]
  /\ version' = [version EXCEPT ![p] = @ + 1]
  /\ UNCHANGED <<row, faults>>
=============================================================================
