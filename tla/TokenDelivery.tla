--------------------------- MODULE TokenDelivery ---------------------------
(* From the token endpoint to the proxy: the token broker, Console and proxy
   sync over the Console database. *)
EXTENDS TokenBroker, ProxySync

vars == <<tables, faults, brokerVars, syncVars>>

Init == TablesInit /\ BrokerInit /\ SyncInit

Next ==
  \/ BrokerStep /\ UNCHANGED syncVars
  \/ SyncStep /\ UNCHANGED brokerVars
  \/ /\ \/ \E c \in Credentials : TimePasses(c)
        \/ \E p \in Principals : EditSettings(p)
     /\ UNCHANGED <<brokerVars, syncVars>>

Spec == Init /\ [][Next]_vars

\* A request is answered, an outcome is stored.
RefreshGoesOn(b, c) ==
  \/ Accepted(b, c) \/ Rejected(b, c) \/ Unavailable(b, c)
  \/ RecordRefresh(b, c) \/ RecordRetry(b, c) \/ RecordDead(b, c)

\* Replicas are restarted and poll, requests are answered or time out, what
\* was begun is stored; proxies poll and the service answers them.  Nothing is
\* assumed of people, of time, or of what the endpoint says.
FairSpec ==
  /\ Spec
  /\ \A b \in Brokers :
       /\ WF_vars((Tick(b) \/ Exit(b) \/ Restart(b)) /\ UNCHANGED syncVars)
       /\ \A c \in Credentials :
            /\ WF_vars(StartRefresh(b, c) /\ UNCHANGED syncVars)
            /\ WF_vars(RefreshGoesOn(b, c) /\ UNCHANGED syncVars)
  /\ \A c \in Credentials : WF_vars(CommitSave(c) /\ UNCHANGED syncVars)
  /\ \A x \in Proxies : WF_vars(Poll(x) /\ UNCHANGED brokerVars)
  /\ \A q \in Requests :
       WF_vars((Hit(q) \/ Miss(q) \/ LoadCredentials(q) \/ AppendAndStore(q)) /\ UNCHANGED brokerVars)

(***************************************************************************)
(* Properties.                                                             *)
(***************************************************************************)

Job == [pc : {"idle", "ask", "granted", "retry", "dead"}, with : {None, "refresh", "initial"},
        stale : BOOLEAN, at : Tokens, rt : Tokens]
Edit == [pc : {"none", "fresh", "loaded", "saving"}, by : {None, "consent", "operator"},
         rt : Tokens, key : Tokens, at : Tokens, dead : BOOLEAN]
Config == [tokens : [Credentials -> Tokens], settings : 0..MaxSettings, window : 0..MaxWindow]
Entry == [version : Nat, window : 0..MaxWindow, hash : Config]
Request == [pc : {"free", "loaded", "build", "channels"}, x : Proxies \cup {None},
            client : Config, version : Nat, window : 0..MaxWindow, config : Config]

\* A row is locked exactly while a refresh of it or a save of Console is under
\* way.
LocksAreHeld ==
  \A c \in Credentials :
    /\ \A b \in Brokers : job[b][c] # Idle <=> lock[c] = b
    /\ edit[c].pc = "saving" <=> lock[c] = Console

TablesTypeOK ==
  /\ row \in [Credentials -> Row]
  /\ version \in [Principals -> Nat]
  /\ settings \in [Principals -> 0..MaxSettings]
  /\ faults \subseteq Faults

BrokerTypeOK ==
  /\ proc \in [Brokers -> {"up", "stopping", "down"}]
  /\ list \in [Brokers -> SUBSET Credentials]
  /\ job \in [Brokers -> [Credentials -> Job]]
  /\ lock \in [Credentials -> Brokers \cup {None, Console}]
  /\ edit \in [Credentials -> Edit]
  /\ accepts \in [Credentials -> SUBSET Tokens]
  /\ issued \in [Credentials -> Tokens]
  /\ strays \in [Credentials -> SUBSET Tokens]
  /\ refusals \in [Credentials -> SUBSET (Tokens \X Answers)]

SyncTypeOK ==
  /\ window \in [Proxies -> 0..MaxWindow]
  /\ cache \in [Proxies -> Entry]
  /\ req \in [Requests -> Request]
  /\ held \in [Proxies -> Config]
  /\ waiting \in [Proxies -> Requests \cup {None}]

\* Every variable has its type, and no lock is left behind.
TypeOK == TablesTypeOK /\ BrokerTypeOK /\ SyncTypeOK /\ LocksAreHeld

\* No authorization is lost: unless a request is cut off, a replica dies, a
\* transaction fails or a person revokes it, what a credential has stored is
\* something the endpoint accepts, or is being replaced, whichever replicas
\* refresh (and so rotate the token) and shut down and whoever re-authorizes
\* meanwhile.
TokenIsKept ==
  faults \cap {"crash", "timeout", "store", "revoke"} = {} =>
    \A c \in Credentials : {row[c].rt, row[c].key} # {0} =>
      \/ {row[c].rt, row[c].key} \cap accepts[c] # {}
      \/ \E b \in Brokers : job[b][c].pc = "granted"
      \/ edit[c] # NoEdit

\* A secret was refused in the latest refresh by an OAuth error or, for Preqin,
\* by any status that is not a success, a 5xx or a 429.
WasRefused(c, t) ==
  \/ <<t, "coded">> \in refusals[c]
  \/ row[c].grant = "preqin" /\ <<t, "bare">> \in refusals[c]

\* A credential is dead only because its endpoint refused everything it has
\* stored now, initial values too, in one and the same refresh: never because of
\* a gateway, an outage or a timeout, nor because of a secret that was replaced
\* since (by another replica or in Console), unless Console saved a record that
\* it had loaded before the verdict.
DeadWasRefused ==
  "stale_edit" \notin faults =>
    \A c \in Credentials : row[c].dead =>
      \A t \in {row[c].rt, row[c].key} \ {0} : WasRefused(c, t)

\* A cached hash that would be answered "unchanged" now is the configuration
\* the database has now, although version, tokens and settings were read at
\* different times while refreshes and edits went on.
MatchIsCurrent ==
  \A x \in Proxies :
    (/\ cache[x] # NoEntry
     /\ cache[x].version = version[PrincipalOf[x]]
     /\ cache[x].window = window[x]) => cache[x].hash = ConfigNow(x)

\* A proxy works with an older token than the one stored.
Behind(x, c) == PrincipalOf[x] \in Grantees[c] /\ held[x].tokens[c] < row[c].at

\* A due credential is refreshed, put off or dead at last, over crashes,
\* shutdowns and rows skipped because they were locked; and a token that was
\* stored reaches every proxy it is granted to.
DeliveryGoesOn ==
  /\ \A c \in Credentials : Refreshable(row[c]) ~> ~Refreshable(row[c])
  /\ \A c \in Credentials, x \in Proxies : Behind(x, c) ~> ~Behind(x, c)

(***************************************************************************)
(* Statements of documents that the model refutes; the README says how.    *)
(***************************************************************************)

\* "dead (an unrecoverable refresh failure; needs fresh initial values)": nothing
\* a dead credential has stored would be accepted.
DeadIsUnusable ==
  \A c \in Credentials : row[c].dead => {row[c].rt, row[c].key} \cap accepts[c] = {}

\* "clears dead state": what a person has saved since is not taken for refused.
SavedIsLive ==
  \A c \in Credentials : row[c].dead =>
    \A t \in {row[c].rt, row[c].key} \ {0} : WasRefused(c, t)
=============================================================================
