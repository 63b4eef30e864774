---------------------------- MODULE TokenBroker ----------------------------
(* centaur-token-broker: replicas that poll for due credentials, refresh each
   under the lock of its row and store what the token endpoint answered; and
   Console, where people re-authorize the same credentials.

   The token endpoint is external.  It accepts a set of refresh tokens and
   initial values per credential; a refresh may rotate the token it was given,
   and the old one is not accepted any more.  It may refuse any request: an
   OAuth error need not be about the secret (the app may be misconfigured, the
   scope gone), and a gateway may answer in its place.  A request whose caller
   is gone is still served. *)
EXTENDS ConsoleTables

CONSTANTS Brokers, Concurrency

Console == "console"

ASSUME BrokerAssumption ==
  /\ Concurrency \in Nat \ {0}
  /\ Brokers \cap {None, Console} = {}

VARIABLES proc,         \* a replica: up, stopping after SIGTERM, or down
          list,         \* the due credentials its tick has still to start
          job,          \* its refresh of a credential
          lock,         \* the row locks: a replica, Console or none
          edit,         \* the re-authorization of a credential in Console
          accepts,      \* external: the secrets the endpoint accepts
          issued,       \* external: how many there have been
          strays,       \* external: requests whose caller is gone
          refusals      \* history: the answers the latest refresh of a credential
                        \* took for rejections, each with the secret sent

brokerVars == <<proc, list, job, lock, edit, accepts, issued, strays, refusals>>
endpointVars == <<accepts, issued, refusals>>

\* What is not a token: an error code with a status other than 5xx and 429, or
\* Slack's "ok": false with a 200; such a status without a code; or nothing that
\* can be used (no request or connection, a 5xx, a 429, a body that is no JSON).
Answers == {"coded", "bare", "busy"}

Idle == [pc |-> "idle", with |-> None, stale |-> FALSE, at |-> 0, rt |-> 0]
NoEdit == [pc |-> "none", by |-> None, rt |-> 0, key |-> 0, at |-> 0, dead |-> FALSE]

BrokerInit ==
  /\ proc = [b \in Brokers |-> "up"]
  /\ list = [b \in Brokers |-> {}]
  /\ job = [b \in Brokers |-> [c \in Credentials |-> Idle]]
  /\ lock = [c \in Credentials |-> None]
  /\ edit = [c \in Credentials |-> NoEdit]
  /\ issued = [c \in Credentials |-> row[c].rt + row[c].key]
  /\ accepts = [c \in Credentials |-> {row[c].rt, row[c].key} \ {0}]
  /\ strays = [c \in Credentials |-> {}]
  /\ refusals = [c \in Credentials |-> {}]

SetJob(b, c, j) == job' = [job EXCEPT ![b][c] = j]

InFlight(b) == {c \in Credentials : job[b][c] # Idle}

(***************************************************************************)
(* The refresh loop.                                                       *)
(***************************************************************************)

\* tick: the due credentials are derived from the database, once everything
\* the tick before has started has ended.  (A tick that finds none is no step.)
Tick(b) ==
  /\ proc[b] = "up" /\ list[b] = {} /\ InFlight(b) = {}
  /\ list' = [list EXCEPT ![b] = {c \in Credentials : Refreshable(row[c])}]
  /\ list'[b] # {}
  /\ UNCHANGED <<tables, faults, proc, job, lock, edit, endpointVars, strays>>

\* What grants::refresh begins with, for the row as it is under the lock.
FirstRequest(r) ==
  IF r.rt # 0 /\ r.grant # "client_credentials" THEN [Idle EXCEPT !.pc = "ask", !.with = "refresh"]
  ELSE IF r.grant = "refresh_token" THEN [Idle EXCEPT !.pc = "dead"]
  ELSE [Idle EXCEPT !.pc = "ask", !.with = "initial"]

\* Mutant: a row that somebody has is taken as well.
LockDueCredentialAny(c) == Refreshable(row[c])

\* lock_due_credential: the row is taken if it is still due and nobody has it.
LockDueCredential(c) == Refreshable(row[c]) /\ lock[c] = None

\* The tick starts on its next credential, or skips it; after SIGTERM it
\* starts nothing more.
StartRefresh(b, c) ==
  /\ proc[b] = "up" /\ c \in list[b]
  /\ Cardinality(InFlight(b)) < Concurrency
  /\ list' = [list EXCEPT ![b] = @ \ {c}]
  /\ \/ /\ LockDueCredential(c)
        /\ lock' = [lock EXCEPT ![c] = b]
        /\ SetJob(b, c, FirstRequest(row[c]))
        /\ refusals' = [refusals EXCEPT ![c] = {}]
     \/ /\ ~LockDueCredential(c)
        /\ UNCHANGED <<lock, job, refusals>>
  /\ UNCHANGED <<tables, faults, proc, edit, accepts, issued, strays>>

(***************************************************************************)
(* The token request.                                                      *)
(***************************************************************************)

\* The endpoint issues an access token for c, and a refresh token or none;
\* `from` is the refresh token it stops accepting for it, if any.
Issue(c, from, rt) ==
  /\ issued[c] < MaxTokens
  /\ issued' = [issued EXCEPT ![c] = @ + 1]
  /\ rt \in {0, issued[c] + 1}
  /\ accepts' = IF rt = 0 THEN accepts ELSE [accepts EXCEPT ![c] = (@ \ {from}) \cup {rt}]

\* A success.  A fallback that brought no refresh token clears the rejected one.
Granted(b, c, rt) ==
  SetJob(b, c, [job[b][c] EXCEPT !.pc = "granted", !.at = issued[c] + 1, !.rt = rt])

\* The secret a request carries.
Secret(b, c) == IF job[b][c].with = "refresh" THEN row[c].rt ELSE row[c].key

\* The endpoint accepts the request.
Accepted(b, c) ==
  /\ job[b][c].pc = "ask" /\ Secret(b, c) \in accepts[c]
  /\ \E rt \in {0, issued[c] + 1}, from \in {0, row[c].rt} :
       /\ row[c].grant = "client_credentials" => rt = 0
       /\ Issue(c, from, rt)
       /\ Granted(b, c, rt)
  /\ UNCHANGED <<tables, faults, proc, list, lock, edit, strays, refusals>>

\* Mutant: a gateway's status is a verdict for every grant.
IsRejectionStrict(grant, answer) == answer \in {"coded", "bare"}

\* interpret: which answers are final.  strict_4xx is for Preqin, whose
\* endpoints give no codes.
IsRejection(grant, answer) == answer = "coded" \/ (answer = "bare" /\ grant = "preqin")

\* The answer is a rejection, whatever its reason: the fallback grant is next,
\* or the credential dies.
Rejected(b, c) ==
  LET j == job[b][c]
  IN /\ j.pc = "ask"
     /\ \E answer \in Answers :
          /\ IsRejection(row[c].grant, answer)
          /\ refusals' = [refusals EXCEPT ![c] = @ \cup {<<Secret(b, c), answer>>}]
     /\ SetJob(b, c, IF j.with = "refresh" /\ row[c].grant \in {"password", "preqin"}
                     THEN [j EXCEPT !.with = "initial", !.stale = TRUE]
                     ELSE [j EXCEPT !.pc = "dead"])
     /\ UNCHANGED <<tables, faults, proc, list, lock, edit, accepts, issued, strays>>

\* Any other answer, or a request that did not arrive, is tried again later.
Unavailable(b, c) ==
  /\ job[b][c].pc = "ask"
  /\ \E answer \in Answers : ~IsRejection(row[c].grant, answer)
  /\ SetJob(b, c, [job[b][c] EXCEPT !.pc = "retry"])
  /\ UNCHANGED <<tables, faults, proc, list, lock, edit, endpointVars, strays>>

\* The request has reached the endpoint, but times out or brings an answer that
\* was cut off or corrupted on its way.
TimesOut(b, c) ==
  /\ job[b][c].pc = "ask"
  /\ Fault("timeout")
  /\ SetJob(b, c, [job[b][c] EXCEPT !.pc = "retry"])
  /\ strays' = [strays EXCEPT ![c] = @ \cup {Secret(b, c)}]
  /\ UNCHANGED <<tables, proc, list, lock, edit, endpointVars>>

\* External: a request nobody waits for any more is served all the same.
StrayServed(c, t) ==
  /\ t \in strays[c]
  /\ strays' = [strays EXCEPT ![c] = @ \ {t}]
  /\ \/ t \in accepts[c] /\ \E rt \in {0, issued[c] + 1}, from \in {0, t} : Issue(c, from, rt)
     \/ UNCHANGED <<accepts, issued>>
  /\ UNCHANGED <<tables, faults, proc, list, job, lock, edit, refusals>>

(***************************************************************************)
(* Storing the outcome, and the end of the transaction.                    *)
(***************************************************************************)

EndJob(b, c) ==
  /\ SetJob(b, c, Idle)
  /\ lock' = [lock EXCEPT ![c] = None]
  /\ UNCHANGED <<settings, faults, proc, list, edit, endpointVars, strays>>

RecordRefresh(b, c) ==
  LET j == job[b][c]
  IN /\ j.pc = "granted"
     /\ row' = [row EXCEPT ![c] =
          [row[c] EXCEPT !.at = j.at, !.due = FALSE, !.refreshed = TRUE, !.dead = FALSE,
                         !.rt = IF j.rt # 0 THEN j.rt ELSE IF j.stale THEN 0 ELSE @]]
     /\ InvalidateProxyConfigs(c)
     /\ EndJob(b, c)

RecordRetry(b, c) ==
  /\ job[b][c].pc = "retry"
  /\ row' = [row EXCEPT ![c] = [row[c] EXCEPT !.due = FALSE]]
  /\ UNCHANGED version
  /\ EndJob(b, c)

RecordDead(b, c) ==
  /\ job[b][c].pc = "dead"
  /\ row' = [row EXCEPT ![c] = [row[c] EXCEPT !.dead = TRUE]]
  /\ InvalidateProxyConfigs(c)
  /\ EndJob(b, c)

\* The outcome cannot be stored: the transaction is rolled back.
StoreFails(b, c) ==
  /\ job[b][c].pc \in {"granted", "retry", "dead"}
  /\ Fault("store")
  /\ SetJob(b, c, Idle)
  /\ lock' = [lock EXCEPT ![c] = None]
  /\ UNCHANGED <<tables, proc, list, edit, endpointVars, strays>>

(***************************************************************************)
(* Replicas come and go.                                                   *)
(***************************************************************************)

Terminate(b) ==
  /\ proc[b] = "up"
  /\ Fault("terminate")
  /\ proc' = [proc EXCEPT ![b] = "stopping"]
  /\ UNCHANGED <<tables, list, job, lock, edit, endpointVars, strays>>

\* The process ends when its tick has returned.
Exit(b) ==
  /\ proc[b] = "stopping" /\ InFlight(b) = {}
  /\ proc' = [proc EXCEPT ![b] = "down"]
  /\ list' = [list EXCEPT ![b] = {}]
  /\ UNCHANGED <<tables, faults, job, lock, edit, endpointVars, strays>>

\* Mutant: locks outlive the replica, as those of a lock table would.
AbandonedLocked(b) ==
  /\ proc' = [proc EXCEPT ![b] = "down"]
  /\ list' = [list EXCEPT ![b] = {}]
  /\ job' = [job EXCEPT ![b] = [c \in Credentials |-> Idle]]
  /\ strays' = [c \in Credentials |->
       IF job[b][c].pc = "ask" THEN strays[c] \cup {Secret(b, c)} ELSE strays[c]]
  /\ UNCHANGED <<tables, edit, lock, endpointVars>>

\* The transactions of a replica that dies are rolled back; its requests are
\* on their way.
Abandoned(b) ==
  /\ proc' = [proc EXCEPT ![b] = "down"]
  /\ list' = [list EXCEPT ![b] = {}]
  /\ job' = [job EXCEPT ![b] = [c \in Credentials |-> Idle]]
  /\ lock' = [c \in Credentials |-> IF lock[c] = b THEN None ELSE lock[c]]
  /\ strays' = [c \in Credentials |->
       IF job[b][c].pc = "ask" THEN strays[c] \cup {Secret(b, c)} ELSE strays[c]]
  /\ UNCHANGED <<tables, edit, endpointVars>>

Crash(b) ==
  /\ proc[b] # "down"
  /\ Fault("crash")
  /\ Abandoned(b)

Restart(b) ==
  /\ proc[b] = "down"
  /\ proc' = [proc EXCEPT ![b] = "up"]
  /\ UNCHANGED <<tables, faults, list, job, lock, edit, endpointVars, strays>>

(***************************************************************************)
(* Console and the people behind it.                                       *)
(***************************************************************************)

\* External: a person withdraws the authorization.
Revoke(c) ==
  /\ Fault("revoke")
  /\ accepts' = [accepts EXCEPT ![c] = {}]
  /\ UNCHANGED <<tables, proc, list, job, lock, edit, issued, strays, refusals>>

\* External: a person obtains fresh values for c, by the consent flow or by
\* hand; the endpoint may stop accepting earlier ones.  A consent may bring no
\* refresh token.
Reauthorize(c, by) ==
  LET n == issued[c] + 1
      fresh == [NoEdit EXCEPT !.pc = "fresh", !.by = by]
  IN /\ edit[c] = NoEdit /\ n <= MaxTokens
     /\ issued' = [issued EXCEPT ![c] = n]
     /\ \/ /\ row[c].grant = "refresh_token" /\ by = "consent"
           /\ \E rt \in {0, n} : edit' = [edit EXCEPT ![c] = [fresh EXCEPT !.at = n, !.rt = rt]]
        \/ /\ row[c].grant = "refresh_token" /\ by = "operator"
           /\ edit' = [edit EXCEPT ![c] = [fresh EXCEPT !.rt = n]]
        \/ /\ row[c].grant # "refresh_token" /\ by = "operator"
           /\ edit' = [edit EXCEPT ![c] = [fresh EXCEPT !.key = n]]
     /\ \E kept \in {{}, accepts[c]} : accepts' = [accepts EXCEPT ![c] = kept \cup {n}]
     /\ UNCHANGED <<tables, faults, proc, list, job, lock, strays, refusals>>

\* The record is loaded, without a lock.
LoadCredential(c) ==
  /\ edit[c].pc = "fresh"
  /\ edit' = [edit EXCEPT ![c] = [edit[c] EXCEPT !.pc = "loaded", !.dead = row[c].dead]]
  /\ UNCHANGED <<tables, faults, proc, list, job, lock, endpointVars, strays>>

\* save! waits for the row.  A record that was loaded before a refresh gave
\* its verdict is a fault of its own kind.
BeginSave(c) ==
  /\ edit[c].pc = "loaded" /\ lock[c] = None
  /\ IF edit[c].dead = row[c].dead THEN UNCHANGED faults ELSE Fault("stale_edit")
  /\ lock' = [lock EXCEPT ![c] = Console]
  /\ edit' = [edit EXCEPT ![c] = [edit[c] EXCEPT !.pc = "saving"]]
  /\ UNCHANGED <<tables, proc, list, job, endpointVars, strays>>

\* save! writes the columns that differ from the record as it was loaded: the
\* fresh values do, dead = FALSE only if the record was dead.
Live(c) == [row[c] EXCEPT !.dead = @ /\ ~edit[c].dead]

\* upsert_credential: the consent flow brings an access token, too.
SavedByConsent(c) ==
  [Live(c) EXCEPT !.rt = edit[c].rt, !.at = edit[c].at, !.refreshed = TRUE, !.due = edit[c].rt = 0]

\* apply_client_secret, apply_initial_values: the credential is due at once.
SavedByOperator(c) ==
  LET Fresh(new, old) == IF new # 0 THEN new ELSE old
  IN [Live(c) EXCEPT !.rt = Fresh(edit[c].rt, @), !.key = Fresh(edit[c].key, @), !.due = TRUE]

Saved(c) == IF edit[c].by = "consent" THEN SavedByConsent(c) ELSE SavedByOperator(c)

\* The commit; before_commit bumps the versions if dead or the access token
\* changed.
CommitSave(c) ==
  /\ edit[c].pc = "saving"
  /\ row' = [row EXCEPT ![c] = Saved(c)]
  /\ IF edit[c].dead \/ edit[c].by = "consent" THEN InvalidateProxyConfigs(c) ELSE UNCHANGED version
  /\ lock' = [lock EXCEPT ![c] = None]
  /\ edit' = [edit EXCEPT ![c] = NoEdit]
  /\ UNCHANGED <<settings, faults, proc, list, job, endpointVars, strays>>

BrokerStep ==
  \/ \E b \in Brokers : Tick(b) \/ Terminate(b) \/ Exit(b) \/ Crash(b) \/ Restart(b)
  \/ \E b \in Brokers, c \in Credentials :
       \/ StartRefresh(b, c)
       \/ Accepted(b, c) \/ Rejected(b, c) \/ Unavailable(b, c) \/ TimesOut(b, c)
       \/ RecordRefresh(b, c) \/ RecordRetry(b, c) \/ RecordDead(b, c) \/ StoreFails(b, c)
  \/ \E c \in Credentials :
       \/ \E t \in strays[c] : StrayServed(c, t)
       \/ Revoke(c) \/ \E by \in {"consent", "operator"} : Reauthorize(c, by)
       \/ LoadCredential(c) \/ BeginSave(c) \/ CommitSave(c)
=============================================================================
