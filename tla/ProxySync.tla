----------------------------- MODULE ProxySync -----------------------------
(* centaur-proxy-sync: iron-proxy polls for its configuration and says which
   one it has, by hash.  The service reads the proxy's row and the version of
   its principal, answers "unchanged" if its cache holds that hash for that
   generation, and otherwise builds the configuration from the database.

   A hash is the configuration itself.  The generation is the version and the
   window of the generated tokens; names, labels and assignments of a proxy,
   which are read in the same statement as the version, are left out. *)
EXTENDS ConsoleTables

CONSTANTS Proxies, PrincipalOf,
          Requested,            \* the proxies that act for a requester, too
          Requests,             \* the handlers of the service
          MaxWindow             \* bound: windows of the generated tokens

ASSUME SyncAssumption ==
  /\ PrincipalOf \in [Proxies -> Principals]
  /\ Requested \subseteq Proxies
  /\ MaxWindow \in Nat \ {0}

VARIABLES window,       \* the window a proxy's generated tokens are in
          cache,        \* SyncCache: per proxy, a generation and a hash
          req,          \* a request at the service
          held,         \* external: the configuration a proxy works with
          waiting       \* external: the request a proxy waits for

syncVars == <<window, cache, req, held, waiting>>

Unset == [tokens |-> [c \in Credentials |-> 0], settings |-> 0, window |-> 0]
NoEntry == [version |-> 0, window |-> 0, hash |-> Unset]
Free == [pc |-> "free", x |-> None, client |-> Unset, version |-> 0, window |-> 0, config |-> Unset]

SyncInit ==
  /\ window = [x \in Proxies |-> 1]
  /\ cache = [x \in Proxies |-> NoEntry]
  /\ req = [q \in Requests |-> Free]
  /\ held = [x \in Proxies |-> Unset]
  /\ waiting = [x \in Proxies |-> None]

\* The access tokens a principal's configuration delivers.
TokensOf(p) == [c \in Credentials |-> IF p \in Grantees[c] THEN row[c].at ELSE 0]

\* The configuration of a proxy as the database has it now.
ConfigNow(x) == [tokens |-> TokensOf(PrincipalOf[x]), settings |-> settings[PrincipalOf[x]],
                 window |-> window[x]]

\* A proxy polls; load_proxy reads its row with the version of its principal.
\* The handlers are alike, so any free one will do.
Poll(x) ==
  LET free == {q \in Requests : req[q] = Free}
      q == CHOOSE r \in free : TRUE
  IN /\ waiting[x] = None /\ free # {}
     /\ waiting' = [waiting EXCEPT ![x] = q]
     /\ req' = [req EXCEPT ![q] = [Free EXCEPT !.pc = "loaded", !.x = x, !.client = held[x],
                                               !.version = version[PrincipalOf[x]]]]
     /\ UNCHANGED <<tables, faults, window, cache, held>>

\* Mutant: the generation of the entry is not looked at.
MatchingHashOnly(x, r) ==
  x \notin Requested /\ cache[x] # NoEntry /\ cache[x].hash = r.client

\* matching_hash: the entry is of this generation and the client has its hash.
MatchingHash(x, r) ==
  /\ x \notin Requested /\ cache[x] # NoEntry
  /\ cache[x].version = r.version /\ cache[x].window = window[x]
  /\ cache[x].hash = r.client

\* The answer reaches the proxy, if it still waits for it.
Answer(q, config) ==
  LET x == req[q].x
  IN /\ req' = [req EXCEPT ![q] = Free]
     /\ IF waiting[x] = q
        THEN /\ held' = [held EXCEPT ![x] = config]
             /\ waiting' = [waiting EXCEPT ![x] = None]
        ELSE UNCHANGED <<held, waiting>>

\* The lookup: a hit is answered at once, "unchanged".
Hit(q) ==
  LET r == req[q]
  IN /\ r.pc = "loaded" /\ r.client # Unset /\ MatchingHash(r.x, r)
     /\ Answer(q, r.client)
     /\ UNCHANGED <<tables, faults, window, cache>>

Miss(q) ==
  LET r == req[q]
  IN /\ r.pc = "loaded" /\ ~(r.client # Unset /\ MatchingHash(r.x, r))
     /\ req' = [req EXCEPT ![q] = [r EXCEPT !.pc = "build", !.window = window[r.x], !.client = Unset]]
     /\ UNCHANGED <<tables, faults, window, cache, held, waiting>>

\* build_config: load_credentials reads all credentials in one statement.
LoadCredentials(q) ==
  /\ req[q].pc = "build"
  /\ req' = [req EXCEPT ![q] =
       [req[q] EXCEPT !.pc = "channels",
                      !.config = [tokens |-> TokensOf(PrincipalOf[req[q].x]), settings |-> 0,
                                  window |-> req[q].window]]]
  /\ UNCHANGED <<tables, faults, window, cache, held, waiting>>

\* append_api_jwt reads what else the configuration carries in a later one.
Completed(q) == [req[q].config EXCEPT !.settings = settings[PrincipalOf[req[q].x]]]

\* Mutant: the entry is stored under the version of the moment.
StoreLatest(q, config) ==
  LET r == req[q]
  IN cache' = IF r.x \in Requested THEN cache
              ELSE [cache EXCEPT ![r.x] = [version |-> version[PrincipalOf[r.x]],
                                           window |-> r.window, hash |-> config]]

\* SyncCache::store: the hash is stored under the generation read at first.
Store(q, config) ==
  LET r == req[q]
  IN cache' = IF r.x \in Requested THEN cache
              ELSE [cache EXCEPT ![r.x] = [version |-> r.version, window |-> r.window, hash |-> config]]

AppendAndStore(q) ==
  /\ req[q].pc = "channels"
  /\ Store(q, Completed(q))
  /\ Answer(q, Completed(q))
  /\ UNCHANGED <<tables, faults, window>>

\* A proxy gives a request up; the service goes on with it.
GiveUp(x) ==
  /\ waiting[x] # None
  /\ Fault("give_up")
  /\ waiting' = [waiting EXCEPT ![x] = None]
  /\ UNCHANGED <<tables, window, cache, req, held>>

\* The generated tokens of a proxy enter their next window.
NextWindow(x) ==
  /\ window[x] < MaxWindow
  /\ window' = [window EXCEPT ![x] = @ + 1]
  /\ UNCHANGED <<tables, faults, cache, req, held, waiting>>

\* An entry lives for ENTRY_TTL.
EntryExpires(x) ==
  /\ cache[x] # NoEntry
  /\ cache' = [cache EXCEPT ![x] = NoEntry]
  /\ UNCHANGED <<tables, faults, window, req, held, waiting>>

\* The service is restarted: its cache and its requests are gone.
RestartService ==
  /\ Fault("restart")
  /\ cache' = [x \in Proxies |-> NoEntry]
  /\ req' = [q \in Requests |-> Free]
  /\ waiting' = [x \in Proxies |-> None]
  /\ UNCHANGED <<tables, window, held>>

SyncStep ==
  \/ \E x \in Proxies : Poll(x) \/ GiveUp(x) \/ NextWindow(x) \/ EntryExpires(x)
  \/ \E q \in Requests : Hit(q) \/ Miss(q) \/ LoadCredentials(q) \/ AppendAndStore(q)
  \/ RestartService
=============================================================================
