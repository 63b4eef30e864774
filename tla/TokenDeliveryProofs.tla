------------------------ MODULE TokenDeliveryProofs ------------------------
(* What is proved of TokenDelivery: its types, that locks are held exactly
   while they are needed, that proxy sync calls a configuration unchanged only
   if it is the one in the database, that no authorization is lost, and that a
   credential is given up only when its endpoint refused all it has stored. *)
EXTENDS TokenDelivery, TLAPS

(***************************************************************************)
(* Records.                                                                *)
(***************************************************************************)

(* What a step makes of a refresh that goes on is a refresh that goes on. *)
LEMMA JobRecords ==
    ASSUME NEW j \in Job, NEW n \in Tokens, NEW rt \in Tokens
    PROVE  /\ [j EXCEPT !.pc = "granted", !.at = n, !.rt = rt] \in Job \ {Idle}
           /\ [j EXCEPT !.pc = "retry"] \in Job \ {Idle}
           /\ [j EXCEPT !.pc = "dead"] \in Job \ {Idle}
           /\ [j EXCEPT !.with = "initial", !.stale = TRUE] \in Job \ {Idle}
           /\ [j EXCEPT !.pc = "ask", !.with = "refresh"] \in Job \ {Idle}
           /\ [j EXCEPT !.pc = "ask", !.with = "initial"] \in Job \ {Idle}
BY DEF Job, Idle

(* grants::refresh begins with a request, or with a verdict. *)
LEMMA FirstRequestType ==
    ASSUME NEW r PROVE FirstRequest(r) \in Job \ {Idle}
<1>1. Idle \in Job /\ 0 \in Tokens
  BY TablesAssumption DEF Idle, Job, Tokens, None
<1>2. QED BY <1>1, JobRecords, Zenon DEF FirstRequest

(* What the statements of broker and Console make of a row is a row. *)
LEMMA RowRecords ==
    ASSUME NEW r \in Row, NEW a \in Tokens, NEW t \in Tokens, NEW k \in Tokens,
           NEW d \in BOOLEAN
    PROVE  /\ [r EXCEPT !.due = d] \in Row
           /\ [r EXCEPT !.dead = d] \in Row
           /\ [r EXCEPT !.at = a, !.due = FALSE, !.refreshed = TRUE, !.dead = FALSE, !.rt = t] \in Row
           /\ [r EXCEPT !.rt = t, !.at = a, !.refreshed = TRUE, !.due = d] \in Row
           /\ [r EXCEPT !.rt = t, !.key = k, !.due = TRUE] \in Row
BY DEF Row

(* The steps of an edit in Console, too. *)
LEMMA EditRecords ==
    ASSUME NEW e \in Edit, NEW d \in BOOLEAN, NEW n \in Tokens, NEW rt \in Tokens,
           NEW by \in {"consent", "operator"}
    PROVE  /\ [e EXCEPT !.pc = "loaded", !.dead = d] \in Edit
           /\ [e EXCEPT !.pc = "loaded", !.dead = d].pc # "saving"
           /\ [e EXCEPT !.pc = "saving"] \in Edit
           /\ [e EXCEPT !.pc = "saving"].pc = "saving"
BY DEF Edit

LEMMA NewEdits ==
    ASSUME NEW n \in Tokens, NEW rt \in Tokens, NEW by \in {"consent", "operator"}
    PROVE  /\ NoEdit \in Edit /\ NoEdit.pc # "saving"
           /\ LET fresh == [NoEdit EXCEPT !.pc = "fresh", !.by = by]
              IN /\ [fresh EXCEPT !.at = n, !.rt = rt] \in {e \in Edit : e.pc # "saving"}
                 /\ [fresh EXCEPT !.rt = n] \in {e \in Edit : e.pc # "saving"}
                 /\ [fresh EXCEPT !.key = n] \in {e \in Edit : e.pc # "saving"}
<1>1. NoEdit \in Edit /\ NoEdit.pc # "saving"
  BY TablesAssumption DEF NoEdit, Edit, Tokens, None
<1>2. \A e \in Edit : [e EXCEPT !.pc = "fresh", !.by = by] \in {d \in Edit : d.pc # "saving"}
  BY DEF Edit
<1>3. \A e \in {d \in Edit : d.pc # "saving"} :
        /\ [e EXCEPT !.at = n, !.rt = rt] \in {d \in Edit : d.pc # "saving"}
        /\ [e EXCEPT !.rt = n] \in {d \in Edit : d.pc # "saving"}
        /\ [e EXCEPT !.key = n] \in {d \in Edit : d.pc # "saving"}
  BY DEF Edit
<1>4. QED BY <1>1, <1>2, <1>3, Zenon

(* The initial values of the proxy sync's records. *)
LEMMA SyncRecords == Unset \in Config /\ NoEntry \in Entry /\ Free \in Request
<1>1. Unset \in Config BY TablesAssumption, SyncAssumption DEF Unset, Config, Tokens
<1>2. NoEntry \in Entry BY <1>1, SyncAssumption DEF NoEntry, Entry
<1>3. Free \in Request BY <1>1, SyncAssumption DEF Free, Request, None
<1>4. QED BY <1>1, <1>2, <1>3

(* What becomes of a request as it is handled, and what it remembers. *)
LEMMA PolledRecord ==
    ASSUME NEW r \in Request, NEW u \in Config, NEW x \in Proxies, NEW n \in Nat
    PROVE  [r EXCEPT !.pc = "loaded", !.x = x, !.client = u, !.version = n] \in Request
BY DEF Request

LEMMA MissedRecord ==
    ASSUME NEW r \in Request, NEW w \in 0..MaxWindow, NEW u \in Config
    PROVE  [r EXCEPT !.pc = "build", !.window = w, !.client = u] \in Request
BY DEF Request

LEMMA BuiltRecord ==
    ASSUME NEW r \in Request, NEW u \in Config
    PROVE  LET s == [r EXCEPT !.pc = "channels", !.config = u]
           IN /\ s \in Request /\ s.pc = "channels" /\ s.x = r.x /\ s.version = r.version
              /\ s.window = r.window /\ s.config = u
BY DEF Request

(***************************************************************************)
(* Types.                                                                  *)
(***************************************************************************)

(* Console creates credentials due; no replica has begun, no proxy has asked. *)
LEMMA InitTypeOK == Init => TypeOK
<1> SUFFICES ASSUME Init PROVE TypeOK OBVIOUS
<1>1. TablesTypeOK BY TablesAssumption DEF Init, TablesInit, TablesTypeOK
<1>2. BrokerTypeOK
  <2>1. \A c \in Credentials : /\ row[c].rt + row[c].key \in Tokens
                               /\ {row[c].rt, row[c].key} \subseteq Tokens
    BY TablesAssumption DEF Init, TablesInit, Row, Tokens
  <2>2. Idle \in Job /\ NoEdit \in Edit
    BY TablesAssumption DEF Idle, NoEdit, Job, Edit, Tokens, None
  <2>3. QED BY <2>1, <2>2 DEF Init, BrokerInit, BrokerTypeOK
<1>3. SyncTypeOK BY SyncRecords, SyncAssumption DEF Init, SyncInit, SyncTypeOK
<1>4. LocksAreHeld
  BY BrokerAssumption DEF Init, BrokerInit, LocksAreHeld, Idle, NoEdit, None, Console
<1>5. QED BY <1>1, <1>2, <1>3, <1>4 DEF TypeOK

(* A fault stays among the kinds of fault of the instance. *)
LEMMA FaultType == ASSUME TablesTypeOK, NEW k, Fault(k) PROVE faults' \subseteq Faults
BY DEF TablesTypeOK, Fault

(* A new version is a version. *)
LEMMA InvalidateType ==
    ASSUME TablesTypeOK, NEW c \in Credentials, InvalidateProxyConfigs(c)
    PROVE  version' \in [Principals -> Nat]
BY TablesAssumption DEF TablesTypeOK, InvalidateProxyConfigs

(* A refresh that goes on keeps its lock. *)
LEMMA JobGoesOn ==
    ASSUME TypeOK, NEW b \in Brokers, NEW c \in Credentials,
           NEW j \in Job \ {Idle}, SetJob(b, c, j), job[b][c].pc # "idle",
           UNCHANGED <<lock, edit>>
    PROVE  job' \in [Brokers -> [Credentials -> Job]] /\ LocksAreHeld'
<1>1. job[b][c] # Idle BY DEF Idle
<1>2. QED BY <1>1 DEF TypeOK, BrokerTypeOK, LocksAreHeld, SetJob

(* A refresh that ends gives its lock up. *)
LEMMA JobEnds ==
    ASSUME TypeOK, NEW b \in Brokers, NEW c \in Credentials, job[b][c].pc # "idle",
           SetJob(b, c, Idle), lock' = [lock EXCEPT ![c] = None], UNCHANGED edit
    PROVE  /\ job' \in [Brokers -> [Credentials -> Job]]
           /\ lock' \in [Credentials -> Brokers \cup {None, Console}]
           /\ LocksAreHeld'
<1>1. Idle \in Job BY TablesAssumption DEF Idle, Job, Tokens, None
<1>2. job[b][c] # Idle BY DEF Idle
<1>3. None \notin Brokers /\ None # Console /\ Console \notin Brokers
  BY BrokerAssumption DEF None, Console
<1>4. job' \in [Brokers -> [Credentials -> Job]] /\ lock' \in [Credentials -> Brokers \cup {None, Console}]
  BY <1>1 DEF TypeOK, BrokerTypeOK, SetJob
<1>5. lock[c] = b BY <1>2 DEF TypeOK, LocksAreHeld
<1>6. ASSUME NEW d \in Credentials, NEW a \in Brokers PROVE job'[a][d] # Idle <=> lock'[d] = a
  BY <1>3, <1>5 DEF TypeOK, BrokerTypeOK, SetJob, LocksAreHeld
<1>7. ASSUME NEW d \in Credentials PROVE edit'[d].pc = "saving" <=> lock'[d] = Console
  BY <1>3, <1>5 DEF TypeOK, BrokerTypeOK, LocksAreHeld
<1>8. QED BY <1>4, <1>6, <1>7 DEF LocksAreHeld

(* The token request moves its refresh on. *)
LEMMA RequestStep ==
    ASSUME TypeOK, NEW b \in Brokers, NEW c \in Credentials,
           Accepted(b, c) \/ Rejected(b, c) \/ Unavailable(b, c) \/ TimesOut(b, c)
    PROVE  job' \in [Brokers -> [Credentials -> Job]] /\ LocksAreHeld'
<1>1. job[b][c] \in Job /\ job[b][c].pc = "ask" /\ UNCHANGED <<lock, edit>>
  BY DEF TypeOK, BrokerTypeOK, Accepted, Rejected, Unavailable, TimesOut
<1>2. 0 \in Tokens BY TablesAssumption DEF Tokens
<1>3. \E j \in Job \ {Idle} : SetJob(b, c, j)
  <2>1. CASE Accepted(b, c)
    <3>1. PICK rt \in {0, issued[c] + 1}, from \in {0, row[c].rt} :
            Issue(c, from, rt) /\ Granted(b, c, rt)
      BY <2>1 DEF Accepted
    <3>2. issued[c] + 1 \in Tokens /\ rt \in Tokens
      BY <3>1, TablesAssumption DEF Issue, TypeOK, BrokerTypeOK, Tokens
    <3>3. QED BY <1>1, <3>1, <3>2, JobRecords, Zenon DEF Granted
  <2>2. CASE Rejected(b, c)
    BY <2>2, <1>1, <1>2, JobRecords, Zenon DEF Rejected
  <2>3. CASE Unavailable(b, c) \/ TimesOut(b, c)
    BY <2>3, <1>1, <1>2, JobRecords, Zenon DEF Unavailable, TimesOut
  <2>4. QED BY <2>1, <2>2, <2>3
<1>4. QED BY <1>1, <1>3, JobGoesOn

(* The secret of a request is one of the row. *)
LEMMA SecretType ==
    ASSUME TypeOK, NEW b \in Brokers, NEW c \in Credentials PROVE Secret(b, c) \in Tokens
BY DEF TypeOK, TablesTypeOK, Row, Secret

(* The endpoint counts what it has issued. *)
LEMMA IssueType ==
    ASSUME TypeOK, NEW c \in Credentials, NEW from, NEW rt, Issue(c, from, rt)
    PROVE  issued' \in [Credentials -> Tokens] /\ accepts' \in [Credentials -> SUBSET Tokens]
<1>1. issued[c] + 1 \in Tokens /\ rt \in Tokens
  BY TablesAssumption DEF Issue, TypeOK, BrokerTypeOK, Tokens
<1>2. QED BY <1>1 DEF Issue, TypeOK, BrokerTypeOK

(* A refusal that is noted is a secret with an answer. *)
LEMMA RefusalsType ==
    ASSUME TypeOK, NEW b \in Brokers, NEW c \in Credentials, StartRefresh(b, c) \/ Rejected(b, c)
    PROVE  refusals' \in [Credentials -> SUBSET (Tokens \X Answers)]
<1>1. CASE StartRefresh(b, c) BY <1>1 DEF StartRefresh, TypeOK, BrokerTypeOK
<1>2. CASE Rejected(b, c)
  <2>1. PICK answer \in Answers :
          refusals' = [refusals EXCEPT ![c] = refusals[c] \cup {<<Secret(b, c), answer>>}]
    BY <1>2 DEF Rejected
  <2>2. <<Secret(b, c), answer>> \in Tokens \X Answers BY SecretType
  <2>3. QED BY <2>1, <2>2 DEF TypeOK, BrokerTypeOK
<1>3. QED BY <1>1, <1>2

(* A save of Console makes a row of a row; an operator's leaves its token. *)
LEMMA SavedType ==
    ASSUME TypeOK, NEW c \in Credentials
    PROVE  Saved(c) \in Row /\ (edit[c].by # "consent" => Saved(c).at = row[c].at)
<1>1. row[c] \in Row /\ row[c].dead \in BOOLEAN /\ row[c].rt \in Tokens /\ row[c].key \in Tokens
  BY DEF TypeOK, TablesTypeOK, Row
<1>2. /\ edit[c].at \in Tokens /\ edit[c].rt \in Tokens /\ edit[c].key \in Tokens
      /\ edit[c].dead \in BOOLEAN
  BY DEF TypeOK, BrokerTypeOK, Edit
<1> DEFINE live == [row[c] EXCEPT !.dead = row[c].dead /\ ~edit[c].dead]
<1>3. live \in Row
  <2>1. (row[c].dead /\ ~edit[c].dead) \in BOOLEAN OBVIOUS
  <2>2. QED BY <1>1, <1>2, <2>1, RowRecords, Zenon
<1>4. live.rt = row[c].rt /\ live.key = row[c].key /\ live.at = row[c].at BY <1>1 DEF Row
<1>5. CASE edit[c].by = "consent"
  <2>1. Saved(c) = [live EXCEPT !.rt = edit[c].rt, !.at = edit[c].at, !.refreshed = TRUE,
                                !.due = (edit[c].rt = 0)]
    BY <1>5, Zenon DEF Saved, SavedByConsent, Live
  <2>2. (edit[c].rt = 0) \in BOOLEAN OBVIOUS
  <2>3. \A r \in Row : [r EXCEPT !.rt = edit[c].rt, !.at = edit[c].at, !.refreshed = TRUE,
                                  !.due = (edit[c].rt = 0)] \in Row
    BY <1>2, <2>2, RowRecords
  <2>4. QED BY <1>3, <1>5, <2>1, <2>3, Zenon
<1>6. CASE edit[c].by # "consent"
  <2>1. PICK t \in Tokens, k \in Tokens : Saved(c) = [live EXCEPT !.rt = t, !.key = k, !.due = TRUE]
    BY <1>1, <1>2, <1>4, <1>6, Zenon DEF Saved, SavedByOperator, Live
  <2>2. \A r \in Row : /\ [r EXCEPT !.rt = t, !.key = k, !.due = TRUE] \in Row
                       /\ [r EXCEPT !.rt = t, !.key = k, !.due = TRUE].at = r.at
    BY DEF Row
  <2>3. Saved(c) \in Row BY <1>3, <2>1, <2>2, Zenon
  <2>4. [live EXCEPT !.rt = t, !.key = k, !.due = TRUE].at = live.at BY <1>3, <2>2, Zenon
  <2>5. QED BY <1>4, <2>1, <2>3, <2>4, Zenon
<1>7. QED BY <1>5, <1>6

(* What a replica records makes a row of a row; a retry leaves its token. *)
LEMMA RecordedRow ==
    ASSUME TypeOK, NEW b \in Brokers, NEW c \in Credentials,
           RecordRefresh(b, c) \/ RecordRetry(b, c) \/ RecordDead(b, c)
    PROVE  \E r \in Row : /\ row' = [row EXCEPT ![c] = r]
                          /\ job[b][c].pc = "retry" => r.at = row[c].at
<1>1. row[c] \in Row /\ row[c].rt \in Tokens BY DEF TypeOK, TablesTypeOK, Row
<1>2. job[b][c].at \in Tokens /\ job[b][c].rt \in Tokens BY DEF TypeOK, BrokerTypeOK, Job
<1>3. 0 \in Tokens BY TablesAssumption DEF Tokens
<1>4. CASE RecordRefresh(b, c)
  <2>1. PICK t \in Tokens : row' = [row EXCEPT ![c] =
          [row[c] EXCEPT !.at = job[b][c].at, !.due = FALSE, !.refreshed = TRUE,
                         !.dead = FALSE, !.rt = t]]
    BY <1>1, <1>2, <1>3, <1>4, Zenon DEF RecordRefresh
  <2>2. job[b][c].pc # "retry" BY <1>4 DEF RecordRefresh
  <2>3. QED BY <2>1, <2>2, <1>1, <1>2, RowRecords, Zenon
<1>5. CASE RecordRetry(b, c)
  <2>1. [row[c] EXCEPT !.due = FALSE] \in Row /\ [row[c] EXCEPT !.due = FALSE].at = row[c].at
    BY <1>1 DEF Row
  <2>2. QED BY <1>5, <2>1, Zenon DEF RecordRetry
<1>6. CASE RecordDead(b, c)
  <2>1. job[b][c].pc # "retry" BY <1>6 DEF RecordDead
  <2>2. QED BY <1>1, <1>3, <1>6, <2>1, RowRecords, Zenon DEF RecordDead
<1>7. QED BY <1>4, <1>5, <1>6

(* Every step of a replica, of Console and of the endpoint keeps the tables and
   the broker's variables in their domains and the locks with their holders. *)
LEMMA BrokerStepType ==
    ASSUME TypeOK, BrokerStep
    PROVE  TablesTypeOK' /\ BrokerTypeOK' /\ LocksAreHeld'
<1> DEFINE Good == TablesTypeOK' /\ BrokerTypeOK' /\ LocksAreHeld'
<1> HIDE DEF Good
<1>1. ASSUME NEW b \in Brokers, Tick(b) PROVE Good
  <2>1. list' \in [Brokers -> SUBSET Credentials] BY <1>1 DEF Tick, TypeOK, BrokerTypeOK
  <2>2. QED BY <1>1, <2>1
        DEF Good, Tick, TypeOK, TablesTypeOK, BrokerTypeOK, LocksAreHeld, tables, endpointVars
<1>2. ASSUME NEW b \in Brokers, Terminate(b) PROVE Good
  <2>1. faults' \subseteq Faults BY <1>2, FaultType DEF Terminate, TypeOK
  <2>2. QED BY <1>2, <2>1
        DEF Good, Terminate, TypeOK, TablesTypeOK, BrokerTypeOK, LocksAreHeld, tables, endpointVars
<1>3. ASSUME NEW b \in Brokers, Exit(b) \/ Restart(b) PROVE Good
  <2>1. /\ proc' \in [Brokers -> {"up", "stopping", "down"}]
        /\ list' \in [Brokers -> SUBSET Credentials]
        /\ UNCHANGED <<tables, faults, job, lock, edit, endpointVars, strays>>
    BY <1>3 DEF Exit, Restart, TypeOK, BrokerTypeOK
  <2>2. QED BY <2>1
        DEF Good, TypeOK, TablesTypeOK, BrokerTypeOK, LocksAreHeld, tables, endpointVars
<1>4. ASSUME NEW b \in Brokers, Crash(b) PROVE Good
  <2>1. faults' \subseteq Faults BY <1>4, FaultType DEF Crash, TypeOK
  <2>2. Idle \in Job BY TablesAssumption DEF Idle, Job, Tokens, None
  <2>3. /\ job' \in [Brokers -> [Credentials -> Job]]
        /\ lock' \in [Credentials -> Brokers \cup {None, Console}]
        /\ proc' \in [Brokers -> {"up", "stopping", "down"}]
        /\ list' \in [Brokers -> SUBSET Credentials]
    BY <1>4, <2>2 DEF Crash, Abandoned, TypeOK, BrokerTypeOK
  <2>4. strays' \in [Credentials -> SUBSET Tokens]
    BY <1>4, SecretType DEF Crash, Abandoned, TypeOK, BrokerTypeOK
  <2>5. LocksAreHeld'
    <3>1. None \notin Brokers /\ None # Console /\ Console \notin Brokers
      BY BrokerAssumption DEF None, Console
    <3>2. ASSUME NEW d \in Credentials, NEW a \in Brokers PROVE job'[a][d] # Idle <=> lock'[d] = a
      BY <1>4, <3>1 DEF Crash, Abandoned, TypeOK, BrokerTypeOK, LocksAreHeld
    <3>3. ASSUME NEW d \in Credentials PROVE edit'[d].pc = "saving" <=> lock'[d] = Console
      BY <1>4, <3>1 DEF Crash, Abandoned, TypeOK, BrokerTypeOK, LocksAreHeld
    <3>4. QED BY <3>2, <3>3 DEF LocksAreHeld
  <2>6. QED BY <1>4, <2>1, <2>3, <2>4, <2>5
        DEF Good, Crash, Abandoned, TypeOK, TablesTypeOK, BrokerTypeOK, tables, endpointVars
<1>5. ASSUME NEW b \in Brokers, NEW c \in Credentials, StartRefresh(b, c) PROVE Good
  <2>1. /\ list' \in [Brokers -> SUBSET Credentials]
        /\ refusals' \in [Credentials -> SUBSET (Tokens \X Answers)]
    BY <1>5, RefusalsType DEF StartRefresh, TypeOK, BrokerTypeOK
  <2>2. CASE UNCHANGED <<lock, job>>
    BY <1>5, <2>1, <2>2
    DEF Good, StartRefresh, TypeOK, TablesTypeOK, BrokerTypeOK, LocksAreHeld, tables, endpointVars
  <2>3. CASE /\ lock[c] = None /\ lock' = [lock EXCEPT ![c] = b]
             /\ SetJob(b, c, FirstRequest(row[c]))
    <3>1. PICK j \in Job \ {Idle} : SetJob(b, c, j) BY <2>3, FirstRequestType, Zenon
    <3>2. /\ job' \in [Brokers -> [Credentials -> Job]]
          /\ lock' \in [Credentials -> Brokers \cup {None, Console}]
      BY <2>3, <3>1 DEF SetJob, TypeOK, BrokerTypeOK
    <3>3. None \notin Brokers /\ None # Console /\ Console \notin Brokers
      BY BrokerAssumption DEF None, Console
    <3>4. ASSUME NEW d \in Credentials, NEW a \in Brokers PROVE job'[a][d] # Idle <=> lock'[d] = a
      BY <2>3, <3>1, <3>3 DEF SetJob, TypeOK, BrokerTypeOK, LocksAreHeld
    <3>5. ASSUME NEW d \in Credentials PROVE edit'[d].pc = "saving" <=> lock'[d] = Console
      BY <1>5, <2>3, <3>3 DEF StartRefresh, TypeOK, BrokerTypeOK, LocksAreHeld
    <3>6. LocksAreHeld' BY <3>4, <3>5 DEF LocksAreHeld
    <3>7. QED BY <1>5, <2>1, <3>2, <3>6
          DEF Good, StartRefresh, TypeOK, TablesTypeOK, BrokerTypeOK, tables, endpointVars
  <2>4. QED BY <1>5, <2>2, <2>3, Zenon DEF StartRefresh, LockDueCredential
<1>6. ASSUME NEW b \in Brokers, NEW c \in Credentials, Accepted(b, c) PROVE Good
  <2>1. job' \in [Brokers -> [Credentials -> Job]] /\ LocksAreHeld' BY <1>6, RequestStep
  <2>2. issued' \in [Credentials -> Tokens] /\ accepts' \in [Credentials -> SUBSET Tokens]
    BY <1>6, IssueType DEF Accepted
  <2>3. QED BY <1>6, <2>1, <2>2 DEF Good, Accepted, TypeOK, TablesTypeOK, BrokerTypeOK, tables
<1>7. ASSUME NEW b \in Brokers, NEW c \in Credentials, Rejected(b, c) \/ Unavailable(b, c) PROVE Good
  <2>1. job' \in [Brokers -> [Credentials -> Job]] /\ LocksAreHeld' BY <1>7, RequestStep
  <2>2. UNCHANGED <<tables, faults, proc, list, lock, edit, accepts, issued, strays>>
    BY <1>7 DEF Rejected, Unavailable, endpointVars
  <2>3. refusals' \in [Credentials -> SUBSET (Tokens \X Answers)]
    <3>1. CASE Rejected(b, c) BY <3>1, RefusalsType
    <3>2. CASE Unavailable(b, c) BY <3>2 DEF Unavailable, endpointVars, TypeOK, BrokerTypeOK
    <3>3. QED BY <1>7, <3>1, <3>2
  <2>4. QED BY <2>1, <2>2, <2>3 DEF Good, TypeOK, TablesTypeOK, BrokerTypeOK, tables
<1>8. ASSUME NEW b \in Brokers, NEW c \in Credentials, TimesOut(b, c) PROVE Good
  <2>1. job' \in [Brokers -> [Credentials -> Job]] /\ LocksAreHeld' BY <1>8, RequestStep
  <2>2. faults' \subseteq Faults BY <1>8, FaultType DEF TimesOut, TypeOK
  <2>3. strays' \in [Credentials -> SUBSET Tokens]
    BY <1>8, SecretType DEF TimesOut, TypeOK, BrokerTypeOK
  <2>4. UNCHANGED <<tables, proc, list, lock, edit, endpointVars>> BY <1>8 DEF TimesOut
  <2>5. QED BY <2>1, <2>2, <2>3, <2>4 DEF Good, TypeOK, TablesTypeOK, BrokerTypeOK, tables, endpointVars
<1>9. ASSUME NEW c \in Credentials, NEW t \in strays[c], StrayServed(c, t) PROVE Good
  <2>1. issued' \in [Credentials -> Tokens] /\ accepts' \in [Credentials -> SUBSET Tokens]
    <3>1. CASE UNCHANGED <<accepts, issued>> BY <3>1 DEF TypeOK, BrokerTypeOK
    <3>2. CASE \E rt \in {0, issued[c] + 1}, from \in {0, t} : Issue(c, from, rt) BY <3>2, IssueType
    <3>3. QED BY <1>9, <3>1, <3>2 DEF StrayServed
  <2>2. strays' \in [Credentials -> SUBSET Tokens] BY <1>9 DEF StrayServed, TypeOK, BrokerTypeOK
  <2>3. QED BY <1>9, <2>1, <2>2
        DEF Good, StrayServed, TypeOK, TablesTypeOK, BrokerTypeOK, LocksAreHeld, tables
<1>10. ASSUME NEW b \in Brokers, NEW c \in Credentials,
              RecordRefresh(b, c) \/ RecordRetry(b, c) \/ RecordDead(b, c) PROVE Good
  <2>1. /\ job[b][c].pc # "idle" /\ SetJob(b, c, Idle) /\ lock' = [lock EXCEPT ![c] = None]
        /\ UNCHANGED <<settings, faults, proc, list, edit, endpointVars, strays>>
    BY <1>10 DEF RecordRefresh, RecordRetry, RecordDead, EndJob
  <2>2. /\ job' \in [Brokers -> [Credentials -> Job]]
        /\ lock' \in [Credentials -> Brokers \cup {None, Console}]
        /\ LocksAreHeld'
    BY <2>1, JobEnds
  <2>3. version' \in [Principals -> Nat]
    <3>1. UNCHANGED version \/ InvalidateProxyConfigs(c)
      BY <1>10 DEF RecordRefresh, RecordRetry, RecordDead
    <3>2. QED BY <3>1, InvalidateType DEF TypeOK, TablesTypeOK
  <2>4. \E r \in Row : row' = [row EXCEPT ![c] = r] BY <1>10, RecordedRow
  <2>5. row' \in [Credentials -> Row] BY <2>4 DEF TypeOK, TablesTypeOK
  <2>6. QED BY <2>1, <2>2, <2>3, <2>5 DEF Good, TypeOK, TablesTypeOK, BrokerTypeOK, endpointVars
<1>11. ASSUME NEW b \in Brokers, NEW c \in Credentials, StoreFails(b, c) PROVE Good
  <2>1. faults' \subseteq Faults BY <1>11, FaultType DEF StoreFails, TypeOK
  <2>2. /\ job' \in [Brokers -> [Credentials -> Job]]
        /\ lock' \in [Credentials -> Brokers \cup {None, Console}]
        /\ LocksAreHeld'
    BY <1>11, JobEnds DEF StoreFails
  <2>3. QED BY <1>11, <2>1, <2>2
        DEF Good, StoreFails, TypeOK, TablesTypeOK, BrokerTypeOK, tables, endpointVars
<1>12. ASSUME NEW c \in Credentials, Revoke(c) PROVE Good
  <2>1. faults' \subseteq Faults BY <1>12, FaultType DEF Revoke, TypeOK
  <2>2. accepts' \in [Credentials -> SUBSET Tokens] BY <1>12 DEF Revoke, TypeOK, BrokerTypeOK
  <2>3. QED BY <1>12, <2>1, <2>2
        DEF Good, Revoke, TypeOK, TablesTypeOK, BrokerTypeOK, LocksAreHeld, tables
<1>13. ASSUME NEW c \in Credentials, NEW by \in {"consent", "operator"}, Reauthorize(c, by) PROVE Good
  <2>1. issued[c] + 1 \in Tokens /\ 0 \in Tokens
    BY <1>13, TablesAssumption DEF Reauthorize, TypeOK, BrokerTypeOK, Tokens
  <2>2. issued' \in [Credentials -> Tokens] /\ accepts' \in [Credentials -> SUBSET Tokens]
    BY <1>13, <2>1 DEF Reauthorize, TypeOK, BrokerTypeOK
  <2>3. PICK e \in {d \in Edit : d.pc # "saving"} : edit' = [edit EXCEPT ![c] = e]
    BY <1>13, <2>1, NewEdits, Zenon DEF Reauthorize
  <2>4. edit[c].pc # "saving" BY <1>13, NewEdits, <2>1 DEF Reauthorize
  <2>5. edit' \in [Credentials -> Edit] BY <2>3 DEF TypeOK, BrokerTypeOK
  <2>6. UNCHANGED <<tables, faults, proc, list, job, lock, strays, refusals>> BY <1>13 DEF Reauthorize
  <2>7. LocksAreHeld' BY <2>3, <2>4, <2>6 DEF TypeOK, BrokerTypeOK, LocksAreHeld
  <2>8. QED BY <2>2, <2>5, <2>6, <2>7 DEF Good, TypeOK, TablesTypeOK, BrokerTypeOK, tables
<1>14. ASSUME NEW c \in Credentials, LoadCredential(c) PROVE Good
  <2>1. row[c].dead \in BOOLEAN /\ edit[c] \in Edit /\ 0 \in Tokens
    BY TablesAssumption DEF TypeOK, TablesTypeOK, BrokerTypeOK, Row, Tokens
  <2>2. PICK e \in Edit : edit' = [edit EXCEPT ![c] = e] /\ e.pc # "saving"
    BY <1>14, <2>1, EditRecords, Zenon DEF LoadCredential
  <2>3. edit' \in [Credentials -> Edit] BY <2>2 DEF TypeOK, BrokerTypeOK
  <2>4. edit[c].pc # "saving" /\ UNCHANGED <<tables, faults, proc, list, job, lock, endpointVars, strays>>
    BY <1>14 DEF LoadCredential
  <2>5. LocksAreHeld' BY <2>2, <2>4 DEF TypeOK, BrokerTypeOK, LocksAreHeld
  <2>6. QED BY <2>3, <2>4, <2>5 DEF Good, TypeOK, TablesTypeOK, BrokerTypeOK, tables, endpointVars
<1>15. ASSUME NEW c \in Credentials, BeginSave(c) PROVE Good
  <2>1. edit[c] \in Edit /\ 0 \in Tokens
    BY TablesAssumption DEF TypeOK, BrokerTypeOK, Tokens
  <2>2. PICK e \in Edit : edit' = [edit EXCEPT ![c] = e] /\ e.pc = "saving"
    BY <1>15, <2>1, EditRecords, Zenon DEF BeginSave
  <2>3. faults' \subseteq Faults BY <1>15, FaultType DEF BeginSave, TypeOK, TablesTypeOK
  <2>4. /\ edit' \in [Credentials -> Edit]
        /\ lock' \in [Credentials -> Brokers \cup {None, Console}]
    BY <1>15, <2>2 DEF BeginSave, TypeOK, BrokerTypeOK
  <2>5. None \notin Brokers /\ None # Console /\ Console \notin Brokers
    BY BrokerAssumption DEF None, Console
  <2>6. lock[c] = None /\ lock' = [lock EXCEPT ![c] = Console] /\ UNCHANGED job BY <1>15 DEF BeginSave
  <2>7. LocksAreHeld' BY <2>2, <2>5, <2>6 DEF TypeOK, BrokerTypeOK, LocksAreHeld
  <2>8. QED BY <1>15, <2>3, <2>4, <2>7
        DEF Good, BeginSave, TypeOK, TablesTypeOK, BrokerTypeOK, tables, endpointVars
<1>16. ASSUME NEW c \in Credentials, CommitSave(c) PROVE Good
  <2>1. Saved(c) \in Row BY SavedType
  <2>2. row' \in [Credentials -> Row] BY <1>16, <2>1, Zenon DEF CommitSave, TypeOK, TablesTypeOK
  <2>3. version' \in [Principals -> Nat] BY <1>16, InvalidateType DEF CommitSave, TypeOK, TablesTypeOK
  <2>4. 0 \in Tokens BY TablesAssumption DEF Tokens
  <2>5. NoEdit \in Edit /\ NoEdit.pc # "saving" BY <2>4, NewEdits
  <2>6. /\ edit[c].pc = "saving" /\ edit' = [edit EXCEPT ![c] = NoEdit]
        /\ lock' = [lock EXCEPT ![c] = None]
        /\ UNCHANGED <<settings, faults, proc, list, job, endpointVars, strays>>
    BY <1>16 DEF CommitSave
  <2>7. /\ edit' \in [Credentials -> Edit]
        /\ lock' \in [Credentials -> Brokers \cup {None, Console}]
    BY <2>5, <2>6 DEF TypeOK, BrokerTypeOK
  <2>8. None \notin Brokers /\ None # Console /\ Console \notin Brokers
    BY BrokerAssumption DEF None, Console
  <2>9. LocksAreHeld' BY <2>5, <2>6, <2>8 DEF TypeOK, BrokerTypeOK, LocksAreHeld
  <2>10. QED BY <2>2, <2>3, <2>6, <2>7, <2>9 DEF Good, TypeOK, TablesTypeOK, BrokerTypeOK, endpointVars
<1>17. QED
  BY <1>1, <1>2, <1>3, <1>4, <1>5, <1>6, <1>7, <1>8, <1>9, <1>10, <1>11, <1>12, <1>13, <1>14,
     <1>15, <1>16
  DEF BrokerStep, Good

(* An answer is a configuration. *)
LEMMA AnswerType ==
    ASSUME TypeOK, NEW q \in Requests, NEW config \in Config, Answer(q, config)
    PROVE  /\ req' \in [Requests -> Request] /\ held' \in [Proxies -> Config]
           /\ waiting' \in [Proxies -> Requests \cup {None}]
BY SyncRecords DEF Answer, TypeOK, SyncTypeOK

(* The configuration of a request with its settings is a configuration. *)
LEMMA ConfigRecords ==
    ASSUME NEW f \in Config, NEW n \in 0..MaxSettings
    PROVE  /\ [f EXCEPT !.settings = n] \in Config
           /\ [f EXCEPT !.settings = n].settings = n
           /\ [f EXCEPT !.settings = n].tokens = f.tokens
           /\ [f EXCEPT !.settings = n].window = f.window
BY DEF Config

(* The tokens a principal is granted are tokens. *)
LEMMA TokensOfType ==
    ASSUME TypeOK, NEW p \in Principals PROVE TokensOf(p) \in [Credentials -> Tokens]
BY TablesAssumption DEF TokensOf, TypeOK, TablesTypeOK, Row, Tokens

(* A request at the service is about a proxy. *)
AboutAProxy == \A q \in Requests : req[q].pc # "free" => req[q].x \in Proxies

LEMMA PollStep ==
    ASSUME TypeOK, NEW x \in Proxies, Poll(x)
    PROVE  \E q \in Requests, r \in Request :
             /\ waiting' = [waiting EXCEPT ![x] = q] /\ req' = [req EXCEPT ![q] = r]
             /\ r.pc = "loaded" /\ r.x = x /\ r.version = version[PrincipalOf[x]]
<1> DEFINE r == [Free EXCEPT !.pc = "loaded", !.x = x, !.client = held[x],
                            !.version = version[PrincipalOf[x]]]
<1>1. PICK q \in Requests : waiting' = [waiting EXCEPT ![x] = q] /\ req' = [req EXCEPT ![q] = r]
  BY Zenon DEF Poll
<1>2. held[x] \in Config /\ version[PrincipalOf[x]] \in Nat
  BY SyncAssumption DEF TypeOK, TablesTypeOK, SyncTypeOK
<1>3. r \in Request BY <1>2, SyncRecords, PolledRecord, Zenon
<1>4. r.pc = "loaded" /\ r.x = x /\ r.version = version[PrincipalOf[x]]
  BY SyncRecords DEF Request
<1> HIDE DEF r
<1>5. QED BY <1>1, <1>3, <1>4

LEMMA MissStep ==
    ASSUME TypeOK, AboutAProxy, NEW q \in Requests, Miss(q)
    PROVE  \E r \in Request :
             /\ req' = [req EXCEPT ![q] = r] /\ r.pc = "build" /\ r.x = req[q].x
             /\ r.version = req[q].version
<1>1. req[q].x \in Proxies /\ req[q] \in Request BY DEF Miss, AboutAProxy, TypeOK, SyncTypeOK
<1>2. window[req[q].x] \in 0..MaxWindow BY <1>1 DEF TypeOK, SyncTypeOK
<1> DEFINE r == [req[q] EXCEPT !.pc = "build", !.window = window[req[q].x], !.client = Unset]
<1>3. req' = [req EXCEPT ![q] = r] BY Zenon DEF Miss
<1>4. r \in Request BY <1>1, <1>2, SyncRecords, MissedRecord, Zenon
<1>5. r.pc = "build" /\ r.x = req[q].x /\ r.version = req[q].version BY <1>1 DEF Request
<1> HIDE DEF r
<1>6. QED BY <1>3, <1>4, <1>5

LEMMA LoadStep ==
    ASSUME TypeOK, AboutAProxy, NEW q \in Requests, LoadCredentials(q)
    PROVE  \E r \in Request :
             /\ req' = [req EXCEPT ![q] = r] /\ r.pc = "channels" /\ r.x = req[q].x
             /\ r.version = req[q].version /\ r.config.window = r.window
             /\ r.config.tokens = TokensOf(PrincipalOf[req[q].x])
<1>1. req[q].x \in Proxies /\ req[q] \in Request /\ req[q].window \in 0..MaxWindow
  BY DEF LoadCredentials, AboutAProxy, TypeOK, SyncTypeOK, Request
<1>2. TokensOf(PrincipalOf[req[q].x]) \in [Credentials -> Tokens]
  BY <1>1, TokensOfType, SyncAssumption
<1> DEFINE f == [tokens |-> TokensOf(PrincipalOf[req[q].x]), settings |-> 0, window |-> req[q].window]
<1>3. /\ f \in Config /\ f.window = req[q].window
      /\ f.tokens = TokensOf(PrincipalOf[req[q].x])
  BY <1>1, <1>2, TablesAssumption DEF Config
<1> DEFINE r == [req[q] EXCEPT !.pc = "channels", !.config = f]
<1>4. req' = [req EXCEPT ![q] = r] BY Zenon DEF LoadCredentials
<1> HIDE DEF f
<1>5. /\ r \in Request /\ r.pc = "channels" /\ r.x = req[q].x /\ r.version = req[q].version
      /\ r.window = req[q].window /\ r.config = f
  BY <1>1, <1>3, BuiltRecord
<1> HIDE DEF r
<1>6. QED BY <1>3, <1>4, <1>5

(* The configuration that AppendAndStore answers, and stores if it does. *)
LEMMA StoreStep ==
    ASSUME TypeOK, AboutAProxy, NEW q \in Requests, AppendAndStore(q)
    PROVE  \E f \in Config :
             /\ Answer(q, f) /\ f.tokens = req[q].config.tokens /\ f.window = req[q].config.window
             /\ f.settings = settings[PrincipalOf[req[q].x]]
             /\ cache' = IF req[q].x \in Requested THEN cache
                         ELSE [cache EXCEPT ![req[q].x] = [version |-> req[q].version,
                                                           window |-> req[q].window, hash |-> f]]
<1>1. req[q].x \in Proxies /\ req[q].config \in Config
  BY DEF AppendAndStore, AboutAProxy, TypeOK, SyncTypeOK, Request
<1>2. settings[PrincipalOf[req[q].x]] \in 0..MaxSettings
  BY <1>1, SyncAssumption DEF TypeOK, TablesTypeOK
<1>3. QED BY <1>1, <1>2, ConfigRecords, Zenon DEF AppendAndStore, Store, Completed

(* Every step of proxies and service keeps their variables in their domains. *)
LEMMA SyncStepType ==
    ASSUME TypeOK, AboutAProxy, SyncStep
    PROVE  TablesTypeOK' /\ SyncTypeOK' /\ AboutAProxy'
<1> DEFINE Good == TablesTypeOK' /\ SyncTypeOK' /\ AboutAProxy'
<1> HIDE DEF Good
<1>1. ASSUME NEW x \in Proxies, Poll(x) PROVE Good
  <2>1. UNCHANGED <<tables, faults, window, cache, held>> BY <1>1 DEF Poll
  <2>2. QED BY <1>1, <2>1, PollStep DEF Good, TypeOK, TablesTypeOK, SyncTypeOK, AboutAProxy, tables
<1>2. ASSUME NEW q \in Requests, Hit(q) PROVE Good
  <2>1. req[q].client \in Config BY DEF TypeOK, SyncTypeOK, Request
  <2>2. /\ req' \in [Requests -> Request] /\ held' \in [Proxies -> Config]
        /\ waiting' \in [Proxies -> Requests \cup {None}]
    BY <1>2, <2>1, AnswerType DEF Hit
  <2>3. AboutAProxy' BY <1>2 DEF Hit, Answer, AboutAProxy, Free, TypeOK, SyncTypeOK
  <2>4. QED BY <1>2, <2>2, <2>3 DEF Good, Hit, TypeOK, TablesTypeOK, SyncTypeOK, tables
<1>3. ASSUME NEW q \in Requests, Miss(q) PROVE Good
  <2>1. req[q].x \in Proxies BY <1>3 DEF Miss, AboutAProxy
  <2>2. QED BY <1>3, <2>1, MissStep DEF Good, Miss, TypeOK, TablesTypeOK, SyncTypeOK, AboutAProxy, tables
<1>4. ASSUME NEW q \in Requests, LoadCredentials(q) PROVE Good
  <2>1. req[q].x \in Proxies BY <1>4 DEF LoadCredentials, AboutAProxy
  <2>2. UNCHANGED <<tables, faults, window, cache, held, waiting>> BY <1>4 DEF LoadCredentials
  <2>3. QED BY <1>4, <2>1, <2>2, LoadStep DEF Good, TypeOK, TablesTypeOK, SyncTypeOK, AboutAProxy, tables
<1>5. ASSUME NEW q \in Requests, AppendAndStore(q) PROVE Good
  <2>1. /\ req[q].x \in Proxies /\ req[q].version \in Nat /\ req[q].window \in 0..MaxWindow
        /\ UNCHANGED <<tables, faults, window>>
    BY <1>5 DEF AppendAndStore, AboutAProxy, TypeOK, SyncTypeOK, Request
  <2>2. PICK f \in Config :
          /\ Answer(q, f)
          /\ cache' = IF req[q].x \in Requested THEN cache
                      ELSE [cache EXCEPT ![req[q].x] = [version |-> req[q].version,
                                                        window |-> req[q].window, hash |-> f]]
    BY <1>5, StoreStep
  <2>3. /\ req' \in [Requests -> Request] /\ held' \in [Proxies -> Config]
        /\ waiting' \in [Proxies -> Requests \cup {None}]
    BY <2>2, AnswerType
  <2>4. [version |-> req[q].version, window |-> req[q].window, hash |-> f] \in Entry
    BY <2>1 DEF Entry
  <2>5. cache' \in [Proxies -> Entry] BY <2>2, <2>4 DEF TypeOK, SyncTypeOK
  <2>6. AboutAProxy' BY <2>2 DEF Answer, AboutAProxy, Free, TypeOK, SyncTypeOK
  <2>7. QED BY <2>1, <2>3, <2>5, <2>6 DEF Good, TypeOK, TablesTypeOK, SyncTypeOK, tables
<1>6. ASSUME NEW x \in Proxies, GiveUp(x) PROVE Good
  <2>1. faults' \subseteq Faults BY <1>6, FaultType DEF GiveUp, TypeOK
  <2>2. waiting' \in [Proxies -> Requests \cup {None}] BY <1>6 DEF GiveUp, TypeOK, SyncTypeOK
  <2>3. QED BY <1>6, <2>1, <2>2
        DEF Good, GiveUp, TypeOK, TablesTypeOK, SyncTypeOK, AboutAProxy, tables
<1>7. ASSUME NEW x \in Proxies, NextWindow(x) PROVE Good
  <2>1. window' \in [Proxies -> 0..MaxWindow]
    BY <1>7, SyncAssumption DEF NextWindow, TypeOK, SyncTypeOK
  <2>2. QED BY <1>7, <2>1 DEF Good, NextWindow, TypeOK, TablesTypeOK, SyncTypeOK, AboutAProxy, tables
<1>8. ASSUME NEW x \in Proxies, EntryExpires(x) PROVE Good
  <2>1. cache' \in [Proxies -> Entry] BY <1>8, SyncRecords DEF EntryExpires, TypeOK, SyncTypeOK
  <2>2. QED BY <1>8, <2>1 DEF Good, EntryExpires, TypeOK, TablesTypeOK, SyncTypeOK, AboutAProxy, tables
<1>9. ASSUME RestartService PROVE Good
  <2>1. faults' \subseteq Faults BY <1>9, FaultType DEF RestartService, TypeOK
  <2>2. /\ cache' \in [Proxies -> Entry] /\ req' \in [Requests -> Request]
        /\ waiting' \in [Proxies -> Requests \cup {None}]
    BY <1>9, SyncRecords DEF RestartService
  <2>3. AboutAProxy' BY <1>9 DEF RestartService, AboutAProxy, Free
  <2>4. QED BY <1>9, <2>1, <2>2, <2>3
        DEF Good, RestartService, TypeOK, TablesTypeOK, SyncTypeOK, tables
<1>10. QED
  BY <1>1, <1>2, <1>3, <1>4, <1>5, <1>6, <1>7, <1>8, <1>9 DEF SyncStep, Good

LEMMA TimePassesType ==
    ASSUME TypeOK, NEW c \in Credentials, TimePasses(c) PROVE TablesTypeOK'
<1>1. row[c] \in Row /\ 0 \in Tokens BY TablesAssumption DEF TypeOK, TablesTypeOK, Tokens
<1>2. [row[c] EXCEPT !.due = TRUE] \in Row BY <1>1, RowRecords
<1>3. row' \in [Credentials -> Row] BY <1>2 DEF TimePasses, TypeOK, TablesTypeOK
<1>4. QED BY <1>3 DEF TimePasses, TypeOK, TablesTypeOK

LEMMA EditSettingsType ==
    ASSUME TypeOK, NEW p \in Principals, EditSettings(p) PROVE TablesTypeOK'
<1>1. version' \in [Principals -> Nat] BY DEF EditSettings, TypeOK, TablesTypeOK
<1>2. settings' \in [Principals -> 0..MaxSettings]
  BY TablesAssumption DEF EditSettings, TypeOK, TablesTypeOK
<1>3. QED BY <1>1, <1>2 DEF EditSettings, TypeOK, TablesTypeOK

LEMMA NextTypeOK ==
    ASSUME TypeOK, AboutAProxy, [Next]_vars PROVE TypeOK' /\ AboutAProxy'
<1>1. CASE BrokerStep /\ UNCHANGED syncVars
  <2>1. TablesTypeOK' /\ BrokerTypeOK' /\ LocksAreHeld' BY <1>1, BrokerStepType
  <2>2. QED BY <1>1, <2>1 DEF TypeOK, SyncTypeOK, AboutAProxy, syncVars
<1>2. CASE SyncStep /\ UNCHANGED brokerVars
  <2>1. TablesTypeOK' /\ SyncTypeOK' /\ AboutAProxy' BY <1>2, SyncStepType
  <2>2. QED BY <1>2, <2>1 DEF TypeOK, BrokerTypeOK, LocksAreHeld, brokerVars
<1>3. CASE /\ (\E c \in Credentials : TimePasses(c)) \/ (\E p \in Principals : EditSettings(p))
           /\ UNCHANGED <<brokerVars, syncVars>>
  <2>1. TablesTypeOK' BY <1>3, TimePassesType, EditSettingsType
  <2>2. QED BY <1>3, <2>1
        DEF TypeOK, BrokerTypeOK, SyncTypeOK, LocksAreHeld, AboutAProxy, brokerVars, syncVars
<1>4. CASE UNCHANGED vars
  BY <1>4 DEF TypeOK, TablesTypeOK, BrokerTypeOK, SyncTypeOK, LocksAreHeld, AboutAProxy, vars,
              tables, brokerVars, syncVars
<1>5. QED BY <1>1, <1>2, <1>3, <1>4 DEF Next

(* Type correctness, and locks are neither leaked nor taken twice: a row is
   locked by a replica exactly while it refreshes it, and by Console exactly
   while it saves it. *)
THEOREM DeliveryTypeCorrect == Spec => []TypeOK
<1>1. Init => TypeOK /\ AboutAProxy
  BY InitTypeOK DEF Init, SyncInit, AboutAProxy, Free
<1>2. TypeOK /\ AboutAProxy /\ [Next]_vars => (TypeOK /\ AboutAProxy)' BY NextTypeOK
<1>3. QED BY <1>1, <1>2, PTL DEF Spec

(***************************************************************************)
(* A matching hash is current.                                             *)
(***************************************************************************)

(* What a request has read, if its version is still the present one, is what
   the database has. *)
ReadIsGuarded(q) ==
  LET r == req[q]
      p == PrincipalOf[req[q].x]
  IN r.pc # "free" =>
       /\ r.version <= version[p]
       /\ r.pc = "channels" =>
            /\ r.config.window = r.window
            /\ r.version = version[p] => r.config.tokens = TokensOf(p)

(* So is what the cache holds. *)
EntryIsGuarded(x) ==
  LET e == cache[x]
      p == PrincipalOf[x]
  IN e # NoEntry =>
       /\ e.version <= version[p]
       /\ e.hash.window = e.window
       /\ e.version = version[p] => e.hash.tokens = TokensOf(p) /\ e.hash.settings = settings[p]

AllGuarded ==
  /\ \A q \in Requests : ReadIsGuarded(q)
  /\ \A x \in Proxies : EntryIsGuarded(x)

Guarded == TypeOK /\ AboutAProxy /\ AllGuarded

(* The version of a principal never goes back, and if it stays, so do the
   tokens and settings it stands for. *)
VersionGuards ==
  \A p \in Principals :
    /\ version'[p] >= version[p]
    /\ version'[p] = version[p] => TokensOf(p)' = TokensOf(p) /\ settings'[p] = settings[p]

(* A change of one credential, with a new version for its grantees. *)
LEMMA InvalidatedGuards ==
    ASSUME TypeOK, NEW c \in Credentials, NEW r \in Row, row' = [row EXCEPT ![c] = r],
           InvalidateProxyConfigs(c), UNCHANGED settings
    PROVE  VersionGuards
BY TablesAssumption DEF TypeOK, TablesTypeOK, InvalidateProxyConfigs, VersionGuards, TokensOf

(* A change of a credential that leaves its access token alone needs none. *)
LEMMA SameTokenGuards ==
    ASSUME TypeOK, NEW c \in Credentials, NEW r \in Row, row' = [row EXCEPT ![c] = r],
           r.at = row[c].at, UNCHANGED <<version, settings>>
    PROVE  VersionGuards
BY DEF TypeOK, TablesTypeOK, VersionGuards, TokensOf

LEMMA SameTablesGuard ==
    ASSUME TypeOK, UNCHANGED tables PROVE VersionGuards
BY DEF TypeOK, TablesTypeOK, VersionGuards, TokensOf, tables

(* Whoever writes a token or a setting bumps the versions it goes into. *)
LEMMA StepGuards == ASSUME TypeOK, [Next]_vars PROVE VersionGuards
<1>1. ASSUME NEW b \in Brokers, NEW c \in Credentials,
             RecordRefresh(b, c) \/ RecordRetry(b, c) \/ RecordDead(b, c)
      PROVE  VersionGuards
  <2>1. PICK r \in Row : /\ row' = [row EXCEPT ![c] = r]
                         /\ job[b][c].pc = "retry" => r.at = row[c].at
    BY <1>1, RecordedRow
  <2>2. UNCHANGED settings BY <1>1 DEF RecordRefresh, RecordRetry, RecordDead, EndJob
  <2>3. CASE RecordRetry(b, c)
    <3>1. UNCHANGED <<version, settings>> BY <2>2, <2>3 DEF RecordRetry
    <3>2. row' = [row EXCEPT ![c] = r] /\ r.at = row[c].at BY <2>1, <2>3 DEF RecordRetry
    <3>3. QED BY <3>1, <3>2, SameTokenGuards
  <2>4. CASE RecordRefresh(b, c) \/ RecordDead(b, c)
    <3>1. InvalidateProxyConfigs(c) BY <2>4 DEF RecordRefresh, RecordDead
    <3>2. row' = [row EXCEPT ![c] = r] BY <2>1
    <3>3. QED BY <2>2, <3>1, <3>2, InvalidatedGuards
  <2>5. QED BY <1>1, <2>3, <2>4
<1>2. ASSUME NEW c \in Credentials, CommitSave(c) PROVE VersionGuards
  <2>1. PICK r \in Row : row' = [row EXCEPT ![c] = r] /\ (edit[c].by # "consent" => r.at = row[c].at)
    BY <1>2, SavedType, Zenon DEF CommitSave
  <2>2. /\ UNCHANGED settings
        /\ IF edit[c].dead \/ edit[c].by = "consent" THEN InvalidateProxyConfigs(c) ELSE UNCHANGED version
    BY <1>2 DEF CommitSave
  <2>3. CASE edit[c].dead \/ edit[c].by = "consent" BY <2>1, <2>2, <2>3, InvalidatedGuards
  <2>4. CASE ~(edit[c].dead \/ edit[c].by = "consent") BY <2>1, <2>2, <2>4, SameTokenGuards
  <2>5. QED BY <2>3, <2>4
<1>3. ASSUME NEW c \in Credentials, TimePasses(c) PROVE VersionGuards
  <2>1. row[c] \in Row BY DEF TypeOK, TablesTypeOK
  <2>2. [row[c] EXCEPT !.due = TRUE] \in Row /\ [row[c] EXCEPT !.due = TRUE].at = row[c].at
    BY <2>1 DEF Row
  <2>3. row' = [row EXCEPT ![c] = [row[c] EXCEPT !.due = TRUE]] /\ UNCHANGED <<version, settings>>
    BY <1>3 DEF TimePasses
  <2>4. QED BY <2>2, <2>3, SameTokenGuards
<1>4. ASSUME NEW p \in Principals, EditSettings(p) PROVE VersionGuards
  BY <1>4 DEF EditSettings, TypeOK, TablesTypeOK, VersionGuards, TokensOf
<1>5. CASE BrokerStep
  <2>1. ASSUME NEW b \in Brokers, Tick(b) \/ Terminate(b) \/ Exit(b) \/ Crash(b) \/ Restart(b)
        PROVE  UNCHANGED tables
    BY <2>1 DEF Tick, Terminate, Exit, Crash, Abandoned, Restart
  <2>2. ASSUME NEW b \in Brokers, NEW c \in Credentials,
               \/ StartRefresh(b, c) \/ Accepted(b, c) \/ Rejected(b, c) \/ Unavailable(b, c)
               \/ TimesOut(b, c) \/ StoreFails(b, c)
        PROVE  UNCHANGED tables
    BY <2>2 DEF StartRefresh, Accepted, Rejected, Unavailable, TimesOut, StoreFails
  <2>3. ASSUME NEW c \in Credentials,
               \/ \E t \in strays[c] : StrayServed(c, t)
               \/ Revoke(c) \/ \E by \in {"consent", "operator"} : Reauthorize(c, by)
               \/ LoadCredential(c) \/ BeginSave(c)
        PROVE  UNCHANGED tables
    BY <2>3 DEF StrayServed, Revoke, Reauthorize, LoadCredential, BeginSave
  <2>4. QED BY <1>1, <1>2, <1>5, <2>1, <2>2, <2>3, SameTablesGuard DEF BrokerStep
<1>6. CASE SyncStep
  <2>1. UNCHANGED tables
    BY <1>6 DEF SyncStep, Poll, GiveUp, NextWindow, EntryExpires, Hit, Miss, LoadCredentials,
                AppendAndStore, Store, Completed, RestartService
  <2>2. QED BY <2>1, SameTablesGuard
<1>7. CASE UNCHANGED vars BY <1>7, SameTablesGuard DEF vars
<1>8. QED BY <1>3, <1>4, <1>5, <1>6, <1>7 DEF Next

(* What is guarded stays so while the tables change. *)
LEMMA KeptGuards ==
    ASSUME Guarded, TypeOK', VersionGuards
    PROVE  /\ \A q \in Requests : req'[q] = req[q] => ReadIsGuarded(q)'
           /\ \A x \in Proxies : cache'[x] = cache[x] => EntryIsGuarded(x)'
<1>1. ASSUME NEW q \in Requests, req'[q] = req[q] PROVE ReadIsGuarded(q)'
  <2>1. CASE req[q].pc = "free" BY <1>1, <2>1 DEF ReadIsGuarded
  <2>2. CASE req[q].pc # "free"
    <3>1. PICK p \in Principals : p = PrincipalOf[req[q].x]
      BY <2>2, SyncAssumption DEF Guarded, AboutAProxy
    <3>2. version[p] \in Nat /\ version'[p] \in Nat /\ req[q].version \in Nat
      BY DEF Guarded, TypeOK, TablesTypeOK, SyncTypeOK, Request
    <3>3. ReadIsGuarded(q) BY DEF Guarded, AllGuarded
    <3>4. /\ version'[p] >= version[p]
          /\ version'[p] = version[p] => TokensOf(p)' = TokensOf(p)
      BY DEF VersionGuards
    <3>5. QED BY <1>1, <3>1, <3>2, <3>3, <3>4 DEF ReadIsGuarded
  <2>3. QED BY <2>1, <2>2
<1>2. ASSUME NEW x \in Proxies, cache'[x] = cache[x] PROVE EntryIsGuarded(x)'
  <2>1. PICK p \in Principals : p = PrincipalOf[x] BY SyncAssumption
  <2>2. version[p] \in Nat /\ version'[p] \in Nat /\ cache[x].version \in Nat
    BY DEF Guarded, TypeOK, TablesTypeOK, SyncTypeOK, Entry
  <2>3. EntryIsGuarded(x) BY DEF Guarded, AllGuarded
  <2>4. /\ version'[p] >= version[p]
        /\ version'[p] = version[p] => TokensOf(p)' = TokensOf(p) /\ settings'[p] = settings[p]
    BY DEF VersionGuards
  <2>5. QED BY <1>2, <2>1, <2>2, <2>3, <2>4 DEF EntryIsGuarded
<1>3. QED BY <1>1, <1>2

(* A free handler guards nothing, and neither does an entry that is not there. *)
LEMMA NothingToGuard ==
    /\ \A q \in Requests : req'[q] = Free => ReadIsGuarded(q)'
    /\ \A x \in Proxies : cache'[x] = NoEntry => EntryIsGuarded(x)'
BY DEF ReadIsGuarded, EntryIsGuarded, Free

(* The version is read before what it guards, and an entry is stored under it. *)
LEMMA GuardedStep == ASSUME Guarded, [Next]_vars PROVE Guarded'
<1>1. TypeOK /\ AboutAProxy BY DEF Guarded
<1>2. TypeOK' /\ AboutAProxy' BY <1>1, NextTypeOK
<1>3. VersionGuards BY <1>1, StepGuards
<1>4. ASSUME UNCHANGED <<req, cache>> PROVE AllGuarded' BY <1>2, <1>3, <1>4, KeptGuards DEF AllGuarded
<1>5. ASSUME NEW q \in Requests, NEW r \in Request, req' = [req EXCEPT ![q] = r],
             UNCHANGED cache, ReadIsGuarded(q)'
      PROVE  AllGuarded'
  <2>1. \A k \in Requests \ {q} : req'[k] = req[k] BY <1>1, <1>5 DEF TypeOK, SyncTypeOK
  <2>2. QED BY <1>2, <1>3, <1>5, <2>1, KeptGuards DEF AllGuarded
<1>6. ASSUME SyncStep PROVE AllGuarded'
  <2>1. UNCHANGED tables
    BY <1>6 DEF SyncStep, Poll, GiveUp, NextWindow, EntryExpires, Hit, Miss, LoadCredentials,
                AppendAndStore, Store, Completed, RestartService
  <2>2. \A p \in Principals : TokensOf(p)' = TokensOf(p) BY <2>1 DEF TokensOf, tables
  <2>3. \A x \in Proxies : PrincipalOf[x] \in Principals /\ version[PrincipalOf[x]] \in Nat
    BY <1>1, SyncAssumption DEF TypeOK, TablesTypeOK
  <2>4. ASSUME NEW x \in Proxies, Poll(x) PROVE AllGuarded'
    <3>1. PICK q \in Requests, r \in Request :
            /\ req' = [req EXCEPT ![q] = r]
            /\ r.pc = "loaded" /\ r.x = x /\ r.version = version[PrincipalOf[x]]
      BY <1>1, <2>4, PollStep
    <3>2. req'[q] = r BY <1>1, <3>1 DEF TypeOK, SyncTypeOK
    <3>3. ReadIsGuarded(q)' BY <2>1, <2>3, <3>1, <3>2 DEF ReadIsGuarded, tables
    <3>4. UNCHANGED cache BY <2>4 DEF Poll
    <3>5. QED BY <1>5, <3>1, <3>3, <3>4
  <2>5. ASSUME NEW q \in Requests, Miss(q) PROVE AllGuarded'
    <3>1. PICK r \in Request : /\ req' = [req EXCEPT ![q] = r] /\ r.pc = "build"
                              /\ r.x = req[q].x /\ r.version = req[q].version
      BY <1>1, <2>5, MissStep
    <3>2. req'[q] = r BY <1>1, <3>1 DEF TypeOK, SyncTypeOK
    <3>3. ReadIsGuarded(q) /\ req[q].pc = "loaded" BY <2>5 DEF Guarded, AllGuarded, Miss
    <3>4. ReadIsGuarded(q)' BY <2>1, <3>1, <3>2, <3>3 DEF ReadIsGuarded, tables
    <3>5. UNCHANGED cache BY <2>5 DEF Miss
    <3>6. QED BY <1>5, <3>1, <3>4, <3>5
  <2>6. ASSUME NEW q \in Requests, LoadCredentials(q) PROVE AllGuarded'
    <3>1. PICK r \in Request :
            /\ req' = [req EXCEPT ![q] = r] /\ r.pc = "channels" /\ r.x = req[q].x
            /\ r.version = req[q].version /\ r.config.window = r.window
            /\ r.config.tokens = TokensOf(PrincipalOf[req[q].x])
      BY <1>1, <2>6, LoadStep
    <3>2. req'[q] = r BY <1>1, <3>1 DEF TypeOK, SyncTypeOK
    <3>3. ReadIsGuarded(q) /\ req[q].pc = "build" BY <2>6 DEF Guarded, AllGuarded, LoadCredentials
    <3>4. req[q].x \in Proxies BY <1>1, <3>3 DEF AboutAProxy
    <3>5. ReadIsGuarded(q)' BY <2>1, <2>2, <2>3, <3>1, <3>2, <3>3, <3>4 DEF ReadIsGuarded, tables
    <3>6. UNCHANGED cache BY <2>6 DEF LoadCredentials
    <3>7. QED BY <1>5, <3>1, <3>5, <3>6
  <2>7. ASSUME NEW q \in Requests, Hit(q) PROVE AllGuarded'
    <3>1. req' = [req EXCEPT ![q] = Free] /\ UNCHANGED cache BY <2>7 DEF Hit, Answer
    <3>2. req'[q] = Free BY <1>1, <3>1 DEF TypeOK, SyncTypeOK
    <3>3. ReadIsGuarded(q)' BY <3>2, NothingToGuard
    <3>4. QED BY <1>5, <3>1, <3>3, SyncRecords
  <2>8. ASSUME NEW q \in Requests, AppendAndStore(q) PROVE AllGuarded'
    <3>1. PICK f \in Config :
            /\ Answer(q, f) /\ f.tokens = req[q].config.tokens /\ f.window = req[q].config.window
            /\ f.settings = settings[PrincipalOf[req[q].x]]
            /\ cache' = IF req[q].x \in Requested THEN cache
                        ELSE [cache EXCEPT ![req[q].x] = [version |-> req[q].version,
                                                          window |-> req[q].window, hash |-> f]]
      BY <1>1, <2>8, StoreStep
    <3>2. req' = [req EXCEPT ![q] = Free] BY <3>1 DEF Answer
    <3>3. \A k \in Requests : req'[k] = req[k] \/ req'[k] = Free BY <1>1, <3>2 DEF TypeOK, SyncTypeOK
    <3>4. \A k \in Requests : ReadIsGuarded(k)' BY <1>2, <1>3, <3>3, KeptGuards, NothingToGuard
    <3>5. ReadIsGuarded(q) /\ req[q].pc = "channels" BY <2>8 DEF Guarded, AllGuarded, AppendAndStore
    <3>6. req[q].x \in Proxies BY <1>1, <3>5 DEF AboutAProxy
    <3>7. ASSUME NEW x \in Proxies, cache'[x] # cache[x] PROVE EntryIsGuarded(x)'
      <4>1. x = req[q].x
        BY <1>1, <3>1, <3>6, <3>7 DEF TypeOK, SyncTypeOK
      <4>2. cache'[x] = [version |-> req[q].version, window |-> req[q].window, hash |-> f]
        BY <1>1, <3>1, <3>6, <3>7, <4>1 DEF TypeOK, SyncTypeOK
      <4>3. /\ cache'[x].version = req[q].version /\ cache'[x].window = req[q].window
            /\ cache'[x].hash = f
        BY <4>2
      <4>4. QED BY <2>1, <2>2, <2>3, <3>1, <3>5, <4>1, <4>3 DEF EntryIsGuarded, ReadIsGuarded, tables
    <3>8. QED BY <1>2, <1>3, <3>4, <3>7, KeptGuards DEF AllGuarded
  <2>9. ASSUME NEW x \in Proxies, GiveUp(x) \/ NextWindow(x) PROVE AllGuarded'
    BY <1>4, <2>9 DEF GiveUp, NextWindow
  <2>10. ASSUME NEW x \in Proxies, EntryExpires(x) PROVE AllGuarded'
    <3>1. \A y \in Proxies : cache'[y] = cache[y] \/ cache'[y] = NoEntry
      BY <1>1, <2>10 DEF EntryExpires, TypeOK, SyncTypeOK
    <3>2. UNCHANGED req BY <2>10 DEF EntryExpires
    <3>3. QED BY <1>2, <1>3, <3>1, <3>2, KeptGuards, NothingToGuard DEF AllGuarded
  <2>11. ASSUME RestartService PROVE AllGuarded'
    BY <2>11, NothingToGuard DEF RestartService, AllGuarded
  <2>12. QED BY <1>6, <2>4, <2>5, <2>6, <2>7, <2>8, <2>9, <2>10, <2>11 DEF SyncStep
<1>7. ASSUME UNCHANGED syncVars PROVE AllGuarded' BY <1>4, <1>7 DEF syncVars
<1>8. AllGuarded' BY <1>6, <1>7 DEF Next, vars, syncVars
<1>9. QED BY <1>2, <1>8 DEF Guarded

(* The inductive invariant: a version that is still the present one vouches
   for everything that was read after it. *)
THEOREM ReadsAreGuarded == Spec => []Guarded
<1>1. Init => Guarded
  BY InitTypeOK DEF Init, SyncInit, Guarded, AllGuarded, AboutAProxy, ReadIsGuarded, EntryIsGuarded, Free
<1>2. Guarded /\ [Next]_vars => Guarded' BY GuardedStep
<1>3. QED BY <1>1, <1>2, PTL DEF Spec

(* proxy sync never answers "unchanged" for a configuration that is not the
   one in the database, for any number of replicas, proxies and requests, and
   whatever is refreshed and edited while a configuration is built. *)
THEOREM MatchesAreCurrent == Spec => []MatchIsCurrent
<1>1. ASSUME Guarded PROVE MatchIsCurrent
  <2>1. ASSUME NEW x \in Proxies, cache[x] # NoEntry,
               cache[x].version = version[PrincipalOf[x]], cache[x].window = window[x]
        PROVE  cache[x].hash = ConfigNow(x)
    <3>1. EntryIsGuarded(x) /\ cache[x].hash \in Config
      BY <1>1 DEF Guarded, AllGuarded, TypeOK, SyncTypeOK, Entry
    <3>2. /\ cache[x].hash.tokens = TokensOf(PrincipalOf[x])
          /\ cache[x].hash.settings = settings[PrincipalOf[x]]
          /\ cache[x].hash.window = window[x]
      BY <2>1, <3>1 DEF EntryIsGuarded
    <3>3. QED BY <3>1, <3>2 DEF ConfigNow, Config
  <2>2. QED BY <2>1 DEF MatchIsCurrent
<1>2. QED BY <1>1, ReadsAreGuarded, PTL

(***************************************************************************)
(* No authorization is lost, and the dead were refused.                    *)
(***************************************************************************)

(* No request was cut off, no replica died, no transaction failed and nobody
   revoked anything. *)
Undisturbed == faults \cap {"crash", "timeout", "store", "revoke"} = {}

(* The secrets a credential has stored. *)
Stored(c) == {row[c].rt, row[c].key}

(* Whoever has a secret has it from the endpoint, or told it: what is issued
   next is new to everybody. *)
Numbered(c) ==
  /\ accepts[c] \subseteq 1..issued[c]
  /\ row[c].rt <= issued[c] /\ row[c].key <= issued[c]
  /\ edit[c].rt <= issued[c] /\ edit[c].key <= issued[c]
  /\ \A b \in Brokers : job[b][c].rt <= issued[c]

(* A grant has the secrets it needs and no others: a refresh token without
   initial values, client credentials without a refresh token. *)
HasWhatItNeeds(c) ==
  /\ row[c].grant = "refresh_token" => row[c].key = 0 /\ edit[c].key = 0
  /\ row[c].grant # "refresh_token" => edit[c].by # "consent" /\ edit[c].rt = 0
  /\ row[c].grant = "client_credentials" =>
       row[c].rt = 0 /\ \A b \in Brokers : job[b][c].rt = 0

(* In the refresh under way or the one before, the endpoint refused everything
   that is stored now. *)
AllRefused(c) == \A t \in Stored(c) \ {0} : WasRefused(c, t)

(* A refresh falls back on the initial values when the endpoint has refused the
   refresh token, and gives its verdict when it has refused everything. *)
VerdictIsRight(c) ==
  \A b \in Brokers :
    LET j == job[b][c]
    IN /\ j.pc = "ask" =>
            \/ j.with = "refresh" /\ ~j.stale /\ row[c].grant # "client_credentials"
            \/ /\ j.with = "initial" /\ row[c].grant # "refresh_token"
               /\ row[c].rt = 0 \/ WasRefused(c, row[c].rt)
       /\ j.pc = "dead" => AllRefused(c)

(* While nobody saves a record whose verdict has changed since it was loaded,
   a save makes its credential live. *)
DeadIsOver(c) ==
  "stale_edit" \notin faults =>
    /\ row[c].dead => AllRefused(c)
    /\ edit[c].pc = "saving" => edit[c].dead = row[c].dead

(* What Console is about to save is accepted, and no refresh uses it up. *)
EditIsFresh(c) ==
  /\ \A t \in {edit[c].rt, edit[c].key} \ {0} :
       t \in accepts[c] /\ t # row[c].rt /\ \A b \in Brokers : job[b][c].rt # t
  /\ edit[c] # NoEdit /\ edit[c].by # "consent" => edit[c].rt # 0 \/ edit[c].key # 0

(* What RecordRefresh will leave a credential with. *)
GrantIsUsable(c) ==
  \A b \in Brokers :
    LET j == job[b][c]
    IN j.pc = "granted" /\ edit[c] = NoEdit =>
         /\ j.rt # 0 => j.rt \in accepts[c]
         /\ j.rt = 0 /\ j.stale => row[c].key \in accepts[c]
         /\ j.rt = 0 /\ ~j.stale => Stored(c) \cap accepts[c] # {}

(* TokenIsKept, of one credential. *)
IsKept(c) ==
  Stored(c) # {0} =>
    \/ Stored(c) \cap accepts[c] # {}
    \/ \E b \in Brokers : job[b][c].pc = "granted"
    \/ edit[c] # NoEdit

NothingIsLost(c) ==
  Undisturbed => strays[c] = {} /\ EditIsFresh(c) /\ GrantIsUsable(c) /\ IsKept(c)

SecretsAreSound(c) ==
  /\ Numbered(c) /\ HasWhatItNeeds(c) /\ VerdictIsRight(c) /\ DeadIsOver(c) /\ NothingIsLost(c)

(* The row of a credential keeps its grant, its secrets and its verdict. *)
SameRow(c) ==
  /\ row'[c].grant = row[c].grant /\ row'[c].rt = row[c].rt
  /\ row'[c].key = row[c].key /\ row'[c].dead = row[c].dead

(* A refresh is left alone, or ends without having brought anything. *)
JobStops(b, c) ==
  \/ job'[b][c] = job[b][c]
  \/ /\ job'[b][c].pc \in {"idle", "retry"} /\ job'[b][c].rt \in {0, job[b][c].rt}
     /\ Undisturbed' => job[b][c].pc # "granted"

LEMMA MoreFaults ==
    ASSUME faults \subseteq faults'
    PROVE  /\ Undisturbed' => Undisturbed
           /\ "stale_edit" \notin faults' => "stale_edit" \notin faults
BY DEF Undisturbed

(* The numbers and records a credential is made of. *)
LEMMA CredentialTypes ==
    ASSUME TypeOK, NEW c \in Credentials
    PROVE  /\ row[c].rt \in Nat /\ row[c].key \in Nat /\ row[c].dead \in BOOLEAN
           /\ row[c].grant \in GrantTypes
           /\ edit[c].rt \in Nat /\ edit[c].key \in Nat /\ edit[c].dead \in BOOLEAN
           /\ issued[c] \in Nat
           /\ \A b \in Brokers : job[b][c].rt \in Nat /\ job[b][c].stale \in BOOLEAN
<1>1. Tokens \subseteq Nat BY TablesAssumption DEF Tokens
<1>2. row[c] \in Row /\ edit[c] \in Edit /\ issued[c] \in Tokens
  BY DEF TypeOK, TablesTypeOK, BrokerTypeOK
<1>3. \A b \in Brokers : job[b][c] \in Job BY DEF TypeOK, BrokerTypeOK
<1>4. QED BY <1>1, <1>2, <1>3 DEF Row, Edit, Job

(* What does not touch a credential, or ends a refresh of it for nothing,
   leaves its secrets sound. *)
LEMMA QuietStep ==
    ASSUME NEW c \in Credentials, SecretsAreSound(c), faults \subseteq faults', SameRow(c),
           accepts'[c] \subseteq accepts[c], issued'[c] = issued[c], edit'[c] = edit[c],
           refusals'[c] = refusals[c],
           Undisturbed' => accepts'[c] = accepts[c] /\ strays'[c] = strays[c],
           \A b \in Brokers : JobStops(b, c),
           TypeOK
    PROVE  SecretsAreSound(c)'
<1>0. /\ Stored(c)' = Stored(c) /\ AllRefused(c)' = AllRefused(c)
      /\ WasRefused(c, row[c].rt)' = WasRefused(c, row[c].rt)
  BY DEF Stored, SameRow, AllRefused, WasRefused
<1>1. Numbered(c)'
  <2>1. accepts'[c] \subseteq 1..issued'[c] BY DEF SecretsAreSound, Numbered
  <2>2. \A b \in Brokers : job'[b][c].rt <= issued'[c]
    BY CredentialTypes DEF SecretsAreSound, Numbered, JobStops
  <2>3. QED BY <2>1, <2>2 DEF SecretsAreSound, Numbered, SameRow
<1>2. HasWhatItNeeds(c)'
  <2>1. row[c].grant = "client_credentials" => \A b \in Brokers : job'[b][c].rt = 0
    BY DEF SecretsAreSound, HasWhatItNeeds, JobStops
  <2>2. QED BY <2>1 DEF SecretsAreSound, HasWhatItNeeds, SameRow
<1>3. VerdictIsRight(c)'
  BY <1>0 DEF SecretsAreSound, VerdictIsRight, JobStops, SameRow
<1>4. DeadIsOver(c)'
  BY <1>0, MoreFaults DEF SecretsAreSound, DeadIsOver, SameRow
<1>5. ASSUME Undisturbed' PROVE strays'[c] = {} /\ EditIsFresh(c)' /\ GrantIsUsable(c)' /\ IsKept(c)'
  <2>1. /\ strays[c] = {} /\ EditIsFresh(c) /\ GrantIsUsable(c) /\ IsKept(c)
        /\ accepts'[c] = accepts[c] /\ strays'[c] = strays[c]
    BY <1>5, MoreFaults DEF SecretsAreSound, NothingIsLost
  <2>2. EditIsFresh(c)' BY <2>1 DEF EditIsFresh, JobStops, SameRow
  <2>3. GrantIsUsable(c)' BY <1>0, <2>1 DEF GrantIsUsable, JobStops, SameRow
  <2>4. IsKept(c)' BY <1>0, <1>5, <2>1 DEF IsKept, JobStops
  <2>5. QED BY <2>1, <2>2, <2>3, <2>4
<1>6. QED BY <1>1, <1>2, <1>3, <1>4, <1>5 DEF SecretsAreSound, NothingIsLost

(* A credential that a step leaves alone. *)
LeftAlone(c) ==
  /\ SameRow(c)
  /\ accepts'[c] = accepts[c] /\ issued'[c] = issued[c] /\ edit'[c] = edit[c]
  /\ strays'[c] = strays[c] /\ refusals'[c] = refusals[c]
  /\ \A b \in Brokers : job'[b][c] = job[b][c]

LEMMA LeftAloneIsSound ==
    ASSUME NEW c \in Credentials, SecretsAreSound(c), faults \subseteq faults', LeftAlone(c), TypeOK
    PROVE  SecretsAreSound(c)'
<1>1. \A b \in Brokers : JobStops(b, c) BY DEF LeftAlone, JobStops
<1>2. QED BY <1>1, QuietStep DEF LeftAlone

(* A refresh begins, moves on or ends while row, edit and endpoint stay. *)
LEMMA JobStep ==
    ASSUME TypeOK, NEW b \in Brokers, NEW c \in Credentials, NEW j, SetJob(b, c, j)
    PROVE  /\ job'[b][c] = j
           /\ \A a \in Brokers, d \in Credentials : (a # b \/ d # c) => job'[a][d] = job[a][d]
BY DEF SetJob, TypeOK, BrokerTypeOK

(* Whoever has the lock is alone with the credential. *)
LEMMA Alone ==
    ASSUME TypeOK, NEW c \in Credentials
    PROVE  /\ \A b \in Brokers : job[b][c] # Idle =>
                /\ lock[c] = b /\ edit[c].pc # "saving"
                /\ \A a \in Brokers \ {b} : job[a][c] = Idle
           /\ edit[c].pc = "saving" => \A b \in Brokers : job[b][c] = Idle
           /\ lock[c] = None => \A b \in Brokers : job[b][c] = Idle
<1>1. None \notin Brokers /\ None # Console /\ Console \notin Brokers
  BY BrokerAssumption DEF None, Console
<1>2. QED BY <1>1 DEF TypeOK, LocksAreHeld

(* What a refresh begins with is what the row needs. *)
LEMMA StartIsSound ==
    ASSUME TypeOK, NEW b \in Brokers, NEW c \in Credentials, SecretsAreSound(c),
           StartRefresh(b, c)
    PROVE  SecretsAreSound(c)'
<1>1. UNCHANGED <<row, faults, edit, accepts, issued, strays>>
  BY DEF StartRefresh, tables
<1>2. CASE UNCHANGED <<job, refusals>>
  BY <1>1, <1>2, LeftAloneIsSound DEF LeftAlone, SameRow
<1>3. CASE lock[c] = None /\ ~row[c].dead /\ SetJob(b, c, FirstRequest(row[c]))
  <2>1. PICK j : j = FirstRequest(row[c]) OBVIOUS
  <2>2. job'[b][c] = j /\ \A a \in Brokers \ {b} : job'[a][c] = job[a][c]
    BY <1>3, <2>1, JobStep
  <2>3. job[b][c] = Idle BY <1>3, Alone
  <2>4. /\ j.rt = 0 /\ j.pc # "granted"
        /\ j.pc = "dead" => row[c].rt = 0 /\ row[c].grant = "refresh_token"
        /\ j.pc = "ask" =>
             \/ j.with = "refresh" /\ ~j.stale /\ row[c].grant # "client_credentials"
             \/ /\ j.with = "initial" /\ row[c].grant # "refresh_token"
                /\ row[c].rt = 0 \/ row[c].grant = "client_credentials"
    BY <2>1 DEF FirstRequest, Idle
  <2>5. \A a \in Brokers \ {b} : job'[a][c] = Idle BY <1>3, <2>2, Alone
  <2>6. row[c].grant = "refresh_token" => row[c].key = 0 BY DEF SecretsAreSound, HasWhatItNeeds
  <2>7. row[c].grant = "client_credentials" => row[c].rt = 0 BY DEF SecretsAreSound, HasWhatItNeeds
  <2>8. Numbered(c)' BY <1>1, <2>2, <2>4, CredentialTypes DEF SecretsAreSound, Numbered
  <2>9. HasWhatItNeeds(c)' BY <1>1, <2>2, <2>4 DEF SecretsAreSound, HasWhatItNeeds
  <2>10. VerdictIsRight(c)'
    <3>1. j.pc = "dead" => AllRefused(c)' BY <1>1, <2>4, <2>6 DEF AllRefused, Stored
    <3>2. QED BY <1>1, <2>2, <2>4, <2>5, <2>7, <3>1 DEF VerdictIsRight, Idle
  <2>11. DeadIsOver(c)' BY <1>1, <1>3 DEF SecretsAreSound, DeadIsOver
  <2>12. NothingIsLost(c)'
    <3>1. SUFFICES ASSUME Undisturbed' PROVE (EditIsFresh(c) /\ GrantIsUsable(c) /\ IsKept(c))'
      BY <1>1 DEF NothingIsLost, SecretsAreSound, Undisturbed
    <3>2. EditIsFresh(c) /\ GrantIsUsable(c) /\ IsKept(c)
      BY <1>1, <3>1 DEF SecretsAreSound, NothingIsLost, Undisturbed
    <3>3. EditIsFresh(c)' BY <1>1, <2>2, <2>4, <3>2 DEF EditIsFresh
    <3>4. GrantIsUsable(c)' BY <1>1, <2>2, <2>4, <3>2 DEF GrantIsUsable, Stored
    <3>5. IsKept(c)'
      <4>1. \A a \in Brokers : job[a][c].pc = "granted" => job'[a][c].pc = "granted"
        BY <2>2, <2>3 DEF Idle
      <4>2. QED BY <1>1, <3>2, <4>1 DEF IsKept, Stored
    <3>6. QED BY <3>3, <3>4, <3>5
  <2>13. QED BY <2>8, <2>9, <2>10, <2>11, <2>12 DEF SecretsAreSound
<1>4. QED BY <1>2, <1>3, Zenon DEF StartRefresh, LockDueCredential, Refreshable

(* The endpoint's rejections add up to the verdict. *)
LEMMA RejectedIsSound ==
    ASSUME TypeOK, NEW b \in Brokers, NEW c \in Credentials, SecretsAreSound(c), Rejected(b, c)
    PROVE  SecretsAreSound(c)'
<1>1. UNCHANGED <<row, faults, edit, accepts, issued, strays>>
  BY DEF Rejected, tables
<1>2. job[b][c] \in Job /\ row[c].grant \in GrantTypes
  BY CredentialTypes DEF TypeOK, BrokerTypeOK
<1>3. PICK j : /\ j = IF job[b][c].with = "refresh" /\ row[c].grant \in {"password", "preqin"}
                      THEN [job[b][c] EXCEPT !.with = "initial", !.stale = TRUE]
                      ELSE [job[b][c] EXCEPT !.pc = "dead"]
               /\ SetJob(b, c, j)
  BY Zenon DEF Rejected
<1>4. job'[b][c] = j /\ \A a \in Brokers \ {b} : job'[a][c] = job[a][c] BY <1>3, JobStep
<1>5. job[b][c].pc = "ask" BY DEF Rejected
<1>6. \A t : WasRefused(c, t) \/ t = Secret(b, c) => WasRefused(c, t)'
  <2>1. PICK answer \in Answers :
          /\ answer = "coded" \/ (answer = "bare" /\ row[c].grant = "preqin")
          /\ refusals'[c] = refusals[c] \cup {<<Secret(b, c), answer>>}
    BY DEF Rejected, IsRejection, TypeOK, BrokerTypeOK
  <2>2. QED BY <1>1, <2>1 DEF WasRefused
<1>7. \/ /\ job[b][c].with = "refresh" /\ row[c].grant # "client_credentials"
         /\ WasRefused(c, row[c].rt)'
      \/ /\ job[b][c].with = "initial" /\ row[c].grant # "refresh_token"
         /\ row[c].rt = 0 \/ WasRefused(c, row[c].rt)'
         /\ WasRefused(c, row[c].key)'
  <2>1. row'[c].rt = row[c].rt /\ row'[c].key = row[c].key BY <1>1
  <2>2. CASE job[b][c].with = "refresh"
    <3>1. WasRefused(c, row[c].rt)' BY <1>6, <2>1, <2>2 DEF Secret
    <3>2. row[c].grant # "client_credentials" BY <1>5, <2>2 DEF SecretsAreSound, VerdictIsRight
    <3>3. QED BY <2>2, <3>1, <3>2
  <2>3. CASE job[b][c].with # "refresh"
    <3>1. WasRefused(c, row[c].key)' BY <1>6, <2>1, <2>3 DEF Secret
    <3>2. /\ job[b][c].with = "initial" /\ row[c].grant # "refresh_token"
          /\ row[c].rt = 0 \/ WasRefused(c, row[c].rt)
      BY <1>5, <2>3 DEF SecretsAreSound, VerdictIsRight
    <3>3. QED BY <1>6, <2>1, <3>1, <3>2
  <2>4. QED BY <2>2, <2>3
<1>8. /\ j.rt = job[b][c].rt /\ j.pc \in {"ask", "dead"}
      /\ j.pc = "ask" =>
           /\ j.with = "initial" /\ row[c].grant \in {"password", "preqin"}
           /\ job[b][c].with = "refresh"
      /\ j.pc = "dead" => ~(job[b][c].with = "refresh" /\ row[c].grant \in {"password", "preqin"})
  BY <1>2, <1>3, <1>5 DEF Job
<1>9. j.pc = "dead" => AllRefused(c)'
  <2>1. row[c].grant = "refresh_token" => row[c].key = 0 BY DEF SecretsAreSound, HasWhatItNeeds
  <2>2. Stored(c)' = {row[c].rt, row[c].key} BY <1>1 DEF Stored
  <2>3. QED BY <1>1, <1>2, <1>7, <1>8, <2>1, <2>2 DEF AllRefused, GrantTypes
<1>10. Numbered(c)' BY <1>1, <1>4, <1>8, CredentialTypes DEF SecretsAreSound, Numbered
<1>11. HasWhatItNeeds(c)' BY <1>1, <1>4, <1>8 DEF SecretsAreSound, HasWhatItNeeds
<1>12. VerdictIsRight(c)'
  <2>1. \A a \in Brokers \ {b} : job'[a][c] = Idle
    <3>1. job[b][c] # Idle BY <1>5 DEF Idle
    <3>2. QED BY <1>4, <3>1, Alone
  <2>2. j.pc = "ask" =>
          /\ j.with = "initial" /\ row[c].grant # "refresh_token"
          /\ WasRefused(c, row[c].rt)'
    BY <1>7, <1>8
  <2>3. QED BY <1>1, <1>4, <1>8, <1>9, <2>1, <2>2 DEF VerdictIsRight, Idle
<1>13. DeadIsOver(c)' BY <1>1, <1>6 DEF SecretsAreSound, DeadIsOver, AllRefused, Stored
<1>14. NothingIsLost(c)'
  <2>1. SUFFICES ASSUME Undisturbed' PROVE (EditIsFresh(c) /\ GrantIsUsable(c) /\ IsKept(c))'
    BY <1>1 DEF NothingIsLost, SecretsAreSound, Undisturbed
  <2>2. EditIsFresh(c) /\ GrantIsUsable(c) /\ IsKept(c)
    BY <1>1, <2>1 DEF SecretsAreSound, NothingIsLost, Undisturbed
  <2>3. EditIsFresh(c)' BY <1>1, <1>4, <1>8, <2>2 DEF EditIsFresh
  <2>4. GrantIsUsable(c)' BY <1>1, <1>4, <1>8, <2>2 DEF GrantIsUsable, Stored
  <2>5. IsKept(c)'
    <3>1. \A a \in Brokers : job[a][c].pc = "granted" => job'[a][c].pc = "granted"
      BY <1>4, <1>5
    <3>2. QED BY <1>1, <2>2, <3>1 DEF IsKept, Stored
  <2>6. QED BY <2>3, <2>4, <2>5
<1>15. QED BY <1>10, <1>11, <1>12, <1>13, <1>14 DEF SecretsAreSound

(* The endpoint takes the secret: what it issues is new, and what the refresh
   will store is accepted. *)
LEMMA AcceptedIsSound ==
    ASSUME TypeOK, NEW b \in Brokers, NEW c \in Credentials, SecretsAreSound(c), Accepted(b, c)
    PROVE  SecretsAreSound(c)'
<1>1. UNCHANGED <<row, faults, edit, strays, refusals>> BY DEF Accepted, tables
<1>2. PICK rt \in {0, issued[c] + 1}, from \in {0, row[c].rt} :
        /\ row[c].grant = "client_credentials" => rt = 0
        /\ Issue(c, from, rt) /\ Granted(b, c, rt)
  BY DEF Accepted
<1>3. PICK j : /\ j = [job[b][c] EXCEPT !.pc = "granted", !.at = issued[c] + 1, !.rt = rt]
               /\ SetJob(b, c, j)
  BY <1>2, Zenon DEF Granted
<1>4. job'[b][c] = j /\ \A a \in Brokers \ {b} : job'[a][c] = job[a][c] BY <1>3, JobStep
<1>5. job[b][c] \in Job /\ issued[c] \in Nat BY CredentialTypes DEF TypeOK, BrokerTypeOK
<1>6. j.pc = "granted" /\ j.rt = rt /\ j.stale = job[b][c].stale BY <1>3, <1>5 DEF Job
<1>7. job[b][c].pc = "ask" BY DEF Accepted
<1>8. job[b][c] # Idle BY <1>7 DEF Idle
<1>9. \A a \in Brokers \ {b} : job'[a][c] = Idle BY <1>4, <1>8, Alone
<1>10. /\ issued'[c] = issued[c] + 1
       /\ accepts'[c] = IF rt = 0 THEN accepts[c] ELSE (accepts[c] \ {from}) \cup {rt}
  BY <1>2 DEF Issue, TypeOK, BrokerTypeOK
<1>11. /\ job[b][c].stale => row[c].key \in accepts[c]
       /\ Stored(c) \cap accepts[c] # {}
  BY <1>7 DEF Accepted, Secret, Stored, SecretsAreSound, VerdictIsRight
<1>12. Numbered(c) BY DEF SecretsAreSound
<1>13. row[c].rt # issued[c] + 1 /\ row[c].key # issued[c] + 1 /\ issued[c] + 1 # 0
  BY <1>5, <1>12, CredentialTypes DEF Numbered
<1>14. Numbered(c)'
  <2>1. accepts'[c] \subseteq 1..issued'[c] BY <1>2, <1>5, <1>10, <1>12 DEF Numbered
  <2>2. \A a \in Brokers : job'[a][c].rt <= issued'[c]
    BY <1>2, <1>4, <1>5, <1>6, <1>9, <1>10 DEF Idle
  <2>3. QED BY <1>1, <1>5, <1>10, <1>12, <2>1, <2>2, CredentialTypes DEF Numbered
<1>15. HasWhatItNeeds(c)' BY <1>1, <1>2, <1>4, <1>6 DEF SecretsAreSound, HasWhatItNeeds
<1>16. VerdictIsRight(c)' BY <1>4, <1>6, <1>9 DEF VerdictIsRight, Idle
<1>17. DeadIsOver(c)' BY <1>1 DEF SecretsAreSound, DeadIsOver, AllRefused, WasRefused, Stored
<1>18. NothingIsLost(c)'
  <2>1. SUFFICES ASSUME Undisturbed' PROVE (EditIsFresh(c) /\ GrantIsUsable(c) /\ IsKept(c))'
    BY <1>1 DEF NothingIsLost, SecretsAreSound, Undisturbed
  <2>2. EditIsFresh(c) BY <1>1, <2>1 DEF SecretsAreSound, NothingIsLost, Undisturbed
  <2>3. EditIsFresh(c)'
    <3>1. ASSUME NEW t \in {edit[c].rt, edit[c].key} \ {0}
          PROVE  t \in accepts'[c] /\ t # row[c].rt /\ \A a \in Brokers : job'[a][c].rt # t
      <4>1. t \in accepts[c] /\ t # row[c].rt BY <2>2, <3>1 DEF EditIsFresh
      <4>2. t \in Nat /\ t # issued[c] + 1 BY <1>5, <1>12, <3>1, CredentialTypes DEF Numbered
      <4>3. QED BY <1>2, <1>4, <1>6, <1>9, <1>10, <3>1, <4>1, <4>2 DEF Idle
    <3>2. QED BY <1>1, <2>2, <3>1 DEF EditIsFresh
  <2>4. GrantIsUsable(c)'
    BY <1>1, <1>2, <1>4, <1>6, <1>9, <1>10, <1>11 DEF GrantIsUsable, Stored, Idle
  <2>5. IsKept(c)' BY <1>4, <1>6 DEF IsKept
  <2>6. QED BY <2>3, <2>4, <2>5
<1>19. QED BY <1>14, <1>15, <1>16, <1>17, <1>18 DEF SecretsAreSound

(* A request that is served for nobody uses a token up only after a request
   was cut off. *)
LEMMA StrayIsSound ==
    ASSUME TypeOK, NEW c \in Credentials, NEW t \in strays[c], SecretsAreSound(c), StrayServed(c, t)
    PROVE  SecretsAreSound(c)'
<1>1. UNCHANGED <<row, faults, job, edit, refusals>> BY DEF StrayServed, tables
<1>2. ~Undisturbed' BY <1>1 DEF SecretsAreSound, NothingIsLost, Undisturbed
<1>3. CASE UNCHANGED <<accepts, issued>>
  <2>1. \A b \in Brokers : JobStops(b, c) BY <1>1 DEF JobStops
  <2>2. SameRow(c) /\ edit'[c] = edit[c] /\ faults \subseteq faults' BY <1>1 DEF SameRow
  <2>3. QED BY <1>1, <1>2, <1>3, <2>1, <2>2, QuietStep
<1>4. ASSUME NEW rt \in {0, issued[c] + 1}, NEW from, Issue(c, from, rt) PROVE SecretsAreSound(c)'
  <2>1. issued[c] \in Nat /\ Numbered(c) BY CredentialTypes DEF SecretsAreSound
  <2>2. /\ issued'[c] = issued[c] + 1
        /\ accepts'[c] \subseteq accepts[c] \cup {issued[c] + 1}
    BY <1>4 DEF Issue, TypeOK, BrokerTypeOK
  <2>3. Numbered(c)'
    <3>1. accepts'[c] \subseteq 1..issued'[c] BY <2>1, <2>2 DEF Numbered
    <3>2. QED BY <1>1, <2>1, <2>2, <3>1, CredentialTypes DEF Numbered
  <2>4. HasWhatItNeeds(c)' BY <1>1 DEF SecretsAreSound, HasWhatItNeeds
  <2>5. VerdictIsRight(c)' /\ DeadIsOver(c)'
    BY <1>1 DEF SecretsAreSound, VerdictIsRight, DeadIsOver, AllRefused, WasRefused, Stored
  <2>6. QED BY <1>2, <2>3, <2>4, <2>5 DEF SecretsAreSound, NothingIsLost
<1>5. QED BY <1>3, <1>4 DEF StrayServed

(* A person's fresh values are new to everybody, and accepted. *)
LEMMA ReauthorizeIsSound ==
    ASSUME TypeOK, NEW c \in Credentials, NEW by \in {"consent", "operator"}, SecretsAreSound(c),
           Reauthorize(c, by)
    PROVE  SecretsAreSound(c)'
<1>1. UNCHANGED <<row, faults, job, strays, refusals>> BY DEF Reauthorize, tables
<1>2. issued[c] \in Nat /\ Numbered(c) /\ edit[c] = NoEdit
  BY CredentialTypes DEF SecretsAreSound, Reauthorize
<1> DEFINE n == issued[c] + 1
<1>3. /\ issued'[c] = n
      /\ accepts'[c] \subseteq accepts[c] \cup {n} /\ n \in accepts'[c]
  BY DEF Reauthorize, TypeOK, BrokerTypeOK
<1>4. PICK e : /\ edit'[c] = e /\ e.pc = "fresh" /\ e.by = by /\ e.rt \in {0, n} /\ e.key \in {0, n}
               /\ row[c].grant = "refresh_token" => e.key = 0
               /\ row[c].grant # "refresh_token" => by # "consent" /\ e.rt = 0
               /\ by # "consent" => e.rt # 0 \/ e.key # 0
  <2>1. n # 0 BY <1>2
  <2>2. PICK e : /\ edit' = [edit EXCEPT ![c] = e]
                 /\ \/ /\ row[c].grant = "refresh_token" /\ by = "consent"
                       /\ \E rt \in {0, n} :
                            e = [[NoEdit EXCEPT !.pc = "fresh", !.by = by] EXCEPT !.at = n, !.rt = rt]
                    \/ /\ row[c].grant = "refresh_token" /\ by = "operator"
                       /\ e = [[NoEdit EXCEPT !.pc = "fresh", !.by = by] EXCEPT !.rt = n]
                    \/ /\ row[c].grant # "refresh_token" /\ by = "operator"
                       /\ e = [[NoEdit EXCEPT !.pc = "fresh", !.by = by] EXCEPT !.key = n]
    BY Zenon DEF Reauthorize
  <2>3. edit'[c] = e BY <2>2 DEF TypeOK, BrokerTypeOK
  <2> HIDE DEF n
  <2>4. CASE by = "consent"
    <3>1. PICK rt \in {0, n} : /\ row[c].grant = "refresh_token"
                              /\ e = [[NoEdit EXCEPT !.pc = "fresh", !.by = by] EXCEPT !.at = n, !.rt = rt]
      BY <2>2, <2>4
    <3>2. e.pc = "fresh" /\ e.by = by /\ e.rt = rt /\ e.key = 0 BY <3>1 DEF NoEdit
    <3>3. QED BY <2>3, <2>4, <3>1, <3>2
  <2>5. CASE by = "operator" /\ row[c].grant = "refresh_token"
    <3>1. e = [[NoEdit EXCEPT !.pc = "fresh", !.by = by] EXCEPT !.rt = n] BY <2>2, <2>5
    <3>2. e.pc = "fresh" /\ e.by = by /\ e.rt = n /\ e.key = 0 BY <3>1 DEF NoEdit
    <3>3. QED BY <2>1, <2>3, <2>5, <3>2
  <2>6. CASE by = "operator" /\ row[c].grant # "refresh_token"
    <3>1. e = [[NoEdit EXCEPT !.pc = "fresh", !.by = by] EXCEPT !.key = n] BY <2>2, <2>6
    <3>2. e.pc = "fresh" /\ e.by = by /\ e.rt = 0 /\ e.key = n BY <3>1 DEF NoEdit
    <3>3. QED BY <2>1, <2>3, <2>6, <3>2
  <2>7. QED BY <2>4, <2>5, <2>6
<1>5. e # NoEdit BY <1>4 DEF NoEdit
<1>6. row[c].rt # n /\ row[c].key # n /\ \A b \in Brokers : job[b][c].rt # n
  BY <1>2, CredentialTypes DEF Numbered
<1>7. Numbered(c)'
  <2>1. accepts'[c] \subseteq 1..issued'[c] BY <1>2, <1>3 DEF Numbered
  <2>2. e.rt <= n /\ e.key <= n BY <1>2, <1>4
  <2>3. QED BY <1>1, <1>2, <1>3, <1>4, <2>1, <2>2, CredentialTypes DEF Numbered
<1> HIDE DEF n
<1>8. HasWhatItNeeds(c)' BY <1>1, <1>4 DEF SecretsAreSound, HasWhatItNeeds
<1>9. VerdictIsRight(c)' /\ DeadIsOver(c)'
  BY <1>1, <1>4 DEF SecretsAreSound, VerdictIsRight, DeadIsOver, AllRefused, WasRefused, Stored
<1>10. NothingIsLost(c)'
  <2>1. EditIsFresh(c)' BY <1>1, <1>3, <1>4, <1>6 DEF EditIsFresh
  <2>2. GrantIsUsable(c)' /\ IsKept(c)' BY <1>4, <1>5 DEF GrantIsUsable, IsKept
  <2>3. QED BY <1>1, <2>1, <2>2 DEF SecretsAreSound, NothingIsLost, Undisturbed
<1>11. QED BY <1>7, <1>8, <1>9, <1>10 DEF SecretsAreSound

(* Loading the record and taking its row change no secret. *)
LEMMA EditIsSound ==
    ASSUME TypeOK, NEW c \in Credentials, SecretsAreSound(c), LoadCredential(c) \/ BeginSave(c)
    PROVE  SecretsAreSound(c)'
<1>1. UNCHANGED <<row, job, accepts, issued, strays, refusals>> /\ faults \subseteq faults'
  BY DEF LoadCredential, BeginSave, tables, endpointVars, Fault
<1>2. edit[c] \in Edit /\ edit[c] # NoEdit
  BY DEF LoadCredential, BeginSave, NoEdit, TypeOK, BrokerTypeOK
<1>3. PICK e : /\ edit'[c] = e /\ e.rt = edit[c].rt /\ e.key = edit[c].key /\ e.by = edit[c].by
               /\ e.pc \in {"loaded", "saving"}
               /\ "stale_edit" \notin faults' /\ e.pc = "saving" => e.dead = row[c].dead
  <2>1. CASE LoadCredential(c)
    <3>1. PICK e : e = [edit[c] EXCEPT !.pc = "loaded", !.dead = row[c].dead] OBVIOUS
    <3>2. edit'[c] = e BY <2>1, <3>1 DEF LoadCredential, TypeOK, BrokerTypeOK
    <3>3. e.rt = edit[c].rt /\ e.key = edit[c].key /\ e.by = edit[c].by /\ e.pc = "loaded"
      BY <1>2, <3>1 DEF Edit
    <3>4. QED BY <3>2, <3>3
  <2>2. CASE BeginSave(c)
    <3>1. PICK e : e = [edit[c] EXCEPT !.pc = "saving"] OBVIOUS
    <3>2. edit'[c] = e BY <2>2, <3>1 DEF BeginSave, TypeOK, BrokerTypeOK
    <3>3. /\ e.rt = edit[c].rt /\ e.key = edit[c].key /\ e.by = edit[c].by /\ e.pc = "saving"
          /\ e.dead = edit[c].dead
      BY <1>2, <3>1 DEF Edit
    <3>4. "stale_edit" \notin faults' => edit[c].dead = row[c].dead BY <2>2 DEF BeginSave, Fault
    <3>5. QED BY <3>2, <3>3, <3>4
  <2>3. QED BY <2>1, <2>2
<1>4. e # NoEdit BY <1>3 DEF NoEdit
<1>5. Numbered(c)' BY <1>1, <1>3 DEF SecretsAreSound, Numbered
<1>6. HasWhatItNeeds(c)' BY <1>1, <1>3 DEF SecretsAreSound, HasWhatItNeeds
<1>7. VerdictIsRight(c)' BY <1>1 DEF SecretsAreSound, VerdictIsRight, AllRefused, WasRefused, Stored
<1>8. DeadIsOver(c)'
  BY <1>1, <1>3, MoreFaults DEF SecretsAreSound, DeadIsOver, AllRefused, WasRefused, Stored
<1>9. NothingIsLost(c)'
  <2>1. SUFFICES ASSUME Undisturbed' PROVE (EditIsFresh(c) /\ GrantIsUsable(c) /\ IsKept(c))'
    BY <1>1, MoreFaults DEF NothingIsLost, SecretsAreSound
  <2>2. EditIsFresh(c) BY <1>1, <2>1, MoreFaults DEF SecretsAreSound, NothingIsLost
  <2>3. EditIsFresh(c)' BY <1>1, <1>2, <1>3, <2>2 DEF EditIsFresh
  <2>4. GrantIsUsable(c)' /\ IsKept(c)' BY <1>3, <1>4 DEF GrantIsUsable, IsKept
  <2>5. QED BY <2>3, <2>4
<1>10. QED BY <1>5, <1>6, <1>7, <1>8, <1>9 DEF SecretsAreSound

(* What EndJob leaves: nobody refreshes the credential. *)
LEMMA EndedJob ==
    ASSUME TypeOK, NEW b \in Brokers, NEW c \in Credentials, job[b][c].pc # "idle", EndJob(b, c)
    PROVE  /\ \A a \in Brokers : job'[a][c] = Idle
           /\ edit[c].pc # "saving"
           /\ UNCHANGED <<faults, edit, accepts, issued, strays, refusals>>
<1>1. job[b][c] # Idle BY DEF Idle
<1>2. SetJob(b, c, Idle) /\ UNCHANGED <<faults, edit, accepts, issued, strays, refusals>>
  BY DEF EndJob, endpointVars
<1>3. job'[b][c] = Idle /\ \A a \in Brokers \ {b} : job'[a][c] = job[a][c] BY <1>2, JobStep
<1>4. QED BY <1>1, <1>2, <1>3, Alone

(* A refresh stores what the endpoint accepts next. *)
LEMMA RefreshIsSound ==
    ASSUME TypeOK, NEW b \in Brokers, NEW c \in Credentials, SecretsAreSound(c), RecordRefresh(b, c)
    PROVE  SecretsAreSound(c)'
<1>1. job[b][c].pc = "granted" /\ job[b][c].pc # "idle" /\ EndJob(b, c) BY DEF RecordRefresh
<1>2. /\ \A a \in Brokers : job'[a][c] = Idle
      /\ edit[c].pc # "saving"
      /\ UNCHANGED <<faults, edit, accepts, issued, strays, refusals>>
  BY <1>1, EndedJob
<1> DEFINE t == IF job[b][c].rt # 0 THEN job[b][c].rt ELSE IF job[b][c].stale THEN 0 ELSE row[c].rt
<1>3. row[c] \in Row BY DEF TypeOK, TablesTypeOK
<1>4. row'[c].grant = row[c].grant /\ row'[c].rt = t /\ row'[c].key = row[c].key /\ row'[c].dead = FALSE
  <2>1. row' = [row EXCEPT ![c] = [row[c] EXCEPT !.at = job[b][c].at, !.due = FALSE,
                                    !.refreshed = TRUE, !.dead = FALSE, !.rt = t]]
    BY Zenon DEF RecordRefresh
  <2> HIDE DEF t
  <2>2. row'[c] = [row[c] EXCEPT !.at = job[b][c].at, !.due = FALSE,
                                 !.refreshed = TRUE, !.dead = FALSE, !.rt = t]
    BY <2>1 DEF TypeOK, TablesTypeOK
  <2>3. QED BY <1>3, <2>2 DEF Row
<1>5. t \in {0, job[b][c].rt, row[c].rt} OBVIOUS
<1>6. Numbered(c)'
  <2>1. t <= issued[c] BY <1>5, CredentialTypes DEF SecretsAreSound, Numbered
  <2>2. QED BY <1>2, <1>4, <2>1, CredentialTypes DEF SecretsAreSound, Numbered, Idle
<1>7. HasWhatItNeeds(c)'
  BY <1>2, <1>4, <1>5 DEF SecretsAreSound, HasWhatItNeeds, Idle
<1>8. VerdictIsRight(c)' BY <1>2 DEF VerdictIsRight, Idle
<1>9. DeadIsOver(c)' BY <1>2, <1>4 DEF DeadIsOver
<1>10. NothingIsLost(c)'
  <2>1. SUFFICES ASSUME Undisturbed' PROVE (EditIsFresh(c) /\ GrantIsUsable(c) /\ IsKept(c))'
    BY <1>2 DEF NothingIsLost, SecretsAreSound, Undisturbed
  <2>2. EditIsFresh(c) /\ GrantIsUsable(c)
    BY <1>2, <2>1 DEF SecretsAreSound, NothingIsLost, Undisturbed
  <2>3. EditIsFresh(c)' BY <1>2, <1>4, <1>5, <2>2 DEF EditIsFresh, Idle
  <2>4. GrantIsUsable(c)' BY <1>2 DEF GrantIsUsable, Idle
  <2>5. IsKept(c)'
    <3>1. SUFFICES ASSUME edit[c] = NoEdit PROVE Stored(c)' \cap accepts'[c] # {}
      BY <1>2 DEF IsKept
    <3>2. CASE job[b][c].rt # 0
      BY <1>1, <1>2, <1>4, <2>2, <3>1, <3>2 DEF GrantIsUsable, Stored
    <3>3. CASE job[b][c].rt = 0 /\ job[b][c].stale
      BY <1>1, <1>2, <1>4, <2>2, <3>1, <3>3 DEF GrantIsUsable, Stored
    <3>4. CASE job[b][c].rt = 0 /\ ~job[b][c].stale
      BY <1>1, <1>2, <1>4, <2>2, <3>1, <3>4 DEF GrantIsUsable, Stored
    <3>5. QED BY <3>2, <3>3, <3>4
  <2>6. QED BY <2>3, <2>4, <2>5
<1>11. QED BY <1>6, <1>7, <1>8, <1>9, <1>10 DEF SecretsAreSound

(* The verdict is stored with the secrets it is about. *)
LEMMA DeadIsSound ==
    ASSUME TypeOK, NEW b \in Brokers, NEW c \in Credentials, SecretsAreSound(c), RecordDead(b, c)
    PROVE  SecretsAreSound(c)'
<1>1. job[b][c].pc = "dead" /\ job[b][c].pc # "idle" /\ EndJob(b, c) BY DEF RecordDead
<1>2. /\ \A a \in Brokers : job'[a][c] = Idle
      /\ edit[c].pc # "saving"
      /\ UNCHANGED <<faults, edit, accepts, issued, strays, refusals>>
  BY <1>1, EndedJob
<1>3. row'[c] = [row[c] EXCEPT !.dead = TRUE] /\ row[c] \in Row
  BY DEF RecordDead, TypeOK, TablesTypeOK
<1>4. row'[c].grant = row[c].grant /\ row'[c].rt = row[c].rt /\ row'[c].key = row[c].key
  BY <1>3 DEF Row
<1>5. Stored(c)' = Stored(c) BY <1>4 DEF Stored
<1>6. AllRefused(c)'
  BY <1>1, <1>2, <1>4, <1>5 DEF SecretsAreSound, VerdictIsRight, AllRefused, WasRefused
<1>7. Numbered(c)' BY <1>2, <1>4, CredentialTypes DEF SecretsAreSound, Numbered, Idle
<1>8. HasWhatItNeeds(c)' BY <1>2, <1>4 DEF SecretsAreSound, HasWhatItNeeds, Idle
<1>9. VerdictIsRight(c)' BY <1>2 DEF VerdictIsRight, Idle
<1>10. DeadIsOver(c)' BY <1>2, <1>6 DEF DeadIsOver
<1>11. NothingIsLost(c)'
  <2>1. SUFFICES ASSUME Undisturbed' PROVE (EditIsFresh(c) /\ GrantIsUsable(c) /\ IsKept(c))'
    BY <1>2 DEF NothingIsLost, SecretsAreSound, Undisturbed
  <2>2. EditIsFresh(c) /\ IsKept(c)
    BY <1>2, <2>1 DEF SecretsAreSound, NothingIsLost, Undisturbed
  <2>3. EditIsFresh(c)' BY <1>2, <1>4, <2>2 DEF EditIsFresh, Idle
  <2>4. GrantIsUsable(c)' BY <1>2 DEF GrantIsUsable, Idle
  <2>5. \A a \in Brokers : job[a][c].pc # "granted"
    <3>1. job[b][c] # Idle BY <1>1 DEF Idle
    <3>2. \A a \in Brokers \ {b} : job[a][c] = Idle BY <3>1, Alone
    <3>3. QED BY <1>1, <3>2 DEF Idle
  <2>6. IsKept(c)' BY <1>2, <1>5, <2>2, <2>5 DEF IsKept
  <2>7. QED BY <2>3, <2>4, <2>6
<1>12. QED BY <1>7, <1>8, <1>9, <1>10, <1>11 DEF SecretsAreSound

(* What a save of Console makes of grant, secrets and verdict. *)
LEMMA SavedSecrets ==
    ASSUME TypeOK, NEW c \in Credentials
    PROVE  LET s == Saved(c)
           IN /\ s.grant = row[c].grant /\ s.dead = (row[c].dead /\ ~edit[c].dead)
              /\ edit[c].by = "consent" => s.rt = edit[c].rt /\ s.key = row[c].key
              /\ edit[c].by # "consent" =>
                   /\ s.rt = IF edit[c].rt # 0 THEN edit[c].rt ELSE row[c].rt
                   /\ s.key = IF edit[c].key # 0 THEN edit[c].key ELSE row[c].key
<1>1. row[c] \in Row /\ row[c].dead \in BOOLEAN /\ edit[c].dead \in BOOLEAN
  BY CredentialTypes DEF TypeOK, TablesTypeOK
<1> DEFINE d == row[c].dead /\ ~edit[c].dead
<1>2. PICK live : live = [row[c] EXCEPT !.dead = d] OBVIOUS
<1>3. d \in BOOLEAN OBVIOUS
<1>4. Live(c) = live BY <1>2, Zenon DEF Live
<1> HIDE DEF d
<1>5. /\ live.grant = row[c].grant /\ live.rt = row[c].rt /\ live.key = row[c].key /\ live.dead = d
      /\ live \in Row
  BY <1>1, <1>2, <1>3 DEF Row
<1>6. CASE edit[c].by = "consent"
  <2>1. PICK u : u = (edit[c].rt = 0) OBVIOUS
  <2>2. Saved(c) = [live EXCEPT !.rt = edit[c].rt, !.at = edit[c].at, !.refreshed = TRUE, !.due = u]
    BY <1>4, <1>6, <2>1, Zenon DEF Saved, SavedByConsent
  <2>3. Saved(c).grant = live.grant /\ Saved(c).dead = live.dead /\ Saved(c).rt = edit[c].rt /\ Saved(c).key = live.key
    BY <1>5, <2>2 DEF Row
  <2>4. QED BY <1>5, <1>6, <2>3 DEF d
<1>7. CASE edit[c].by # "consent"
  <2>1. PICK t : t = IF edit[c].rt # 0 THEN edit[c].rt ELSE row[c].rt OBVIOUS
  <2>2. PICK k : k = IF edit[c].key # 0 THEN edit[c].key ELSE row[c].key OBVIOUS
  <2>3. Saved(c) = [live EXCEPT !.rt = t, !.key = k, !.due = TRUE]
    BY <1>4, <1>5, <1>7, <2>1, <2>2, Zenon DEF Saved, SavedByOperator
  <2>4. Saved(c).grant = live.grant /\ Saved(c).dead = live.dead /\ Saved(c).rt = t /\ Saved(c).key = k
    BY <1>5, <2>3 DEF Row
  <2>5. QED BY <1>5, <1>7, <2>1, <2>2, <2>4 DEF d
<1>8. QED BY <1>6, <1>7

(* A save brings what a person has just obtained, and a new life. *)
LEMMA SaveIsSound ==
    ASSUME TypeOK, NEW c \in Credentials, SecretsAreSound(c), CommitSave(c)
    PROVE  SecretsAreSound(c)'
<1>1. /\ edit[c].pc = "saving" /\ edit'[c] = NoEdit
      /\ UNCHANGED <<faults, job, accepts, issued, strays>>
  BY DEF CommitSave, endpointVars, TypeOK, BrokerTypeOK
<1>2. edit[c] # NoEdit BY <1>1 DEF NoEdit
<1>3. \A b \in Brokers : job[b][c] = Idle BY <1>1, Alone
<1>4. PICK s : s = Saved(c) OBVIOUS
<1>5. row'[c] = s BY <1>4, Zenon DEF CommitSave, TypeOK, TablesTypeOK
<1>6. /\ s.grant = row[c].grant /\ s.dead = (row[c].dead /\ ~edit[c].dead)
      /\ edit[c].by = "consent" => s.rt = edit[c].rt /\ s.key = row[c].key
      /\ edit[c].by # "consent" =>
           /\ s.rt = IF edit[c].rt # 0 THEN edit[c].rt ELSE row[c].rt
           /\ s.key = IF edit[c].key # 0 THEN edit[c].key ELSE row[c].key
  BY <1>4, SavedSecrets
<1>7. s.rt \in {edit[c].rt, row[c].rt} /\ s.key \in {edit[c].key, row[c].key} BY <1>6
<1>8. Numbered(c)'
  <2>1. s.rt <= issued[c] /\ s.key <= issued[c] BY <1>7 DEF SecretsAreSound, Numbered
  <2>2. QED BY <1>1, <1>5, <2>1, CredentialTypes DEF SecretsAreSound, Numbered, NoEdit
<1>9. HasWhatItNeeds(c)'
  BY <1>1, <1>5, <1>6, <1>7 DEF SecretsAreSound, HasWhatItNeeds, NoEdit, None
<1>10. VerdictIsRight(c)' BY <1>1, <1>3 DEF VerdictIsRight, Idle
<1>11. DeadIsOver(c)'
  <2>1. ASSUME "stale_edit" \notin faults PROVE ~s.dead
    <3>1. edit[c].dead = row[c].dead BY <1>1, <2>1 DEF SecretsAreSound, DeadIsOver
    <3>2. QED BY <1>6, <3>1, Zenon
  <2>2. QED BY <1>1, <1>5, <2>1 DEF DeadIsOver, NoEdit
<1>12. NothingIsLost(c)'
  <2>1. SUFFICES ASSUME Undisturbed' PROVE (EditIsFresh(c) /\ GrantIsUsable(c) /\ IsKept(c))'
    BY <1>1 DEF NothingIsLost, SecretsAreSound, Undisturbed
  <2>2. EditIsFresh(c) BY <1>1, <2>1 DEF SecretsAreSound, NothingIsLost, Undisturbed
  <2>3. EditIsFresh(c)' BY <1>1 DEF EditIsFresh, NoEdit
  <2>4. GrantIsUsable(c)' BY <1>1, <1>3 DEF GrantIsUsable, Idle
  <2>5. Stored(c)' = {s.rt, s.key} BY <1>5 DEF Stored
  <2>6. CASE edit[c].by = "consent"
    <3>1. row[c].key = 0 BY <2>6 DEF SecretsAreSound, HasWhatItNeeds
    <3>2. s.rt = edit[c].rt /\ s.key = 0 BY <1>6, <2>6, <3>1
    <3>3. CASE edit[c].rt = 0
      <4>1. Stored(c)' = {0} BY <2>5, <3>2, <3>3
      <4>2. QED BY <2>3, <2>4, <4>1 DEF IsKept
    <3>4. CASE edit[c].rt # 0
      <4>1. edit[c].rt \in accepts[c] BY <2>2, <3>4 DEF EditIsFresh
      <4>2. QED BY <1>1, <2>3, <2>4, <2>5, <3>2, <4>1 DEF IsKept
    <3>5. QED BY <3>3, <3>4
  <2>7. CASE edit[c].by # "consent"
    <3>1. edit[c].rt # 0 \/ edit[c].key # 0 BY <1>2, <2>2, <2>7 DEF EditIsFresh
    <3>2. {s.rt, s.key} \cap accepts[c] # {} BY <1>6, <2>2, <2>7, <3>1 DEF EditIsFresh
    <3>3. QED BY <1>1, <2>3, <2>4, <2>5, <3>2 DEF IsKept
  <2>8. QED BY <2>6, <2>7
<1>13. QED BY <1>8, <1>9, <1>10, <1>11, <1>12 DEF SecretsAreSound

(* A step that is about one credential leaves the others alone. *)
OnlyAbout(c) ==
  \A d \in Credentials \ {c} : LeftAlone(d)

(* The steps of a replica. *)
LEMMA ReplicaIsSound ==
    ASSUME TypeOK, \A d \in Credentials : SecretsAreSound(d), NEW b \in Brokers,
           Tick(b) \/ Terminate(b) \/ Exit(b) \/ Crash(b) \/ Restart(b)
    PROVE  \A d \in Credentials : SecretsAreSound(d)'
<1>1. CASE Tick(b) \/ Terminate(b) \/ Exit(b) \/ Restart(b)
  <2>1. UNCHANGED <<row, job, edit, accepts, issued, strays, refusals>> /\ faults \subseteq faults'
    BY <1>1 DEF Tick, Terminate, Exit, Restart, tables, endpointVars, Fault
  <2>2. \A d \in Credentials : LeftAlone(d) BY <2>1 DEF LeftAlone, SameRow
  <2>3. QED BY <2>1, <2>2, LeftAloneIsSound
<1>2. CASE Crash(b)
  <2>1. /\ UNCHANGED <<row, edit, accepts, issued, refusals>>
        /\ faults' = faults \cup {"crash"}
        /\ job' = [job EXCEPT ![b] = [c \in Credentials |-> Idle]]
    BY <1>2 DEF Crash, Abandoned, tables, endpointVars, Fault
  <2>2. ~Undisturbed' BY <2>1 DEF Undisturbed
  <2>3. \A a \in Brokers, d \in Credentials : job'[a][d] = job[a][d] \/ job'[a][d] = Idle
    BY <2>1 DEF TypeOK, BrokerTypeOK
  <2>4. \A a \in Brokers, d \in Credentials : JobStops(a, d)
    BY <2>2, <2>3 DEF JobStops, Idle
  <2>5. faults \subseteq faults' /\ \A d \in Credentials : SameRow(d) BY <2>1 DEF SameRow
  <2>6. QED BY <2>1, <2>2, <2>4, <2>5, QuietStep
<1>3. QED BY <1>1, <1>2

(* The steps of a replica's refresh of a credential. *)
LEMMA RefreshStepIsSound ==
    ASSUME TypeOK, \A d \in Credentials : SecretsAreSound(d),
           NEW b \in Brokers, NEW c \in Credentials,
           \/ StartRefresh(b, c)
           \/ Accepted(b, c) \/ Rejected(b, c) \/ Unavailable(b, c) \/ TimesOut(b, c)
           \/ RecordRefresh(b, c) \/ RecordRetry(b, c) \/ RecordDead(b, c) \/ StoreFails(b, c)
    PROVE  \A d \in Credentials : SecretsAreSound(d)'
<1>1. OnlyAbout(c)
  <2>1. \A a \in Brokers, d \in Credentials \ {c} : job'[a][d] = job[a][d]
    <3>1. UNCHANGED job \/ \E j : SetJob(b, c, j)
      BY Zenon DEF StartRefresh, Accepted, Granted, Rejected, Unavailable, TimesOut, RecordRefresh,
                   RecordRetry, RecordDead, StoreFails, EndJob
    <3>2. QED BY <3>1, JobStep
  <2>2. \A d \in Credentials \ {c} : accepts'[d] = accepts[d] /\ issued'[d] = issued[d]
    <3>1. UNCHANGED <<accepts, issued>> \/ \E rt, from : Issue(c, from, rt)
      BY DEF StartRefresh, Accepted, Rejected, Unavailable, TimesOut, RecordRefresh,
             RecordRetry, RecordDead, StoreFails, EndJob, endpointVars
    <3>2. QED BY <3>1 DEF Issue, TypeOK, BrokerTypeOK
  <2>3. \A d \in Credentials \ {c} : edit'[d] = edit[d] /\ strays'[d] = strays[d]
    BY DEF StartRefresh, Accepted, Rejected, Unavailable, TimesOut, RecordRefresh,
           RecordRetry, RecordDead, StoreFails, EndJob, TypeOK, BrokerTypeOK
  <2>4. \A d \in Credentials \ {c} : row'[d] = row[d]
    <3>1. UNCHANGED tables \/ RecordRefresh(b, c) \/ RecordRetry(b, c) \/ RecordDead(b, c)
      BY DEF StartRefresh, Accepted, Rejected, Unavailable, TimesOut, StoreFails
    <3>2. UNCHANGED row \/ \E r \in Row : row' = [row EXCEPT ![c] = r]
      BY <3>1, RecordedRow DEF tables
    <3>3. QED BY <3>2 DEF TypeOK, TablesTypeOK
  <2>5. \A d \in Credentials \ {c} : refusals'[d] = refusals[d]
    <3>1. UNCHANGED refusals \/ \E u : refusals' = [refusals EXCEPT ![c] = u]
      BY DEF StartRefresh, Accepted, Rejected, Unavailable, TimesOut, RecordRefresh,
             RecordRetry, RecordDead, StoreFails, EndJob, endpointVars
    <3>2. QED BY <3>1 DEF TypeOK, BrokerTypeOK
  <2>6. QED BY <2>1, <2>2, <2>3, <2>4, <2>5 DEF OnlyAbout, LeftAlone, SameRow
<1>2. faults \subseteq faults'
  BY DEF StartRefresh, Accepted, Rejected, Unavailable, TimesOut, RecordRefresh,
         RecordRetry, RecordDead, StoreFails, EndJob, Fault
<1>3. SecretsAreSound(c)'
  <2>1. CASE Unavailable(b, c) \/ RecordRetry(b, c)
    <3>1. UNCHANGED <<faults, edit, accepts, issued, strays, refusals>>
      BY <2>1 DEF Unavailable, RecordRetry, EndJob, endpointVars
    <3>2. job[b][c] \in Job /\ job[b][c].pc \in {"ask", "retry"} /\ row[c] \in Row
      BY <2>1 DEF Unavailable, RecordRetry, TypeOK, TablesTypeOK, BrokerTypeOK
    <3>3. PICK j : SetJob(b, c, j) /\ j \in {Idle, [job[b][c] EXCEPT !.pc = "retry"]}
      BY <2>1, Zenon DEF Unavailable, RecordRetry, EndJob
    <3>4. j.pc \in {"idle", "retry"} /\ j.rt \in {0, job[b][c].rt} BY <3>2, <3>3 DEF Job, Idle
    <3>5. \A a \in Brokers : JobStops(a, c) BY <3>2, <3>3, <3>4, JobStep DEF JobStops
    <3>6. SameRow(c)
      <4>1. row'[c] = row[c] \/ row'[c] = [row[c] EXCEPT !.due = FALSE]
        BY <2>1 DEF Unavailable, RecordRetry, tables, TypeOK, TablesTypeOK
      <4>2. QED BY <3>2, <4>1 DEF SameRow, Row
    <3>7. QED BY <3>1, <3>5, <3>6, QuietStep
  <2>2. CASE TimesOut(b, c) \/ StoreFails(b, c)
    <3>1. UNCHANGED <<row, edit, accepts, issued, refusals>> /\ ~Undisturbed'
      BY <2>2 DEF TimesOut, StoreFails, tables, endpointVars, Fault, Undisturbed
    <3>2. job[b][c] \in Job BY DEF TypeOK, BrokerTypeOK
    <3>3. PICK j : SetJob(b, c, j) /\ j \in {Idle, [job[b][c] EXCEPT !.pc = "retry"]}
      BY <2>2, Zenon DEF TimesOut, StoreFails
    <3>4. j.pc \in {"idle", "retry"} /\ j.rt \in {0, job[b][c].rt} BY <3>2, <3>3 DEF Job, Idle
    <3>5. \A a \in Brokers : JobStops(a, c) BY <3>1, <3>3, <3>4, JobStep DEF JobStops
    <3>6. SameRow(c) BY <3>1 DEF SameRow
    <3>7. QED BY <1>2, <3>1, <3>5, <3>6, QuietStep
  <2>3. QED BY <2>1, <2>2, StartIsSound, AcceptedIsSound, RejectedIsSound, RefreshIsSound, DeadIsSound
<1>4. QED BY <1>1, <1>2, <1>3, LeftAloneIsSound DEF OnlyAbout

(* The steps of Console, of people and of requests nobody waits for. *)
LEMMA ConsoleStepIsSound ==
    ASSUME TypeOK, \A d \in Credentials : SecretsAreSound(d), NEW c \in Credentials,
           \/ \E t \in strays[c] : StrayServed(c, t)
           \/ Revoke(c) \/ \E by \in {"consent", "operator"} : Reauthorize(c, by)
           \/ LoadCredential(c) \/ BeginSave(c) \/ CommitSave(c)
    PROVE  \A d \in Credentials : SecretsAreSound(d)'
<1>1. OnlyAbout(c)
  <2>1. UNCHANGED <<job, refusals>>
    BY DEF StrayServed, Revoke, Reauthorize, LoadCredential, BeginSave, CommitSave, endpointVars
  <2>2. \A d \in Credentials \ {c} : accepts'[d] = accepts[d] /\ issued'[d] = issued[d]
    BY DEF StrayServed, Issue, Revoke, Reauthorize, LoadCredential, BeginSave, CommitSave,
           endpointVars, TypeOK, BrokerTypeOK
  <2>3. \A d \in Credentials \ {c} : edit'[d] = edit[d] /\ strays'[d] = strays[d]
    BY DEF StrayServed, Revoke, Reauthorize, LoadCredential, BeginSave, CommitSave,
           TypeOK, BrokerTypeOK
  <2>4. \A d \in Credentials \ {c} : row'[d] = row[d]
    <3>1. UNCHANGED row \/ \E r : row' = [row EXCEPT ![c] = r]
      BY Zenon DEF StrayServed, Revoke, Reauthorize, LoadCredential, BeginSave, CommitSave, tables
    <3>2. QED BY <3>1 DEF TypeOK, TablesTypeOK
  <2>5. QED BY <2>1, <2>2, <2>3, <2>4 DEF OnlyAbout, LeftAlone, SameRow
<1>2. faults \subseteq faults'
  BY DEF StrayServed, Revoke, Reauthorize, LoadCredential, BeginSave, CommitSave, Fault
<1>3. SecretsAreSound(c)'
  <2>1. CASE Revoke(c)
    <3>1. /\ UNCHANGED <<row, edit, job, issued, strays, refusals>> /\ ~Undisturbed'
          /\ accepts'[c] \subseteq accepts[c]
      BY <2>1 DEF Revoke, tables, Fault, Undisturbed, TypeOK, BrokerTypeOK
    <3>2. SameRow(c) /\ \A a \in Brokers : JobStops(a, c) BY <3>1 DEF SameRow, JobStops
    <3>3. QED BY <1>2, <3>1, <3>2, QuietStep
  <2>2. QED BY <2>1, StrayIsSound, ReauthorizeIsSound, EditIsSound, SaveIsSound
<1>4. QED BY <1>1, <1>2, <1>3, LeftAloneIsSound DEF OnlyAbout

(* The inductive invariant of the secrets. *)
Sound == TypeOK /\ AboutAProxy /\ \A c \in Credentials : SecretsAreSound(c)

LEMMA SoundInit == Init => Sound
<1> SUFFICES ASSUME Init PROVE Sound OBVIOUS
<1>1. TypeOK /\ AboutAProxy BY InitTypeOK DEF Init, SyncInit, AboutAProxy, Free
<1>2. ASSUME NEW c \in Credentials PROVE SecretsAreSound(c)
  <2>1. /\ ~row[c].dead
        /\ row[c].grant = "refresh_token" => row[c].key = 0 /\ row[c].rt \in {0, 1}
        /\ row[c].grant # "refresh_token" => row[c].key = 1 /\ row[c].rt = 0
    BY DEF Init, TablesInit
  <2>2. /\ edit[c] = NoEdit /\ strays[c] = {} /\ \A b \in Brokers : job[b][c] = Idle
        /\ issued[c] = row[c].rt + row[c].key
        /\ accepts[c] = {row[c].rt, row[c].key} \ {0}
    BY DEF Init, BrokerInit
  <2>3. row[c].rt \in Nat /\ row[c].key \in Nat BY <1>1, CredentialTypes
  <2>4. Numbered(c) BY <2>2, <2>3 DEF Numbered, NoEdit, Idle
  <2>5. HasWhatItNeeds(c) BY <2>1, <2>2 DEF HasWhatItNeeds, NoEdit, Idle, None
  <2>6. VerdictIsRight(c) BY <2>2 DEF VerdictIsRight, Idle
  <2>7. DeadIsOver(c) BY <2>1, <2>2 DEF DeadIsOver, NoEdit
  <2>8. EditIsFresh(c) BY <2>2 DEF EditIsFresh, NoEdit
  <2>9. GrantIsUsable(c) BY <2>2 DEF GrantIsUsable, Idle
  <2>10. IsKept(c) BY <2>2 DEF IsKept, Stored
  <2>11. QED BY <2>2, <2>4, <2>5, <2>6, <2>7, <2>8, <2>9, <2>10 DEF SecretsAreSound, NothingIsLost
<1>3. QED BY <1>1, <1>2 DEF Sound

LEMMA SoundStep == ASSUME Sound, [Next]_vars PROVE Sound'
<1>1. TypeOK /\ AboutAProxy /\ \A d \in Credentials : SecretsAreSound(d) BY DEF Sound
<1>2. TypeOK' /\ AboutAProxy' BY <1>1, NextTypeOK
<1>3. ASSUME faults \subseteq faults', UNCHANGED brokerVars, \A d \in Credentials : SameRow(d)
      PROVE  \A d \in Credentials : SecretsAreSound(d)'
  <2>1. \A d \in Credentials : LeftAlone(d) BY <1>3 DEF LeftAlone, brokerVars
  <2>2. QED BY <1>1, <1>3, <2>1, LeftAloneIsSound
<1>4. CASE BrokerStep
  <2>1. \A d \in Credentials : SecretsAreSound(d)'
    BY <1>1, <1>4, ReplicaIsSound, RefreshStepIsSound, ConsoleStepIsSound DEF BrokerStep
  <2>2. QED BY <1>2, <2>1 DEF Sound
<1>5. CASE SyncStep /\ UNCHANGED brokerVars
  <2>1. UNCHANGED row /\ faults \subseteq faults'
    BY <1>5 DEF SyncStep, Poll, GiveUp, NextWindow, EntryExpires, Hit, Miss, LoadCredentials,
                AppendAndStore, Store, Completed, RestartService, tables, Fault
  <2>2. \A d \in Credentials : SameRow(d) BY <2>1 DEF SameRow
  <2>3. QED BY <1>2, <1>3, <1>5, <2>1, <2>2 DEF Sound
<1>6. ASSUME NEW c \in Credentials, TimePasses(c), UNCHANGED brokerVars PROVE Sound'
  <2>1. \A d \in Credentials : row'[d] = row[d] \/ row'[d] = [row[d] EXCEPT !.due = TRUE]
    BY <1>1, <1>6 DEF TimePasses, TypeOK, TablesTypeOK
  <2>2. \A d \in Credentials : row[d] \in Row BY <1>1 DEF TypeOK, TablesTypeOK
  <2>3. \A d \in Credentials : SameRow(d) BY <2>1, <2>2 DEF SameRow, Row
  <2>4. faults \subseteq faults' BY <1>6 DEF TimePasses
  <2>5. QED BY <1>2, <1>3, <1>6, <2>3, <2>4 DEF Sound
<1>7. ASSUME NEW p \in Principals, EditSettings(p), UNCHANGED brokerVars PROVE Sound'
  <2>1. UNCHANGED <<row, faults>> BY <1>7 DEF EditSettings
  <2>2. \A d \in Credentials : SameRow(d) BY <2>1 DEF SameRow
  <2>3. QED BY <1>2, <1>3, <1>7, <2>1, <2>2 DEF Sound
<1>8. CASE UNCHANGED vars
  <2>1. UNCHANGED <<row, faults>> /\ UNCHANGED brokerVars BY <1>8 DEF vars, tables
  <2>2. \A d \in Credentials : SameRow(d) BY <2>1 DEF SameRow
  <2>3. QED BY <1>2, <1>3, <2>1, <2>2 DEF Sound
<1>9. QED BY <1>4, <1>5, <1>6, <1>7, <1>8 DEF Next

(* The inductive invariant behind the next two: what the endpoint accepts and
   has refused of a credential, what its row, a refresh and an edit have of it,
   and the verdicts that are under way, fit together. *)
THEOREM SecretsStaySound == Spec => []Sound
<1>1. Init => Sound BY SoundInit
<1>2. Sound /\ [Next]_vars => Sound' BY SoundStep
<1>3. QED BY <1>1, <1>2, PTL DEF Spec

(* No authorization is lost: whichever of any number of replicas refresh and
   shut down, whatever the endpoint rotates and refuses and whoever
   re-authorizes, what a credential has stored is accepted or about to be
   replaced, unless a request was cut off, a replica died, a transaction failed
   or a person revoked it. *)
THEOREM AuthorizationsAreKept == Spec => []TokenIsKept
<1>1. Sound => TokenIsKept
  BY DEF Sound, SecretsAreSound, NothingIsLost, Undisturbed, IsKept, Stored, TokenIsKept
<1>2. QED BY <1>1, SecretsStaySound, PTL

(* The broker gives a credential up only after one refresh in which the endpoint
   refused all it has stored, by an OAuth error or as Preqin does, and not for
   an outage, a gateway's answer or a secret that was replaced since; a
   re-authorization makes it live again, as long as nobody saves a record whose
   verdict has changed since it was loaded. *)
THEOREM DeadWereRefused == Spec => []DeadWasRefused
<1>1. Sound => DeadWasRefused
  BY DEF Sound, SecretsAreSound, DeadIsOver, AllRefused, Stored, DeadWasRefused
<1>2. QED BY <1>1, SecretsStaySound, PTL
=============================================================================
