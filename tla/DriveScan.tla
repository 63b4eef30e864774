----------------------------- MODULE DriveScan ------------------------------
(***************************************************************************)
(* How the Drive connector of the company context service finds out which  *)
(* files of one Shared Drive a credential can see                          *)
(* (crates/centaur-company-context/src/tasks.rs): discovery, which learns  *)
(* whether the credential is a member and forgets drives it left, scans,   *)
(* which list the drive once and then follow its change feed from a stored *)
(* checkpoint, and walks, which descend from folders shared with someone   *)
(* who is no member.  All are tasks of the durable queue, enqueued again   *)
(* on every tick of the scheduler.  A page is one file.                    *)
(***************************************************************************)
EXTENDS Naturals, FiniteSets

CONSTANTS
  Scans,         \* scan and walk tasks that run at the same time
  Discoveries,   \* discovery tasks that run at the same time
  NFiles,        \* files of the drive
  Direct,        \* files that are shared by themselves; others by their folder
  MaxScanPages,  \* max_scan_pages
  Moves,         \* kinds of change from outside
  MaxMoves,      \* bound on their number
  Faults,        \* kinds of attempt that may fail: "scan", "discovery"
  MaxFaults      \* bound on failed attempts

ScanAssumption ==
  /\ NFiles \in Nat \ {0} /\ Direct \subseteq 1..NFiles
  /\ MaxScanPages \in Nat \ {0}
  /\ Moves \subseteq {"file", "member", "shared"}
  /\ Faults \subseteq {"scan", "discovery"}
  /\ MaxMoves \in Nat /\ MaxFaults \in Nat

VARIABLES
  file,        \* Google: each file as of its last change
  changes,     \* Google: number of the last change, what a page token stands for
  member,      \* Google: the credential is a member of the drive
  shared,      \* Google: files it reaches through what is shared with it
  obs,         \* google_drive_broker_observations, with the version they led to
  checkpoint,  \* google_drive_checkpoints: no row or one
  scanDue, walkDue,  \* a scan or a walk task waits
  run,         \* the task attempts that run
  moves, faults

vars == <<file, changes, member, shared, obs, checkpoint, scanDue, walkDue,
          run, moves, faults>>
google == <<file, changes, member, shared, moves>>

Files == 1..NFiles
Tasks == Scans \cup Discoveries
Idle == [pc |-> "idle"]
NoFile == 0
\* A new checkpoint: nothing listed yet.
Fresh == [start |-> 0, page |-> 0, done |-> FALSE, changes |-> 0]
Unseen == [active |-> FALSE, at |-> 0, recent |-> FALSE]

Init ==
  /\ file = [f \in Files |-> [at |-> 1, on |-> TRUE]]
  /\ changes = 1
  /\ member = TRUE /\ shared = {}
  /\ obs = [f \in Files |-> Unseen]
  /\ checkpoint = {}
  /\ scanDue = FALSE /\ walkDue = FALSE
  /\ run = [w \in Tasks |-> Idle]
  /\ moves = 0 /\ faults = 0

-----------------------------------------------------------------------------
(* Google.                                                                 *)

Move(kind) == kind \in Moves /\ moves < MaxMoves /\ moves' = moves + 1

\* A document is edited, trashed or restored.
FileChanges(f, on) ==
  /\ Move("file")
  /\ changes' = changes + 1
  /\ file' = [file EXCEPT ![f] = [at |-> changes + 1, on |-> on]]
  /\ UNCHANGED <<member, shared, obs, checkpoint, scanDue, walkDue, run, faults>>

\* The user leaves the drive, or joins it: no file changes.
Membership ==
  /\ Move("member")
  /\ member' = ~member
  /\ UNCHANGED <<file, changes, shared, obs, checkpoint, scanDue, walkDue, run, faults>>

Share(f) ==
  /\ Move("shared")
  /\ shared' = IF f \in shared THEN shared \ {f} ELSE shared \cup {f}
  /\ UNCHANGED <<file, changes, member, obs, checkpoint, scanDue, walkDue, run, faults>>

\* FOLDER_WALK_EXPIRY_SECONDS pass without an observation.  That is many
\* discoveries and walks: what they reach has been observed meanwhile.
Expires(f) ==
  /\ obs[f].recent /\ (member \/ f \notin shared \/ ~file[f].on)
  /\ obs' = [obs EXCEPT ![f].recent = FALSE]
  /\ UNCHANGED <<google, checkpoint, scanDue, walkDue, run, faults>>

Since(token) == {f \in Files : file[f].at > token}
\* The oldest change after a token: the feed is in order of the changes.
Oldest(F) == CHOOSE f \in F : \A g \in F : file[f].at <= file[g].at

-----------------------------------------------------------------------------
(* Observations.                                                           *)

Goes(w, r) == run' = [run EXCEPT ![w] = r]
Finish(w) == Goes(w, Idle)

\* observe_file: the observation is active again; the file moves to a later
\* version only.
Observed(f, at) ==
  [active |-> TRUE, at |-> IF at > obs[f].at THEN at ELSE obs[f].at, recent |-> TRUE]

\* observe_delete: only what the credential has observed is revoked.
Revoked(f) == [obs[f] EXCEPT !.active = FALSE]

-----------------------------------------------------------------------------
(* discover_shared_drives.                                                 *)

\* google_credential and list_shared_drives.
Discover(w) ==
  /\ run[w] = Idle
  /\ Goes(w, [pc |-> "shared", member |-> member])
  /\ UNCHANGED <<google, obs, checkpoint, scanDue, walkDue, faults>>

\* list_shared_with_me and group_folder_roots: member drives are scanned whole.
ListShared(w) ==
  /\ run[w].pc = "shared"
  /\ Goes(w, [pc |-> "revoke", member |-> run[w].member,
              roots |-> IF run[w].member THEN {} ELSE {f \in shared : file[f].on}])
  /\ UNCHANGED <<google, obs, checkpoint, scanDue, walkDue, faults>>

\* Access to files of a drive that can no longer be reached, or that recent
\* walks of the drive did not reach.
Departed(r) ==
  {f \in Files : obs[f].active /\ ~r.member /\ (r.roots = {} \/ ~obs[f].recent)}

Revoke(w) ==
  /\ run[w].pc = "revoke"
  /\ obs' = [f \in Files |-> IF f \in Departed(run[w]) THEN Revoked(f) ELSE obs[f]]
  /\ Goes(w, [run[w] EXCEPT !.pc = "forget"])
  /\ UNCHANGED <<google, checkpoint, scanDue, walkDue, faults>>

\* Mutant: the checkpoint of a drive that was left is kept.
ForgetNothing(w) ==
  /\ run[w].pc = "forget"
  /\ Goes(w, [run[w] EXCEPT !.pc = "spawn"])
  /\ UNCHANGED <<google, obs, checkpoint, scanDue, walkDue, faults>>

\* "Forget progress for drives no longer reached this way."
Forget(w) ==
  /\ run[w].pc = "forget"
  /\ checkpoint' = IF run[w].member THEN checkpoint ELSE {}
  /\ Goes(w, [run[w] EXCEPT !.pc = "spawn"])
  /\ UNCHANGED <<google, obs, scanDue, walkDue, faults>>

\* A scan of a member drive; else the shared files are observed at once and the
\* shared folders are walked.
SpawnScans(w) ==
  /\ run[w].pc = "spawn"
  /\ scanDue' = (scanDue \/ run[w].member)
  /\ walkDue' = (walkDue \/ run[w].roots \ Direct # {})
  /\ obs' = [f \in Files |-> IF f \in run[w].roots \cap Direct
                             THEN Observed(f, file[f].at) ELSE obs[f]]
  /\ Finish(w)
  /\ UNCHANGED <<google, checkpoint, faults>>

-----------------------------------------------------------------------------
(* walk_folder_batch.                                                      *)

StartWalk(w) ==
  /\ run[w] = Idle /\ walkDue
  /\ walkDue' = FALSE
  /\ Goes(w, [pc |-> "walk", files |-> [f \in {x \in shared \ Direct : file[x].on} |->
                                          file[f].at]])
  /\ UNCHANGED <<google, obs, checkpoint, scanDue, faults>>

ObserveWalked(w) ==
  /\ run[w].pc = "walk"
  /\ obs' = [f \in Files |-> IF f \in DOMAIN run[w].files
                             THEN Observed(f, run[w].files[f]) ELSE obs[f]]
  /\ Finish(w)
  /\ UNCHANGED <<google, checkpoint, scanDue, walkDue, faults>>

-----------------------------------------------------------------------------
(* scan_corpus.                                                            *)

\* ensure_checkpoint.
StartScan(w) ==
  /\ run[w] = Idle /\ scanDue
  /\ scanDue' = FALSE
  /\ checkpoint' = IF checkpoint = {} THEN {Fresh} ELSE checkpoint
  /\ Goes(w, [pc |-> "load", pages |-> 0])
  /\ UNCHANGED <<google, obs, walkDue, faults>>

\* load_checkpoint, at the head of the loop.  Without a row the task fails.
LoadCheckpoint(w) ==
  /\ run[w].pc = "load"
  /\ \/ /\ run[w].pages = MaxScanPages \/ checkpoint = {}
        /\ Finish(w)
     \/ \E c \in checkpoint :
          /\ run[w].pages < MaxScanPages
          /\ Goes(w, [pc |-> IF c.done THEN "changes" ELSE IF c.start = 0 THEN "token"
                             ELSE "list",
                      pages |-> run[w].pages + 1, from |-> c])
  /\ UNCHANGED <<google, obs, checkpoint, scanDue, walkDue, faults>>

\* Calls on behalf of someone who is no member fail, and with them the attempt.
NotMember(w) ==
  /\ run[w].pc \in {"token", "list", "changes"} /\ ~member
  /\ Finish(w)
  /\ UNCHANGED <<google, obs, checkpoint, scanDue, walkDue, faults>>

\* start_page_token.
FetchStart(w) ==
  /\ run[w].pc = "token" /\ member
  /\ Goes(w, [run[w] EXCEPT !.pc = "store", !.from.start = changes])
  /\ UNCHANGED <<google, obs, checkpoint, scanDue, walkDue, faults>>

\* UPDATE ... WHERE scope_id: whatever the row has become, if there is one.
StoreStart(w) ==
  /\ run[w].pc = "store"
  /\ checkpoint' = {[c EXCEPT !.start = run[w].from.start] : c \in checkpoint}
  /\ Goes(w, [run[w] EXCEPT !.pc = "list"])
  /\ UNCHANGED <<google, obs, scanDue, walkDue, faults>>

\* list_documents: the page's file, if it is an active document.
ListDocuments(w) ==
  /\ run[w].pc = "list" /\ member
  /\ LET f == run[w].from.page + 1 IN
     Goes(w, [pc |-> "observe", pages |-> run[w].pages, from |-> run[w].from,
              file |-> IF file[f].on THEN f ELSE NoFile, state |-> file[f],
              next |-> f, last |-> f = NFiles])
  /\ UNCHANGED <<google, obs, checkpoint, scanDue, walkDue, faults>>

\* list_changes: the next change, and the token behind it.
ListChanges(w) ==
  /\ run[w].pc = "changes" /\ member
  /\ LET F == Since(run[w].from.changes)
         f == Oldest(F)
         last == Cardinality(F) <= 1
     IN  Goes(w, [pc |-> "observe", pages |-> run[w].pages, from |-> run[w].from,
                  file |-> IF F = {} THEN NoFile ELSE f,
                  state |-> IF F = {} THEN file[1] ELSE file[f],
                  next |-> IF last THEN changes ELSE file[f].at,
                  last |-> last])
  /\ UNCHANGED <<google, obs, checkpoint, scanDue, walkDue, faults>>

\* enqueue_files, or classify_change with enqueue_file or enqueue_delete.
ObservePage(w) ==
  /\ run[w].pc = "observe"
  /\ LET r == run[w] IN
     obs' = IF r.file = NoFile THEN obs
            ELSE [obs EXCEPT ![r.file] = IF r.state.on THEN Observed(r.file, r.state.at)
                                         ELSE Revoked(r.file)]
  /\ Goes(w, [run[w] EXCEPT !.pc = "advance"])
  /\ UNCHANGED <<google, checkpoint, scanDue, walkDue, faults>>

\* Mutant: the change feed is not positioned when the listing ends.
AdvancedWithoutToken(c, r) ==
  IF r.from.done THEN [c EXCEPT !.changes = r.next]
  ELSE IF r.last THEN [c EXCEPT !.done = TRUE, !.page = 0] ELSE [c EXCEPT !.page = r.next]

\* The checkpoint a page leads to.
Advanced(c, r) ==
  IF r.from.done THEN [c EXCEPT !.changes = r.next]
  ELSE IF r.last
       THEN [c EXCEPT !.done = TRUE, !.page = 0, !.changes = r.from.start]
       ELSE [c EXCEPT !.page = r.next]

\* The end of the iteration: the checkpoint moves, whatever it has become
\* meanwhile, and the end of the feed ends the scan.
Advance(w) ==
  /\ run[w].pc = "advance"
  /\ checkpoint' = {Advanced(c, run[w]) : c \in checkpoint}
  /\ IF run[w].from.done /\ run[w].last THEN Finish(w)
     ELSE Goes(w, [pc |-> "load", pages |-> run[w].pages])
  /\ UNCHANGED <<google, obs, scanDue, walkDue, faults>>

\* An attempt ends anywhere; a retry is a task that waits again.
AttemptFails(w) ==
  /\ run[w] # Idle
  /\ (IF w \in Scans THEN "scan" ELSE "discovery") \in Faults
  /\ faults < MaxFaults /\ faults' = faults + 1
  /\ Finish(w)
  /\ UNCHANGED <<google, obs, checkpoint, scanDue, walkDue>>

-----------------------------------------------------------------------------

Environment ==
  \/ \E f \in Files, on \in BOOLEAN : FileChanges(f, on)
  \/ Membership
  \/ \E f \in Files : Share(f)

DiscoveryStep(w) == ListShared(w) \/ Revoke(w) \/ Forget(w) \/ SpawnScans(w)

ScanStep(w) ==
  \/ ObserveWalked(w) \/ LoadCheckpoint(w) \/ NotMember(w) \/ FetchStart(w)
  \/ StoreStart(w) \/ ListDocuments(w) \/ ListChanges(w) \/ ObservePage(w)
  \/ Advance(w)

Next ==
  \/ Environment
  \/ \E f \in Files : Expires(f)
  \/ \E w \in Discoveries : Discover(w) \/ DiscoveryStep(w)
  \/ \E w \in Scans : StartWalk(w) \/ StartScan(w) \/ ScanStep(w)
  \/ \E w \in Tasks : AttemptFails(w)

Spec == Init /\ [][Next]_vars

\* The scheduler ticks, the queue hands out tasks in order of their time, time
\* passes, and a handler that nothing stops goes on.
FairSpec ==
  /\ Spec
  /\ SF_vars(\E w \in Discoveries : Discover(w))
  /\ SF_vars(\E w \in Scans : StartScan(w))
  /\ SF_vars(\E w \in Scans : StartWalk(w))
  /\ \A f \in Files : WF_vars(Expires(f))
  /\ \A w \in Discoveries : WF_vars(DiscoveryStep(w))
  /\ \A w \in Scans : WF_vars(ScanStep(w))

-----------------------------------------------------------------------------
(* Properties.                                                             *)

\* One checkpoint at most; an active observation has a version, and a
\* completed checkpoint a token for the change feed.
TypeOK ==
  /\ checkpoint \subseteq [start : 0..changes, page : 0..(NFiles - 1), done : BOOLEAN,
                           changes : 0..changes]
  /\ Cardinality(checkpoint) <= 1
  /\ \A c \in checkpoint : c.done => c.changes > 0
  /\ \A f \in Files : obs[f].active => obs[f].at \in 1..file[f].at

\* Files the credential can see.
Visible == {f \in Files : file[f].on /\ (member \/ f \in shared)}

\* Once nothing changes any more, the credential observes every file it can see
\* at its last version and no file of a drive it left, however it came and went,
\* however pages, discoveries and walks interleaved, and whichever attempt of a
\* scan failed.
Settles ==
  <>[](\A f \in Files : /\ f \in Visible => obs[f].active /\ obs[f].at = file[f].at
                        /\ obs[f].active => member \/ f \in Visible)

\* discover_shared_drives: "Forget progress for drives no longer reached this
\* way so that returning to one starts from a full scan."
ReturnStartsFullScan == <>[](member => \A f \in Files : file[f].on => obs[f].active)
=============================================================================
