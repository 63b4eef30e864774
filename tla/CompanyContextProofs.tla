----------------------- MODULE CompanyContextProofs ------------------------
(* What is proved of the company context service.
   Of NoteIndex: its types, that the row of a note tells what is published of it,
   that a vector is always of the text it is stored with, and that a note somebody
   observes is not removed.
   Of SlackPacing: its types, that slots are an interval apart, and that a call
   waits out the Retry-After it was given. *)
EXTENDS NoteIndex, TLAPS

CONSTANTS Callers, Interval, RetryAfters, Attempts, MaxTime, MaxSlots
VARIABLES now, next, blocked, call, granted

(* The schedule of one method of Slack's Web API; its workers are the callers. *)
Pacing == INSTANCE SlackPacing WITH Workers <- Callers

(***************************************************************************)
(* The inductive invariant.                                                *)
(***************************************************************************)

(* An attempt works for a revision there has been, and on its content while the
   row is at that revision. *)
Fenced(r) ==
  r.pc \in {"vectors", "publish"} =>
    /\ r.revision <= note.revision
    /\ r.revision = note.revision => r.content = note.content

(* A vector found reusable is still there while the fence lets the attempt pass. *)
Reusable(r) ==
  r.pc = "publish" /\ r.reuse /\ Current(r.revision) => vec = r.content[1]

IndInv ==
  /\ TypeOK /\ RowTellsIndex /\ VectorIsOfText /\ ObservedIsKept
  /\ \A w \in Workers : Fenced(run[w]) /\ Reusable(run[w])

(***************************************************************************)
(* Records.                                                                *)
(***************************************************************************)

(* What an attempt knows at each place. *)
LEMMA RunFields ==
    ASSUME NEW r \in Running
    PROVE  /\ r.pc \in {"idle", "stage", "spawn", "vectors", "publish"}
           /\ r.pc = "stage" => r.by \in Credentials /\ r.content \in Contents
           /\ r.pc = "spawn" => r.by \in Credentials /\ r.revision \in Nat
           /\ r.pc = "vectors" => r.revision \in Nat /\ r.content \in Contents
           /\ r.pc = "publish" => /\ r.revision \in Nat /\ r.content \in Contents
                                  /\ r.reuse \in BOOLEAN
BY DEF Running, Idle

(* The records the steps of an attempt make. *)
LEMMA RunRecords ==
    ASSUME NEW c \in Contents
    PROVE  /\ \A k \in Credentials : [pc |-> "stage", by |-> k, content |-> c] \in Running
           /\ \A n \in Nat : [pc |-> "vectors", revision |-> n, content |-> c] \in Running
           /\ \A n \in Nat, b \in BOOLEAN :
                [pc |-> "publish", revision |-> n, content |-> c, reuse |-> b] \in Running
BY DEF Running

LEMMA SpawnRecord ==
    ASSUME NEW k \in Credentials, NEW n \in Nat
    PROVE  [pc |-> "spawn", by |-> k, revision |-> n] \in Running
BY DEF Running

LEMMA IdleRuns == Idle \in Running /\ Idle.pc = "idle"
BY DEF Running, Idle

(* The text of a content. *)
LEMMA TextOf == ASSUME NEW c \in Contents PROVE c[1] \in Texts /\ <<Title, c[2]>> \in Contents
BY NoteAssumption DEF Contents

(* Where a reconciliation is, and what it knows. *)
LEMMA SweepFields ==
    ASSUME NEW s \in Sweeping
    PROVE  /\ s.pc = "deactivate" => s.keep \in SUBSET Credentials
           /\ s.pc = "lock" => s.drop \in SUBSET Credentials /\ s.candidate \in BOOLEAN
BY DEF Sweeping, Idle

LEMMA SweepRecords ==
    ASSUME NEW S \in SUBSET Credentials, NEW b \in BOOLEAN
    PROVE  /\ Idle \in Sweeping
           /\ [pc |-> "deactivate", keep |-> S] \in Sweeping
           /\ [pc |-> "lock", drop |-> S, candidate |-> b] \in Sweeping
BY DEF Sweeping, Idle

(***************************************************************************)
(* The steps.                                                              *)
(***************************************************************************)

LEMMA InitIndInv == Init => IndInv
<1> SUFFICES ASSUME Init PROVE IndInv OBVIOUS
<1>1. note \in [revision : Nat, content : Contents \cup {NoContent}, status : Statuses]
      /\ note.content = NoContent /\ note.status = "none"
  BY DEF Init, NoNote, Statuses
<1>2. run \in [Workers -> Running] /\ sweep \in Sweeping /\ \A w \in Workers : run[w].pc = "idle"
  BY IdleRuns DEF Init, Sweeping
<1>3. TypeOK BY <1>1, <1>2, NoteAssumption DEF Init, TypeOK
<1>4. RowTellsIndex /\ VectorIsOfText /\ ObservedIsKept
  BY <1>1 DEF Init, RowTellsIndex, VectorIsOfText, ObservedIsKept
<1>5. QED BY <1>2, <1>3, <1>4 DEF IndInv, Fenced, Reusable

(* A step that touches neither the row nor the index keeps what is known of them,
   if the attempt it moves is fenced afterwards. *)
LEMMA OutsideTheIndex ==
    ASSUME IndInv, TypeOK', UNCHANGED <<note, docs, vec, obs>>,
           \A w \in Workers : run'[w] = run[w] \/ (Fenced(run'[w]) /\ Reusable(run'[w]))
    PROVE  IndInv'
<1>1. RowTellsIndex' /\ VectorIsOfText' /\ ObservedIsKept'
  BY DEF IndInv, RowTellsIndex, VectorIsOfText, ObservedIsKept
<1>2. \A w \in Workers : Fenced(run[w])' /\ Reusable(run[w])'
  BY DEF IndInv, Fenced, Reusable, Current
<1>3. QED BY <1>1, <1>2 DEF IndInv

(* Granola, the Console and the syncs. *)
LEMMA OutsideStep ==
    ASSUME IndInv, Environment \/ \E k \in Credentials : Sync(k)
    PROVE  IndInv'
<1>1. TypeOK' /\ UNCHANGED <<note, docs, vec, obs, run>>
  <2>1. CASE \E c \in Contents : MeetingChanges(c)
    BY <2>1 DEF MeetingChanges, Move, IndInv, TypeOK, index, queue
  <2>2. CASE \E k \in Credentials : CredentialChanges(k)
    BY <2>2 DEF CredentialChanges, Move, IndInv, TypeOK, index, queue
  <2>3. CASE \E k \in Credentials : SyncPast(k)
    BY <2>3 DEF SyncPast, Move, IndInv, TypeOK, index, queue, granola
  <2>4. CASE \E k \in Credentials : Sync(k)
    BY <2>4 DEF Sync, IndInv, TypeOK, index, queue, granola
  <2>5. QED BY <2>1, <2>2, <2>3, <2>4 DEF Environment
<1>2. QED BY <1>1, OutsideTheIndex

(* The start of a fetch. *)
LEMMA StartFetchStep ==
    ASSUME IndInv, NEW w \in Workers, NEW k \in Credentials, StartFetch(w, k)
    PROVE  IndInv'
<1>1. meeting \in Contents /\ <<Title, meeting[2]>> \in Contents
  BY TextOf DEF IndInv, TypeOK
<1>2. CASE Fetch(w, k)
  <2>1. [pc |-> "stage", by |-> k, content |-> meeting] \in Running BY <1>1, RunRecords
  <2>2. TypeOK' BY <1>2, <2>1 DEF Fetch, Goes, IndInv, TypeOK, granola, index
  <2>3. \A v \in Workers : run'[v] = run[v] \/ (Fenced(run'[v]) /\ Reusable(run'[v]))
    BY <1>2 DEF Fetch, Goes, IndInv, TypeOK, Fenced, Reusable
  <2>4. QED BY <1>2, <2>2, <2>3, OutsideTheIndex DEF Fetch, index
<1>3. CASE FetchListed(w, k)
  <2>1. [pc |-> "stage", by |-> k, content |-> <<Title, meeting[2]>>] \in Running
    BY <1>1, RunRecords
  <2>2. TypeOK' BY <1>3, <2>1 DEF FetchListed, Move, Goes, IndInv, TypeOK, granola, index
  <2>3. \A v \in Workers : run'[v] = run[v] \/ (Fenced(run'[v]) /\ Reusable(run'[v]))
    BY <1>3 DEF FetchListed, Goes, IndInv, TypeOK, Fenced, Reusable
  <2>4. QED BY <1>3, <2>2, <2>3, OutsideTheIndex DEF FetchListed, index
<1>4. CASE FetchDead(w, k)
  <2>1. TypeOK' BY <1>4 DEF FetchDead, IndInv, TypeOK, granola, index
  <2>2. QED BY <1>4, <2>1, OutsideTheIndex DEF FetchDead, index
<1>5. QED BY <1>2, <1>3, <1>4 DEF StartFetch

(* stage_note.  A note that is staged has content, so a row that had none, a
   cleared one among them, gets a new revision: attempts for earlier ones are
   fenced off. *)
LEMMA StageNoteStep ==
    ASSUME IndInv, NEW w \in Workers, StageNote(w)
    PROVE  IndInv'
<1>1. /\ run[w] \in Running /\ run[w].pc = "stage"
      /\ run[w].by \in Credentials /\ run[w].content \in Contents
  BY RunFields DEF IndInv, TypeOK, StageNote
<1>2. /\ note \in [revision : Nat, content : Contents \cup {NoContent}, status : Statuses]
      /\ (note.content = NoContent) <=> note.status \in {"none", "deleted"}
  BY DEF IndInv, TypeOK
<1>3. note' = Staged(run[w].content) BY DEF StageNote
<1>4. /\ note' \in [revision : Nat, content : Contents \cup {NoContent}, status : Statuses]
      /\ note'.content = run[w].content /\ note'.status \notin {"none", "deleted"}
      /\ \/ note' = note
         \/ note'.revision = note.revision + 1 /\ note'.status = "pending"
  BY <1>1, <1>2, <1>3, NoteAssumption DEF Staged, Statuses
<1>5. \E r \in Running : /\ run' = [run EXCEPT ![w] = r]
                        /\ r.pc \notin {"vectors", "publish"}
  <2>1. CASE note'.status = "pending"
    <3>1. [pc |-> "spawn", by |-> run[w].by, revision |-> note'.revision] \in Running
      BY <1>1, <1>4, SpawnRecord
    <3>2. QED BY <2>1, <3>1 DEF StageNote, Goes
  <2>2. CASE note'.status # "pending" BY <2>2, IdleRuns DEF StageNote, Goes
  <2>3. QED BY <2>1, <2>2
<1>6. TypeOK'
  BY <1>1, <1>4, <1>5, NoteAssumption
  DEF IndInv, TypeOK, StageNote, granola, index, queue
<1>7. RowTellsIndex' /\ VectorIsOfText' /\ ObservedIsKept'
  BY <1>4 DEF IndInv, RowTellsIndex, VectorIsOfText, ObservedIsKept, StageNote, index
<1>8. ASSUME NEW v \in Workers PROVE Fenced(run[v])' /\ Reusable(run[v])'
  <2>1. CASE run'[v] = run[v]
    <3>1. run[v].pc \in {"vectors", "publish"} => run[v].revision \in Nat
      BY RunFields DEF IndInv, TypeOK
    <3>2. vec' = vec BY DEF StageNote, index
    <3>3. QED BY <1>2, <1>4, <2>1, <3>1, <3>2 DEF IndInv, Fenced, Reusable, Current
  <2>2. CASE run'[v].pc \notin {"vectors", "publish"}
    BY <2>2 DEF Fenced, Reusable
  <2>3. QED BY <1>5, <2>1, <2>2 DEF IndInv, TypeOK
<1>9. QED BY <1>6, <1>7, <1>8 DEF IndInv

(* Spawning the embed task. *)
LEMMA SpawnEmbedStep ==
    ASSUME IndInv, NEW w \in Workers, SpawnEmbed(w)
    PROVE  IndInv'
<1>1. run[w].pc = "spawn" /\ run[w].revision \in Nat
  BY RunFields DEF IndInv, TypeOK, SpawnEmbed
<1>2. TypeOK'
  BY <1>1, IdleRuns DEF SpawnEmbed, Finish, Goes, IndInv, TypeOK, granola, index
<1>3. \A v \in Workers : run'[v] = run[v] \/ (Fenced(run'[v]) /\ Reusable(run'[v]))
  BY IdleRuns DEF SpawnEmbed, Finish, Goes, IndInv, TypeOK, Fenced, Reusable
<1>4. QED BY <1>2, <1>3, OutsideTheIndex DEF SpawnEmbed, index

(* The start of an embed task reads the row at its revision, or ends. *)
LEMMA StartEmbedStep ==
    ASSUME IndInv, NEW w \in Workers, NEW r \in embeds, StartEmbed(w, r)
    PROVE  IndInv'
<1>1. r \in Nat /\ note.revision \in Nat BY DEF IndInv, TypeOK
<1>2. Current(r) => note.content \in Contents
  BY DEF Current, IndInv, TypeOK
<1>3. \E q \in Running : /\ run' = [run EXCEPT ![w] = q]
                        /\ Fenced(q) /\ Reusable(q)
  <2>1. CASE Current(r)
    <3>1. [pc |-> "vectors", revision |-> r, content |-> note.content] \in Running
      BY <1>1, <1>2, <2>1, RunRecords
    <3>2. run' = [run EXCEPT ![w] = [pc |-> "vectors", revision |-> r,
                                     content |-> note.content]]
      BY <2>1 DEF StartEmbed, Goes
    <3>3. Fenced([pc |-> "vectors", revision |-> r, content |-> note.content])
      BY <1>1, <2>1 DEF Fenced, Current
    <3>4. Reusable([pc |-> "vectors", revision |-> r, content |-> note.content])
      BY DEF Reusable
    <3>5. QED BY <3>1, <3>2, <3>3, <3>4
  <2>2. CASE ~Current(r) BY <2>2, IdleRuns DEF StartEmbed, Goes, Fenced, Reusable
  <2>3. QED BY <2>1, <2>2
<1>4. TypeOK' BY <1>3 DEF StartEmbed, IndInv, TypeOK, granola, index
<1>5. \A v \in Workers : run'[v] = run[v] \/ (Fenced(run'[v]) /\ Reusable(run'[v]))
  BY <1>3 DEF IndInv, TypeOK
<1>6. QED BY <1>4, <1>5, OutsideTheIndex DEF StartEmbed, index

(* A vector is reusable because it is of the text. *)
LEMMA ReadVectorsStep ==
    ASSUME IndInv, NEW w \in Workers, ReadVectors(w)
    PROVE  IndInv'
<1> DEFINE q == [pc |-> "publish", revision |-> run[w].revision, content |-> run[w].content,
                 reuse |-> vec = run[w].content[1]]
<1>1. /\ run[w].pc = "vectors" /\ run[w].revision \in Nat /\ run[w].content \in Contents
      /\ run' = [run EXCEPT ![w] = q]
  BY RunFields DEF IndInv, TypeOK, ReadVectors, Goes
<1>2. q \in Running BY <1>1, RunRecords
<1>3. Fenced(q) /\ Reusable(q) BY <1>1 DEF IndInv, Fenced, Reusable
<1>4. TypeOK' BY <1>1, <1>2 DEF ReadVectors, IndInv, TypeOK, granola, index, queue
<1>5. \A v \in Workers : run'[v] = run[v] \/ (Fenced(run'[v]) /\ Reusable(run'[v]))
  BY <1>1, <1>3 DEF IndInv, TypeOK
<1>6. QED BY <1>4, <1>5, OutsideTheIndex DEF ReadVectors, index

(* A change of status of the current revision: what is fenced stays fenced, and
   nothing passes the fence any more. *)
LEMMA StatusStep ==
    ASSUME IndInv, NEW w \in Workers, NEW s \in {"completed", "rejected"},
           Current(run[w].revision), note' = [note EXCEPT !.status = s],
           run' = [run EXCEPT ![w] = Idle]
    PROVE  /\ note' \in [revision : Nat, content : Contents \cup {NoContent}, status : Statuses]
           /\ note'.content = note.content /\ note'.content # NoContent /\ note'.status = s
           /\ run' \in [Workers -> Running]
           /\ \A v \in Workers : Fenced(run[v])' /\ Reusable(run[v])'
<1>1. /\ note \in [revision : Nat, content : Contents \cup {NoContent}, status : Statuses]
      /\ note.content # NoContent
  BY DEF IndInv, TypeOK, Current
<1>2. /\ note' \in [revision : Nat, content : Contents \cup {NoContent}, status : Statuses]
      /\ note'.content = note.content /\ note'.revision = note.revision /\ note'.status = s
  BY <1>1 DEF Statuses
<1>3. run' \in [Workers -> Running] BY IdleRuns DEF IndInv, TypeOK
<1>4. \A v \in Workers : Fenced(run[v])' /\ Reusable(run[v])'
  BY <1>2, IdleRuns DEF IndInv, TypeOK, Fenced, Reusable, Current
<1>5. QED BY <1>1, <1>2, <1>3, <1>4

(* record_embedding_failure. *)
LEMMA RejectStep ==
    ASSUME IndInv, NEW w \in Workers, Reject(w)
    PROVE  IndInv'
<1>1. run' = [run EXCEPT ![w] = Idle] BY DEF Reject, Finish, Goes
<1>2. CASE Current(run[w].revision)
  <2>1. note' = [note EXCEPT !.status = "rejected"] BY <1>2 DEF Reject
  <2>2. /\ note' \in [revision : Nat, content : Contents \cup {NoContent}, status : Statuses]
        /\ note'.content # NoContent /\ note'.status = "rejected"
        /\ run' \in [Workers -> Running]
        /\ \A v \in Workers : Fenced(run[v])' /\ Reusable(run[v])'
    BY <1>1, <1>2, <2>1, StatusStep
  <2>3. TypeOK' BY <2>2 DEF Reject, IndInv, TypeOK, granola, index, queue
  <2>4. RowTellsIndex' /\ VectorIsOfText' /\ ObservedIsKept'
    BY <2>2 DEF Reject, IndInv, RowTellsIndex, VectorIsOfText, ObservedIsKept, index
  <2>5. QED BY <2>2, <2>3, <2>4 DEF IndInv
<1>3. CASE ~Current(run[w].revision)
  <2>1. note' = note BY <1>3 DEF Reject
  <2>2. TypeOK' BY <1>1, <2>1, IdleRuns DEF Reject, IndInv, TypeOK, granola, index, queue
  <2>3. \A v \in Workers : run'[v] = run[v] \/ (Fenced(run'[v]) /\ Reusable(run'[v]))
    BY <1>1, IdleRuns DEF IndInv, TypeOK, Fenced, Reusable
  <2>4. QED BY <2>1, <2>2, <2>3, OutsideTheIndex DEF Reject, index
<1>4. QED BY <1>2, <1>3

(* The fence of embed_note: what passes it has the row's content, and its vector
   if it found one to reuse. *)
LEMMA PublishStep ==
    ASSUME IndInv, NEW w \in Workers, Publish(w)
    PROVE  IndInv'
<1>1. run' = [run EXCEPT ![w] = Idle] BY DEF Publish, Finish, Goes
<1>2. /\ run[w].pc = "publish" /\ run[w].content \in Contents /\ run[w].reuse \in BOOLEAN
      /\ run[w].content[1] \in Texts
  BY RunFields, TextOf DEF IndInv, TypeOK, Publish
<1>3. CASE Current(run[w].revision)
  <2>1. /\ docs' = run[w].content
        /\ vec' = IF run[w].reuse THEN vec ELSE run[w].content[1]
        /\ note' = [note EXCEPT !.status = "completed"]
    BY <1>3 DEF Publish
  <2>2. /\ note' \in [revision : Nat, content : Contents \cup {NoContent}, status : Statuses]
        /\ note'.content = note.content
        /\ note'.content # NoContent /\ note'.status = "completed"
        /\ run' \in [Workers -> Running]
        /\ \A v \in Workers : Fenced(run[v])' /\ Reusable(run[v])'
    BY <1>1, <1>3, <2>1, StatusStep
  <2>3. run[w].content = note.content /\ vec' = run[w].content[1]
    BY <1>2, <1>3, <2>1 DEF IndInv, Fenced, Reusable, Current
  <2>4. TypeOK' BY <1>2, <2>1, <2>2, <2>3 DEF Publish, IndInv, TypeOK, granola, queue
  <2>5. RowTellsIndex' /\ VectorIsOfText' /\ ObservedIsKept'
    BY <1>2, <2>1, <2>2, <2>3, NoteAssumption
    DEF RowTellsIndex, VectorIsOfText, ObservedIsKept
  <2>6. QED BY <2>2, <2>4, <2>5 DEF IndInv
<1>4. CASE ~Current(run[w].revision)
  <2>1. UNCHANGED <<note, docs, vec, obs>> BY <1>4 DEF Publish, index
  <2>2. TypeOK' BY <1>1, <2>1, IdleRuns DEF Publish, IndInv, TypeOK, granola, queue
  <2>3. \A v \in Workers : run'[v] = run[v] \/ (Fenced(run'[v]) /\ Reusable(run'[v]))
    BY <1>1, IdleRuns DEF IndInv, TypeOK, Fenced, Reusable
  <2>4. QED BY <2>1, <2>2, <2>3, OutsideTheIndex
<1>5. QED BY <1>3, <1>4

(* The reconciliation up to its lock, or its failure. *)
LEMMA SweepStep ==
    ASSUME IndInv, StartSweep \/ FindCandidate \/ SweepFails
    PROVE  IndInv'
<1>1. sweep' \in Sweeping
  <2>1. CASE StartSweep
    BY <2>1, SweepRecords DEF StartSweep, IndInv, TypeOK
  <2>2. CASE FindCandidate
    <3> DEFINE drop == obs \ sweep.keep
               candidate == note.status \notin {"none", "deleted"} /\ obs \subseteq drop
    <3>1. drop \in SUBSET Credentials /\ candidate \in BOOLEAN BY DEF IndInv, TypeOK
    <3>2. sweep' = [pc |-> "lock", drop |-> drop, candidate |-> candidate]
      BY <2>2 DEF FindCandidate
    <3>3. QED BY <3>1, <3>2, SweepRecords
  <2>3. CASE SweepFails BY <2>3 DEF SweepFails, Sweeping
  <2>4. QED BY <2>1, <2>2, <2>3
<1>2. TypeOK' /\ UNCHANGED <<note, docs, vec, obs, run>>
  <2>1. /\ UNCHANGED <<granola, window, obs, note, index, queue, run, moves>>
        /\ faults' \in Nat
    BY DEF StartSweep, FindCandidate, SweepFails, Fault, IndInv, TypeOK
  <2>2. QED BY <1>1, <2>1 DEF IndInv, TypeOK, granola, index, queue
<1>3. QED BY <1>2, OutsideTheIndex

(* remove_unobserved_notes under the lock.  A row that is cleared has a new
   revision. *)
LEMMA RemoveNoteStep ==
    ASSUME IndInv, RemoveNote
    PROVE  IndInv'
<1>1. sweep' \in Sweeping /\ obs' \subseteq Credentials /\ obs' \subseteq obs
  BY DEF RemoveNote, IndInv, TypeOK, Sweeping
<1>2. note \in [revision : Nat, content : Contents \cup {NoContent}, status : Statuses]
  BY DEF IndInv, TypeOK
<1>3. CASE sweep.candidate /\ note.status # "deleted" /\ obs' = {}
  <2>1. note' = Cleared /\ docs' = NoContent /\ vec' = NoContent
    BY <1>3 DEF RemoveNote
  <2>2. /\ note' \in [revision : Nat, content : Contents \cup {NoContent}, status : Statuses]
        /\ note'.revision = note.revision + 1
        /\ note'.content = NoContent /\ note'.status = "deleted"
    BY <1>2, <2>1 DEF Cleared, Statuses
  <2>3. TypeOK' BY <1>1, <2>1, <2>2 DEF RemoveNote, IndInv, TypeOK, granola, queue
  <2>4. RowTellsIndex' /\ VectorIsOfText' /\ ObservedIsKept'
    BY <1>3, <2>1, <2>2 DEF RowTellsIndex, VectorIsOfText, ObservedIsKept
  <2>5. ASSUME NEW v \in Workers PROVE Fenced(run[v])' /\ Reusable(run[v])'
    <3>1. run[v].pc \in {"vectors", "publish"} => run[v].revision \in Nat
      BY RunFields DEF IndInv, TypeOK
    <3>2. run' = run BY DEF RemoveNote
    <3>3. QED BY <1>2, <2>2, <3>1, <3>2 DEF IndInv, Fenced, Reusable, Current
  <2>6. QED BY <2>3, <2>4, <2>5 DEF IndInv
<1>4. CASE ~(sweep.candidate /\ note.status # "deleted" /\ obs' = {})
  <2>1. UNCHANGED <<note, docs, vec, run>> BY <1>4 DEF RemoveNote, index
  <2>2. TypeOK' BY <1>1, <2>1 DEF RemoveNote, IndInv, TypeOK, granola, queue
  <2>3. RowTellsIndex' /\ VectorIsOfText' /\ ObservedIsKept'
    BY <1>1, <2>1 DEF IndInv, RowTellsIndex, VectorIsOfText, ObservedIsKept
  <2>4. \A v \in Workers : Fenced(run[v])' /\ Reusable(run[v])'
    BY <2>1 DEF IndInv, Fenced, Reusable, Current
  <2>5. QED BY <2>2, <2>3, <2>4 DEF IndInv
<1>5. QED BY <1>3, <1>4

(* A failed attempt, or a lost lease: the task waits again. *)
LEMMA FailureStep ==
    ASSUME IndInv, NEW w \in Workers, AttemptFails(w) \/ LeaseExpires(w)
    PROVE  IndInv'
<1>1. run[w] \in Running /\ run[w] # Idle BY DEF IndInv, TypeOK, AttemptFails, LeaseExpires
<1>2. run[w].pc # "idle" BY <1>1 DEF Running, Idle
<1>3. fetches' \subseteq Credentials /\ embeds' \subseteq Nat
  <2>1. Again(w) BY DEF AttemptFails, LeaseExpires
  <2>2. CASE run[w].pc \in {"stage", "spawn"}
    <3>1. run[w].by \in Credentials BY <1>1, <2>2, RunFields
    <3>2. fetches' = fetches \cup {run[w].by} /\ embeds' = embeds BY <2>1, <2>2 DEF Again
    <3>3. QED BY <3>1, <3>2 DEF IndInv, TypeOK
  <2>3. CASE run[w].pc \in {"vectors", "publish"}
    <3>1. run[w].revision \in Nat BY <1>1, <2>3, RunFields
    <3>2. embeds' = embeds \cup {run[w].revision} /\ fetches' = fetches
      BY <2>1, <2>3 DEF Again
    <3>3. QED BY <3>1, <3>2 DEF IndInv, TypeOK
  <2>4. QED BY <1>1, <1>2, <2>2, <2>3, RunFields
<1>4. run' = run \/ run' = [run EXCEPT ![w] = Idle]
  BY DEF AttemptFails, LeaseExpires, Finish, Goes
<1>5. TypeOK'
  <2>1. /\ UNCHANGED <<granola, window, obs, note, index, spawned, sweep, moves>>
        /\ faults' \in Nat
    BY DEF AttemptFails, LeaseExpires, Fault, IndInv, TypeOK
  <2>2. run' \in [Workers -> Running] BY <1>4, IdleRuns DEF IndInv, TypeOK
  <2>3. QED BY <1>3, <2>1, <2>2 DEF IndInv, TypeOK, granola, index
<1>6. \A v \in Workers : run'[v] = run[v] \/ (Fenced(run'[v]) /\ Reusable(run'[v]))
  BY <1>4, IdleRuns DEF IndInv, TypeOK, Fenced, Reusable
<1>7. QED BY <1>5, <1>6, OutsideTheIndex DEF AttemptFails, LeaseExpires, index

LEMMA NextIndInv == IndInv /\ [Next]_vars => IndInv'
<1> SUFFICES ASSUME IndInv, [Next]_vars PROVE IndInv' OBVIOUS
<1>1. CASE UNCHANGED vars
  <2>1. TypeOK' /\ UNCHANGED <<note, docs, vec, obs, run>>
    BY <1>1 DEF vars, IndInv, TypeOK
  <2>2. QED BY <2>1, OutsideTheIndex
<1>2. CASE Environment \/ \E k \in Credentials : Sync(k) BY <1>2, OutsideStep
<1>3. CASE \E w \in Workers, k \in Credentials : StartFetch(w, k) BY <1>3, StartFetchStep
<1>4. CASE \E w \in Workers : \E r \in embeds : StartEmbed(w, r) BY <1>4, StartEmbedStep
<1>5. CASE \E w \in Workers : Step(w)
  BY <1>5, StageNoteStep, SpawnEmbedStep, ReadVectorsStep, RejectStep, PublishStep DEF Step
<1>6. CASE \E w \in Workers : AttemptFails(w) \/ LeaseExpires(w) BY <1>6, FailureStep
<1>7. CASE StartSweep \/ Sweep \/ SweepFails
  BY <1>7, SweepStep, RemoveNoteStep DEF Sweep
<1>8. QED BY <1>1, <1>2, <1>3, <1>4, <1>5, <1>6, <1>7 DEF Next

LEMMA NoteInvariant == Spec => []IndInv
BY InitIndInv, NextIndInv, PTL DEF Spec

(***************************************************************************)
(* The theorems.                                                           *)
(***************************************************************************)

(* The variables have their types, and a cleared row has no content. *)
THEOREM NoteTypes == Spec => []TypeOK
<1>1. IndInv => TypeOK BY DEF IndInv
<1>2. QED BY <1>1, NoteInvariant, PTL

(* A note whose row says completed is published exactly as it is staged, and
   nothing is left of a deleted one, for any number of credentials, attempts,
   failures and lost leases (embed_note, remove_unobserved_notes). *)
THEOREM RowIsTrue == Spec => []RowTellsIndex
<1>1. IndInv => RowTellsIndex BY DEF IndInv
<1>2. QED BY <1>1, NoteInvariant, PTL

(* The vector of a published note is of its own text, reused or not (embed_note). *)
THEOREM VectorsMatch == Spec => []VectorIsOfText
<1>1. IndInv => VectorIsOfText BY DEF IndInv
<1>2. QED BY <1>1, NoteInvariant, PTL

(* A reconciliation removes no note that a fetch has meanwhile observed
   (remove_unobserved_notes). *)
THEOREM ObservedNotesStay == Spec => []ObservedIsKept
<1>1. IndInv => ObservedIsKept BY DEF IndInv
<1>2. QED BY <1>1, NoteInvariant, PTL

-----------------------------------------------------------------------------
(* SlackPacing.                                                            *)

(***************************************************************************)
(* The inductive invariant.                                                *)
(***************************************************************************)

(* The schedule is past every slot it granted. *)
ScheduleIsAhead == \A s \in granted : s + Interval <= next

(* A call about to reserve is held back by the block; one that has yet to report
   a rate limit will block for no less than it was asked to wait. *)
Held(c) ==
  /\ c.pc = "reserve" => c.quiet <= blocked
  /\ c.pc = "limited" => c.quiet <= now + c.after
  /\ c.pc = "wait" => c.slot >= c.quiet

(* The two halves of SlotsAreSpaced, and where the slots of waiting calls are from. *)
GrantedApart == \A s, t \in granted : s < t => s + Interval <= t
WaitingGranted == \A w \in Callers : call[w].pc = "wait" => call[w].slot \in granted
WaitingApart ==
  \A v, w \in Callers :
    v # w /\ call[v].pc = "wait" /\ call[w].pc = "wait" => call[v].slot # call[w].slot

PacingInv ==
  /\ Pacing!PacingAssumption /\ Pacing!TypeOK
  /\ ScheduleIsAhead /\ GrantedApart /\ WaitingGranted /\ WaitingApart
  /\ \A w \in Callers : Held(call[w])

(***************************************************************************)
(* Records.                                                                *)
(***************************************************************************)

(* What a call knows at each place. *)
LEMMA CallFields ==
    ASSUME NEW c \in Pacing!Calls
    PROVE  /\ c.pc \in {"idle", "answered", "reserve", "wait", "limited"}
           /\ c.pc = "reserve" => c.tries \in 0..(Attempts - 1) /\ c.quiet \in Nat
           /\ c.pc = "wait" => c.tries \in 1..Attempts /\ c.slot \in Nat /\ c.quiet \in Nat
           /\ c.pc = "limited" => /\ c.tries \in 1..Attempts
                                  /\ c.after \in RetryAfters /\ c.quiet \in Nat
BY DEF Pacing!Calls, Pacing!Idle

(* The records the steps of a call make. *)
LEMMA CallRecords ==
    ASSUME NEW q \in Nat
    PROVE  /\ Pacing!Idle \in Pacing!Calls /\ Pacing!Idle.pc = "idle"
           /\ [pc |-> "answered"] \in Pacing!Calls
           /\ \A n \in 0..(Attempts - 1) : Pacing!Reserving(n, q) \in Pacing!Calls
           /\ \A n \in 1..Attempts, s \in Nat :
                [pc |-> "wait", tries |-> n, slot |-> s, quiet |-> q] \in Pacing!Calls
           /\ \A n \in 1..Attempts, a \in RetryAfters :
                [pc |-> "limited", tries |-> n, after |-> a, quiet |-> q] \in Pacing!Calls
BY DEF Pacing!Calls, Pacing!Idle, Pacing!Reserving

(* The slot granted is not past, taken or blocked. *)
LEMMA GrantIsLatest ==
    ASSUME Pacing!TypeOK
    PROVE  Pacing!Grant \in Nat /\ Pacing!Grant >= now /\ Pacing!Grant >= next /\ Pacing!Grant >= blocked
BY DEF Pacing!TypeOK, Pacing!Grant, Pacing!Later

(* A block is never shortened and covers the Retry-After it is made for. *)
LEMMA BlockGrows ==
    ASSUME Pacing!TypeOK, NEW a \in Nat
    PROVE  Pacing!Block(a) \in Nat /\ Pacing!Block(a) >= blocked /\ Pacing!Block(a) >= now + a
BY DEF Pacing!TypeOK, Pacing!Block, Pacing!Later

(* A step of one call leaves the others as they were. *)
LEMMA OnlyOneMoves ==
    ASSUME Pacing!TypeOK, NEW w \in Callers, NEW c \in Pacing!Calls, Pacing!Goes(w, c)
    PROVE  /\ call' \in [Callers -> Pacing!Calls]
           /\ call'[w] = c
           /\ \A v \in Callers \ {w} : call'[v] = call[v]
BY DEF Pacing!TypeOK, Pacing!Goes

(***************************************************************************)
(* The steps.                                                              *)
(***************************************************************************)

LEMMA PacingInit == Pacing!PacingAssumption /\ Pacing!Init => PacingInv
BY CallRecords
   DEF Pacing!PacingAssumption, Pacing!Init, PacingInv, Pacing!TypeOK, ScheduleIsAhead,
       GrantedApart, WaitingGranted, WaitingApart, Held, Pacing!Idle

(* Calls that wait keep their slots when a call moves that does not wait after. *)
LEMMA WaitersStay ==
    ASSUME WaitingGranted, WaitingApart, NEW w \in Callers, granted' = granted,
           call'[w].pc # "wait", \A v \in Callers \ {w} : call'[v] = call[v]
    PROVE  WaitingGranted' /\ WaitingApart'
<1>1. \A v \in Callers : call'[v].pc = "wait" => v # w /\ call'[v] = call[v]
  OBVIOUS
<1> QED BY <1>1 DEF WaitingGranted, WaitingApart

(* A step that moves one call, leaves the schedule alone and puts the call in a
   place that is held and is not the wait for a slot preserves the invariant. *)
LEMMA CallMoves ==
    ASSUME PacingInv, NEW w \in Callers, NEW c \in Pacing!Calls, Pacing!Goes(w, c),
           UNCHANGED <<now, next, blocked, granted>>, Held(c), c.pc # "wait"
    PROVE  PacingInv'
<1>1. /\ Pacing!TypeOK /\ ScheduleIsAhead /\ GrantedApart /\ WaitingGranted /\ WaitingApart
      /\ \A v \in Callers : Held(call[v])
  BY DEF PacingInv
<1>2. /\ call' \in [Callers -> Pacing!Calls] /\ call'[w] = c
      /\ \A v \in Callers \ {w} : call'[v] = call[v]
  BY <1>1, OnlyOneMoves
<1>3. Pacing!TypeOK'
  BY <1>1, <1>2 DEF Pacing!TypeOK
<1>4. ScheduleIsAhead' /\ GrantedApart' /\ WaitingGranted' /\ WaitingApart'
  <2>1. ScheduleIsAhead' /\ GrantedApart'
    BY <1>1 DEF ScheduleIsAhead, GrantedApart
  <2>2. WaitingGranted' /\ WaitingApart'
    BY <1>1, <1>2, WaitersStay
  <2> QED BY <2>1, <2>2
<1>5. ASSUME NEW v \in Callers PROVE Held(call[v])'
  <2>1. CASE v = w
    BY <2>1, <1>2 DEF Held
  <2>2. CASE v # w
    <3>1. call'[v] = call[v]
      BY <2>2, <1>2
    <3> QED BY <3>1, <1>1 DEF Held
  <2> QED BY <2>1, <2>2
<1> QED BY <1>3, <1>4, <1>5 DEF PacingInv

LEMMA PacingTick == ASSUME PacingInv, Pacing!Tick PROVE PacingInv'
<1>1. Pacing!TypeOK' /\ ScheduleIsAhead' /\ GrantedApart' /\ WaitingGranted' /\ WaitingApart'
  BY DEF PacingInv, Pacing!TypeOK, Pacing!Tick, ScheduleIsAhead, GrantedApart, WaitingGranted,
         WaitingApart
<1>2. ASSUME NEW v \in Callers PROVE Held(call[v])'
  <2>1. call[v] \in Pacing!Calls /\ Held(call[v]) /\ call' = call /\ blocked' = blocked
        /\ now \in Nat /\ now' = now + 1
    BY DEF PacingInv, Pacing!TypeOK, Pacing!Tick
  <2>2. call[v].pc = "limited" => call[v].after \in Nat /\ call[v].quiet \in Nat
    BY <2>1, CallFields DEF PacingInv, Pacing!PacingAssumption
  <2> QED BY <2>1, <2>2 DEF Held
<1> QED BY <1>1, <1>2 DEF PacingInv

LEMMA ReserveHolds == ASSUME PacingInv, NEW w \in Callers, Pacing!Reserve(w) PROVE PacingInv'
<1> DEFINE c == [pc |-> "wait", tries |-> call[w].tries + 1, slot |-> Pacing!Grant,
                 quiet |-> call[w].quiet]
<1>1. /\ Pacing!TypeOK /\ ScheduleIsAhead /\ GrantedApart /\ WaitingGranted /\ WaitingApart
      /\ \A v \in Callers : Held(call[v])
      /\ call[w].pc = "reserve" /\ Pacing!Goes(w, c)
      /\ next' = Pacing!Grant + Interval /\ granted' = granted \cup {Pacing!Grant}
      /\ now' = now /\ blocked' = blocked
  BY DEF PacingInv, Pacing!Reserve
<1>2. Pacing!Grant \in Nat /\ Pacing!Grant >= next /\ Pacing!Grant >= blocked
  BY <1>1, GrantIsLatest
<1>3. call[w] \in Pacing!Calls /\ Interval \in Nat \ {0} /\ Attempts \in Nat
  BY <1>1 DEF PacingInv, Pacing!PacingAssumption, Pacing!TypeOK
<1>4. call[w].tries + 1 \in 1..Attempts /\ call[w].quiet \in Nat
  BY <1>1, <1>3, CallFields
<1>5. c \in Pacing!Calls
  BY <1>2, <1>4, CallRecords
<1>6. /\ call' \in [Callers -> Pacing!Calls] /\ call'[w] = c
      /\ \A v \in Callers \ {w} : call'[v] = call[v]
  BY <1>1, <1>5, OnlyOneMoves
<1>7. Pacing!TypeOK'
  BY <1>1, <1>2, <1>3, <1>6 DEF Pacing!TypeOK
<1>8. ScheduleIsAhead' /\ GrantedApart' /\ WaitingGranted' /\ WaitingApart'
  <2>1. \A s \in granted : s \in Nat /\ s + Interval <= next
    BY <1>1 DEF Pacing!TypeOK, ScheduleIsAhead
  <2>2. next \in Nat
    BY <1>1 DEF Pacing!TypeOK
  <2>3. \A s \in granted : s < Pacing!Grant /\ s + Interval <= Pacing!Grant
    BY <1>2, <1>3, <2>1, <2>2
  <2>4. call'[w].slot = Pacing!Grant
    BY <1>6
  <2>5. \A v \in Callers \ {w} : call'[v].pc = "wait" => call'[v].slot \in granted
    BY <1>1, <1>6 DEF WaitingGranted
  <2> HIDE DEF c
  <2>6. ScheduleIsAhead'
    BY <1>1, <1>2, <1>3, <2>1, <2>2 DEF ScheduleIsAhead
  <2>7. GrantedApart'
    BY <1>1, <1>2, <2>1, <2>3 DEF GrantedApart
  <2>8. WaitingGranted'
    BY <1>1, <2>4, <2>5 DEF WaitingGranted
  <2>9. ASSUME NEW u \in Callers, NEW v \in Callers, u # v,
               call'[u].pc = "wait", call'[v].pc = "wait"
        PROVE  call'[u].slot # call'[v].slot
    <3>1. CASE u = w
      BY <3>1, <2>9, <2>1, <2>3, <2>4, <2>5, <1>2
    <3>2. CASE v = w
      BY <3>2, <2>9, <2>1, <2>3, <2>4, <2>5, <1>2
    <3>3. CASE u # w /\ v # w
      BY <3>3, <2>9, <1>1, <1>6 DEF WaitingApart
    <3> QED BY <3>1, <3>2, <3>3
  <2> QED BY <2>6, <2>7, <2>8, <2>9 DEF WaitingApart
<1>9. ASSUME NEW v \in Callers PROVE Held(call[v])'
  <2>1. CASE v = w
    <3>1. call[w].quiet <= blocked /\ blocked \in Nat
      BY <1>1 DEF Held, Pacing!TypeOK
    <3>2. Pacing!Grant >= call[w].quiet
      BY <3>1, <1>2, <1>4
    <3> QED BY <2>1, <3>2, <1>6 DEF Held
  <2>2. CASE v # w
    <3>1. call'[v] = call[v]
      BY <2>2, <1>6
    <3> QED BY <3>1, <1>1 DEF Held
  <2> QED BY <2>1, <2>2
<1> QED BY <1>7, <1>8, <1>9 DEF PacingInv

LEMMA SendLimitedHolds ==
    ASSUME PacingInv, NEW w \in Callers, NEW after \in RetryAfters, Pacing!SendLimited(w, after)
    PROVE  PacingInv'
<1> DEFINE c == [pc |-> "limited", tries |-> call[w].tries, after |-> after,
                 quiet |-> now + after]
<1>1. call[w] \in Pacing!Calls /\ call[w].pc = "wait" /\ now \in Nat /\ after \in Nat
  BY DEF PacingInv, Pacing!PacingAssumption, Pacing!TypeOK, Pacing!SendLimited
<1>2. now + after \in Nat /\ call[w].tries \in 1..Attempts
  BY <1>1, CallFields
<1>3. c \in Pacing!Calls
  BY <1>2, CallRecords
<1>4. Held(c) /\ c.pc # "wait"
  BY <1>2 DEF Held
<1> QED BY <1>3, <1>4, CallMoves DEF Pacing!SendLimited

LEMMA RateLimitedHolds == ASSUME PacingInv, NEW w \in Callers, Pacing!RateLimited(w) PROVE PacingInv'
<1> DEFINE c == IF call[w].tries < Attempts THEN Pacing!Reserving(call[w].tries, call[w].quiet)
                ELSE Pacing!Idle
<1>1. /\ Pacing!TypeOK /\ ScheduleIsAhead /\ GrantedApart /\ WaitingGranted /\ WaitingApart
      /\ \A v \in Callers : Held(call[v])
      /\ call[w].pc = "limited" /\ Pacing!Goes(w, c)
      /\ blocked' = Pacing!Block(call[w].after)
      /\ now' = now /\ next' = next /\ granted' = granted
  BY DEF PacingInv, Pacing!RateLimited
<1>2. call[w] \in Pacing!Calls /\ Attempts \in Nat /\ now \in Nat /\ blocked \in Nat
  BY <1>1 DEF PacingInv, Pacing!PacingAssumption, Pacing!TypeOK
<1>3. call[w].tries \in 1..Attempts /\ call[w].after \in Nat /\ call[w].quiet \in Nat
  BY <1>1, <1>2, CallFields DEF PacingInv, Pacing!PacingAssumption
<1>4. /\ Pacing!Block(call[w].after) \in Nat /\ Pacing!Block(call[w].after) >= blocked
      /\ Pacing!Block(call[w].after) >= now + call[w].after
  BY <1>1, <1>3, BlockGrows
<1>5. c \in Pacing!Calls
  BY <1>2, <1>3, CallRecords
<1>6. /\ call' \in [Callers -> Pacing!Calls] /\ call'[w] = c
      /\ \A v \in Callers \ {w} : call'[v] = call[v]
  BY <1>1, <1>5, OnlyOneMoves
<1>7. Pacing!TypeOK' /\ ScheduleIsAhead' /\ GrantedApart' /\ WaitingGranted' /\ WaitingApart'
  <2>1. c.pc # "wait"
    BY DEF Pacing!Reserving, Pacing!Idle
  <2> HIDE DEF c
  <2>2. Pacing!TypeOK' /\ ScheduleIsAhead' /\ GrantedApart'
    BY <1>1, <1>4, <1>6 DEF Pacing!TypeOK, ScheduleIsAhead, GrantedApart
  <2>3. WaitingGranted' /\ WaitingApart'
    BY <1>1, <1>6, <2>1, WaitersStay
  <2> QED BY <2>2, <2>3
<1>8. ASSUME NEW v \in Callers PROVE Held(call[v])'
  <2>1. CASE v = w
    <3>1. call[w].quiet <= blocked'
      BY <1>1, <1>2, <1>3, <1>4 DEF Held
    <3> QED BY <2>1, <3>1, <1>6 DEF Held, Pacing!Reserving, Pacing!Idle
  <2>2. CASE v # w
    <3>1. call'[v] = call[v] /\ Held(call[v]) /\ call[v] \in Pacing!Calls
      BY <2>2, <1>1, <1>6 DEF Pacing!TypeOK
    <3>2. call[v].pc = "reserve" => call[v].quiet \in Nat
      BY <3>1, CallFields
    <3> HIDE DEF c
    <3> QED BY <3>1, <3>2, <1>1, <1>2, <1>4 DEF Held
  <2> QED BY <2>1, <2>2
<1> QED BY <1>7, <1>8 DEF PacingInv

LEMMA PacingStep == PacingInv /\ [Pacing!Next]_(Pacing!vars) => PacingInv'
<1> SUFFICES ASSUME PacingInv, [Pacing!Next]_(Pacing!vars) PROVE PacingInv'
  OBVIOUS
<1>1. ASSUME NEW w \in Callers, Pacing!Begin(w) PROVE PacingInv'
  <2>1. Pacing!Reserving(0, 0) \in Pacing!Calls
    BY CallRecords DEF PacingInv, Pacing!PacingAssumption
  <2>2. Held(Pacing!Reserving(0, 0)) /\ Pacing!Reserving(0, 0).pc # "wait"
    BY DEF PacingInv, Pacing!TypeOK, Held, Pacing!Reserving
  <2> QED BY <1>1, <2>1, <2>2, CallMoves DEF Pacing!Begin
<1>2. ASSUME NEW w \in Callers, Pacing!Send(w) PROVE PacingInv'
  <2>1. [pc |-> "answered"] \in Pacing!Calls /\ Held([pc |-> "answered"])
        /\ [pc |-> "answered"].pc # "wait"
    BY CallRecords DEF Held
  <2> QED BY <1>2, <2>1, CallMoves DEF Pacing!Send
<1>3. Pacing!Idle \in Pacing!Calls /\ Held(Pacing!Idle) /\ Pacing!Idle.pc # "wait"
  BY CallRecords DEF Held
<1>4. ASSUME NEW w \in Callers, Pacing!Answered(w) \/ Pacing!Crash(w) PROVE PacingInv'
  BY <1>3, <1>4, CallMoves DEF Pacing!Answered, Pacing!Crash
<1>5. CASE UNCHANGED Pacing!vars
  BY <1>5 DEF Pacing!vars, PacingInv, Pacing!TypeOK, ScheduleIsAhead, GrantedApart, WaitingGranted,
             WaitingApart, Held
<1> QED
  BY <1>1, <1>2, <1>4, <1>5, PacingTick, ReserveHolds, SendLimitedHolds, RateLimitedHolds
     DEF Pacing!Next

(***************************************************************************)
(* The theorems.                                                           *)
(***************************************************************************)

LEMMA PacingInductive == Pacing!PacingAssumption /\ Pacing!Spec => []PacingInv
BY PacingInit, PacingStep, PTL DEF Pacing!Spec

(* The types hold, and no call is sent more often than RATE_LIMITED_ATTEMPTS, for
   any number of workers and any times (paced_call). *)
THEOREM PacingTypes == Pacing!PacingAssumption /\ Pacing!Spec => []Pacing!TypeOK
<1>1. PacingInv => Pacing!TypeOK
  BY DEF PacingInv
<1> QED BY <1>1, PacingInductive, PTL

(* The slots granted to any number of workers, in whatever order, are an interval
   apart, and no two of them wait for the same one (Bucket::grant under the lock of
   the bucket). *)
THEOREM SlotsSpaced == Pacing!PacingAssumption /\ Pacing!Spec => []Pacing!SlotsAreSpaced
<1>1. PacingInv => Pacing!SlotsAreSpaced
  BY DEF PacingInv, GrantedApart, WaitingApart, Pacing!SlotsAreSpaced
<1> QED BY <1>1, PacingInductive, PTL

(* A call that was asked to wait reserves no slot before that time, whatever the
   other workers report in between (Bucket::rate_limited). *)
THEOREM RetryAfterKept == Pacing!PacingAssumption /\ Pacing!Spec => []Pacing!RetryAfterIsKept
<1>1. PacingInv => Pacing!RetryAfterIsKept
  BY DEF PacingInv, Held, Pacing!RetryAfterIsKept
<1> QED BY <1>1, PacingInductive, PTL
=============================================================================
