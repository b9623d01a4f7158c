------------------------------ MODULE DataSync ------------------------------
(***************************************************************************)
(* The writers of the policy collection that work on their own: the sync   *)
(* process (cmd/sync/main.go), which brings the Git repository into the    *)
(* database, and the data refresher of every policy service                *)
(* (internal/service/policy/policydata/refresher.go), which replaces a     *)
(* policy's data by what its data configuration fetches.  Users lock,      *)
(* unlock and import policies meanwhile.                                   *)
(*                                                                         *)
(* A revision stands for the files of a policy: its source, schema,        *)
(* configurations and data.json.  Only the data configuration and the data *)
(* matter here; the export configuration, which an import does not write,  *)
(* is the same in all revisions.  Clock times are abstracted to what the   *)
(* code tells apart: the zero time (never), a time that has come, and one  *)
(* still to come.                                                          *)
(***************************************************************************)
CONSTANTS
    Policies,       \* identities: repository, group, name and version
    Refreshers,     \* the policy service instances
    Revisions,      \* contents of a policy's directory in the repository
    ConfigOf,       \* the data-config.json of a revision
    DataOf,         \* the data.json of a revision
    Fetched,        \* answers of the external data URLs
    Importable,     \* the policies for which bundles are imported
    NoPolicy        \* no document, no directory

Configs == {"none", "bad", "good"}

Data == {DataOf[v] : v \in Revisions} \cup Fetched

Times == {"zero", "due", "later"}

\* named: the document has the file name of the repository, which an import
\* does not store.
Document == [locked : BOOLEAN, rev : Revisions, data : Data, named : BOOLEAN,
             next : Times]

\* What the sync and the refreshers remember of a document they read: the fields
\* they look at later.
Current == [locked : BOOLEAN, rev : Revisions, data : Data, named : BOOLEAN]

Due == [rev : Revisions, data : Data]

ASSUME DataSyncAssumption ==
    /\ ConfigOf \in [Revisions -> Configs]
    /\ DataOf \in [Revisions -> {DataOf[v] : v \in Revisions}]
    /\ Importable \subseteq Policies
    /\ NoPolicy \notin Document \cup Current \cup Due \cup Revisions

Stored == Document \cup {NoPolicy}

(***************************************************************************)
(* The sync process holds the clone, the documents fetched so far and the  *)
(* policies still to fetch or to write; relocked (history) are the         *)
(* policies whose lock somebody else wrote since they were fetched.  A     *)
(* refresher holds the due policies it has not executed yet.               *)
(***************************************************************************)
VARIABLES
    git,        \* the repository's branch
    docs,       \* the policy collection
    sync,       \* the sync process
    job,        \* the refreshers
    faulty      \* faults may still occur

vars == <<git, docs, sync, job, faulty>>

SyncState == [pc : {"idle", "fetch", "write"}, repo : [Policies -> Revisions \cup {NoPolicy}],
              curr : [Policies -> Current \cup {NoPolicy}], todo : SUBSET Policies,
              relocked : SUBSET Policies]

JobState == [pc : {"idle", "found", "execute"},
             found : [Policies -> Due \cup {NoPolicy}]]

Nothing == [k \in Policies |-> NoPolicy]

\* f, with nothing outside K.
Only(K, f) == [k \in Policies |-> IF k \in K THEN f[k] ELSE NoPolicy]

SyncIdle == [pc |-> "idle", repo |-> Nothing, curr |-> Nothing, todo |-> {},
             relocked |-> {}]

JobIdle == [pc |-> "idle", found |-> Nothing]

DataSyncTypeOK ==
    /\ git \in [Policies -> Revisions \cup {NoPolicy}]
    /\ docs \in [Policies -> Stored]
    /\ sync \in SyncState
    /\ job \in [Refreshers -> JobState]
    /\ faulty \in BOOLEAN

Init ==
    /\ git \in [Policies -> Revisions \cup {NoPolicy}]
    /\ docs = Nothing
    /\ sync = SyncIdle
    /\ job = [i \in Refreshers |-> JobIdle]
    /\ faulty = TRUE
-----------------------------------------------------------------------------
(* The sync process.                                                       *)

Clone ==
    /\ sync.pc = "idle"
    /\ sync' = [SyncIdle EXCEPT !.pc = "fetch", !.repo = git, !.todo = Policies]
    /\ UNCHANGED <<git, docs, job, faulty>>

\* Mutant: the lock of the stored document is not kept.
FetchPolicyUnlocked(k) ==
    /\ sync.pc = "fetch" /\ k \in sync.todo
    /\ sync' = [sync EXCEPT
                  !.curr[k] = IF docs[k] = NoPolicy THEN NoPolicy
                              ELSE [locked |-> FALSE, rev |-> docs[k].rev,
                                    data |-> docs[k].data, named |-> docs[k].named],
                  !.todo = @ \ {k}, !.relocked = @ \ {k}]
    /\ UNCHANGED <<git, docs, job, faulty>>

\* The cursor of fetchCurrPolicies returns the documents one by one.
FetchPolicy(k) ==
    /\ sync.pc = "fetch" /\ k \in sync.todo
    /\ sync' = [sync EXCEPT
                  !.curr[k] = IF docs[k] = NoPolicy THEN NoPolicy
                              ELSE [locked |-> docs[k].locked, rev |-> docs[k].rev,
                                    data |-> docs[k].data, named |-> docs[k].named],
                  !.todo = @ \ {k}, !.relocked = @ \ {k}]
    /\ UNCHANGED <<git, docs, job, faulty>>

\* Mutant: only the data and the file name are compared.
equalData(d, v) == d.data = DataOf[v] /\ d.named

\* The document d is what the repository has at revision v.
equal(d, v) == d.rev = v /\ d.data = DataOf[v] /\ d.named

compare(curr, repo) ==
    {k \in Policies : /\ repo[k] # NoPolicy
                      /\ curr[k] = NoPolicy \/ ~equal(curr[k], repo[k])}

\* forUpsert is all that remains of the clone and of the fetched documents.
Compare ==
    LET forUpsert == compare(sync.curr, sync.repo)
    IN  /\ sync.pc = "fetch" /\ sync.todo = {}
        /\ sync' = [pc |-> "write", todo |-> forUpsert,
                    repo |-> Only(forUpsert, sync.repo),
                    curr |-> Only(forUpsert, sync.curr),
                    relocked |-> sync.relocked \cap forUpsert]
        /\ UNCHANGED <<git, docs, job, faulty>>

\* Mutant: the refresh time is not set.
nextDataRefreshTimeUnset(v) == "zero"

nextDataRefreshTime(v) == IF ConfigOf[v] # "none" THEN "due" ELSE "zero"

\* One update of the bulk write.  createPolicy leaves a policy unlocked; compare
\* copied the lock of the fetched document.
Upsert(k) ==
    LET v == sync.repo[k]
        c == sync.curr[k]
    IN  /\ sync.pc = "write" /\ k \in sync.todo
        /\ docs' = [docs EXCEPT ![k] =
                      [locked |-> c # NoPolicy /\ c.locked, rev |-> v,
                       data |-> DataOf[v], named |-> TRUE,
                       next |-> nextDataRefreshTime(v)]]
        /\ sync' = [sync EXCEPT !.todo = @ \ {k}, !.repo[k] = NoPolicy,
                                !.curr[k] = NoPolicy, !.relocked = @ \ {k}]
        /\ UNCHANGED <<git, job, faulty>>

EndSync ==
    /\ sync.pc = "write" /\ sync.todo = {}
    /\ sync' = SyncIdle
    /\ UNCHANGED <<git, docs, job, faulty>>

\* The clone, a read or the bulk write fails, or the process dies: the updates
\* made so far stay, and the next sync starts from nothing.
AbortSync ==
    /\ faulty
    /\ sync.pc # "idle"
    /\ sync' = SyncIdle
    /\ UNCHANGED <<git, docs, job, faulty>>
-----------------------------------------------------------------------------
(* The data refreshers.                                                    *)

\* GetRefreshPolicies passes ctx and not the session's context to its queries,
\* so they run outside the transaction: what was found is postponed in a step of
\* its own.
FindDue(i) ==
    LET due == {k \in Policies : docs[k] # NoPolicy /\ docs[k].next = "due"}
    IN  /\ job[i].pc = "idle" /\ due # {}
        /\ job' = [job EXCEPT ![i] =
                     [pc |-> "found",
                      found |-> [k \in Policies |->
                                   IF k \in due
                                   THEN [rev |-> docs[k].rev, data |-> docs[k].data]
                                   ELSE NoPolicy]]]
        /\ UNCHANGED <<git, docs, sync, faulty>>

Todo(i) == {k \in Policies : job[i].found[k] # NoPolicy}

postponeRefresh(i) ==
    /\ job[i].pc = "found"
    /\ docs' = [k \in Policies |-> IF k \in Todo(i)
                                   THEN [docs[k] EXCEPT !.next = "later"]
                                   ELSE docs[k]]
    /\ job' = [job EXCEPT ![i].pc = "execute"]
    /\ UNCHANGED <<git, sync, faulty>>

\* Mutant: the update replaces the document instead of setting two fields.
UpdateNextRefreshTimeReplaces(k, data, next) ==
    docs' = [docs EXCEPT ![k] = [data |-> data, next |-> next]]

UpdateNextRefreshTime(k, data, next) ==
    docs' = [docs EXCEPT ![k].data = data, ![k].next = next]

Executed(i, k) == job' = [job EXCEPT ![i].found[k] = NoPolicy]

\* Mutant: an unusable data configuration is tried again.
UnscheduleLater(i, k) ==
    LET p == job[i].found[k]
    IN  /\ job[i].pc = "execute" /\ k \in Todo(i)
        /\ ConfigOf[p.rev] # "good"
        /\ UpdateNextRefreshTime(k, p.data, "later")
        /\ Executed(i, k)
        /\ UNCHANGED <<git, sync, faulty>>

\* The data configuration cannot be used: never again.
Unschedule(i, k) ==
    LET p == job[i].found[k]
    IN  /\ job[i].pc = "execute" /\ k \in Todo(i)
        /\ ConfigOf[p.rev] # "good"
        /\ UpdateNextRefreshTime(k, p.data, "zero")
        /\ Executed(i, k)
        /\ UNCHANGED <<git, sync, faulty>>

\* The request fails or is not answered with 200: again after the period.
RefreshFails(i, k) ==
    LET p == job[i].found[k]
    IN  /\ job[i].pc = "execute" /\ k \in Todo(i)
        /\ ConfigOf[p.rev] = "good"
        /\ UpdateNextRefreshTime(k, p.data, "later")
        /\ Executed(i, k)
        /\ UNCHANGED <<git, sync, faulty>>

Refresh(i, k, data) ==
    /\ job[i].pc = "execute" /\ k \in Todo(i)
    /\ ConfigOf[job[i].found[k].rev] = "good"
    /\ UpdateNextRefreshTime(k, data, "later")
    /\ Executed(i, k)
    /\ UNCHANGED <<git, sync, faulty>>

\* UpdateNextRefreshTime fails, which is logged at most.
UpdateFails(i, k) ==
    /\ faulty
    /\ job[i].pc = "execute" /\ k \in Todo(i)
    /\ Executed(i, k)
    /\ UNCHANGED <<git, docs, sync, faulty>>

EndRound(i) ==
    /\ job[i].pc = "execute" /\ Todo(i) = {}
    /\ job' = [job EXCEPT ![i] = JobIdle]
    /\ UNCHANGED <<git, docs, sync, faulty>>

\* A query of GetRefreshPolicies fails, or the process dies.
AbortRound(i) ==
    /\ faulty
    /\ job[i].pc # "idle"
    /\ job' = [job EXCEPT ![i] = JobIdle]
    /\ UNCHANGED <<git, docs, sync, faulty>>

\* The refresh time of a policy comes.
Tick(k) ==
    /\ docs[k] # NoPolicy /\ docs[k].next = "later"
    /\ docs' = [docs EXCEPT ![k].next = "due"]
    /\ UNCHANGED <<git, sync, job, faulty>>
-----------------------------------------------------------------------------
(* Everybody else.                                                         *)

Commit(k, v) ==
    /\ git' = [git EXCEPT ![k] = v]
    /\ UNCHANGED <<docs, sync, job, faulty>>

\* The sync holds k's document, to be compared or written.
HasFetched(k) ==
    \/ sync.pc = "fetch" /\ k \notin sync.todo
    \/ sync.pc = "write" /\ k \in sync.todo

\* Somebody else than the sync wrote the lock of k.
Relock(k) ==
    sync' = IF HasFetched(k) THEN [sync EXCEPT !.relocked = @ \cup {k}] ELSE sync

SetPolicyLock(k, lock) ==
    /\ docs[k] # NoPolicy
    /\ docs' = [docs EXCEPT ![k].locked = lock]
    /\ Relock(k)
    /\ UNCHANGED <<git, job, faulty>>

\* SavePolicy for a bundle: it sets neither the file name nor a refresh time.
SavePolicy(k, v, lock) ==
    /\ k \in Importable
    /\ docs' = [docs EXCEPT ![k] =
                  [locked |-> lock, rev |-> v, data |-> DataOf[v],
                   named |-> docs[k] # NoPolicy /\ docs[k].named, next |-> "zero"]]
    /\ Relock(k)
    /\ UNCHANGED <<git, job, faulty>>
-----------------------------------------------------------------------------
SyncStep == Clone \/ Compare \/ EndSync \/ \E k \in Policies : FetchPolicy(k) \/ Upsert(k)

Round(i) ==
    \/ FindDue(i) \/ postponeRefresh(i) \/ EndRound(i)
    \/ \E k \in Policies :
         Unschedule(i, k) \/ RefreshFails(i, k) \/ \E d \in Fetched : Refresh(i, k, d)

Fault ==
    \/ AbortSync
    \/ \E i \in Refreshers : AbortRound(i) \/ \E k \in Policies : UpdateFails(i, k)

\* From now on the database and the processes are reliable.
FaultsCease ==
    /\ faulty
    /\ faulty' = FALSE
    /\ UNCHANGED <<git, docs, sync, job>>

Next ==
    \/ SyncStep
    \/ \E i \in Refreshers : Round(i)
    \/ Fault
    \/ FaultsCease
    \/ \E k \in Policies :
         \/ Tick(k)
         \/ \E v \in Revisions \cup {NoPolicy} : Commit(k, v)
         \/ \E lock \in BOOLEAN : SetPolicyLock(k, lock)
         \/ \E v \in Revisions, lock \in BOOLEAN : SavePolicy(k, v, lock)

DataSyncSafety == Init /\ [][Next]_vars

\* The sync runs periodically (KeepAlive), the refreshers poll, time passes, an
\* external URL that is asked again and again answers, and faults cease.
DataSyncSpec ==
    /\ DataSyncSafety
    /\ WF_vars(SyncStep)
    /\ \A i \in Refreshers : WF_vars(Round(i))
    /\ \A k \in Policies :
         /\ WF_vars(Tick(k))
         /\ SF_vars(\E i \in Refreshers, d \in Fetched : Refresh(i, k, d))
    /\ WF_vars(FaultsCease)
-----------------------------------------------------------------------------
Lock(d) == d # NoPolicy /\ d.locked

\* The lock compare copies from a fetched document is still the stored one,
\* unless a user wrote the lock in between.
FetchedLockCurrent ==
    \A k \in Policies :
        HasFetched(k) /\ k \notin sync.relocked => Lock(sync.curr[k]) = Lock(docs[k])

\* cmd/sync/main.go: "if GIT policy is modified, save the 'lock' state before
\* updating in MongoDB".  An update of the sync changes the lock of a policy only
\* when a user wrote that lock between the fetch and the update.
SyncSavesUncontestedLock ==
    [][\A k \in Policies :
         Upsert(k) /\ k \notin sync.relocked => Lock(docs'[k]) = Lock(docs[k])]_vars

\* internal/storage/mongodb/storage.go, postponeRefresh: "in order to prevent
\* concurrent data refresh".  No two refreshers execute the same policy.
NoConcurrentRefresh ==
    \A i, j \in Refreshers :
        i # j /\ job[i].pc = "execute" /\ job[j].pc = "execute"
            => Todo(i) \cap Todo(j) = {}

\* What stays in the repository reaches the database, however often syncs fail
\* half way and whatever the refreshers write back.
GitReachesStore ==
    \A k \in Policies, v \in Revisions :
        <>[](git[k] = v) => []<>(docs[k] # NoPolicy /\ docs[k].rev = v)

\* README.md: data.json "will be eventually overwritten by the data acquired using
\* the configuration from the data-config.json file".  A policy that stays in the
\* repository with a usable data configuration keeps getting fetched data,
\* although each sync writes data.json back, provided it never was without one: a
\* refresher that read it then may unschedule the policy after its repair.
DataArrives ==
    \A k \in Policies, v \in Revisions :
        ConfigOf[v] = "good" /\ <>[](git[k] = v)
        /\ [](docs[k] # NoPolicy => ConfigOf[docs[k].rev] = "good")
            => []<>(docs[k] # NoPolicy /\ docs[k].data \in Fetched)

\* A policy whose data configuration stays unusable ends up with no refresh time,
\* also when a refresher postponed or rescheduled it from an older document.
UnusableIsUnscheduled ==
    \A k \in Policies :
        <>[](docs[k] # NoPolicy /\ ConfigOf[docs[k].rev] # "good")
            => []<>(docs[k] # NoPolicy /\ docs[k].next = "zero")
=============================================================================
