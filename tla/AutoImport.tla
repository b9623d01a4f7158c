----------------------------- MODULE AutoImport -----------------------------
(***************************************************************************)
(* Automatic import of policy bundles over the MongoDB storage             *)
(* (internal/service/policy/autoimport.go, the auto import endpoints of    *)
(* service.go and the autoImport collection of mongodb/storage.go): users  *)
(* set and delete configurations while every process polls for due ones,   *)
(* fetches the bundles from another agent, verifies and saves them.        *)
(*                                                                         *)
(* The URL of a configuration is the export endpoint of one policy, so it  *)
(* is identified with that policy.                                         *)
(***************************************************************************)
EXTENDS Bundles, FiniteSets

CONSTANTS
    Policies,       \* the policies configured for import, and their URLs
    Contents,       \* contents of the files of a policy
    Published,      \* what the exporting agent may hold for a policy
    Pollers,        \* the importing processes
    Users,          \* slots for requests to the configuration endpoints
    Ids,            \* bound: object ids in use at once
    MaxRotations,   \* bound: rotations of the signing keys
    NoPolicy,       \* no document
    NoBundle        \* nothing fetched

\* A policy document, without its identity.
Policy == [locked : BOOLEAN, rego : Contents, data : Contents, dataConfig : Contents,
           outputSchema : Contents, exportConfig : Contents]

\* A bundle packed again with nothing but the metadata and the source: a truncated
\* archive is not unpacked, and its digest never compared.
Damaged(b) == [b EXCEPT !.files = SubSeq(@, 1, 2)]

\* What a poller may receive: a bundle that was signed at some time.
Bundle ==
    LET signed == {ExportBundle(k, p, v) :
                      k \in Policies, p \in Published, v \in 0..MaxRotations}
    IN  signed \cup {Damaged(b) : b \in signed}

ASSUME AutoImportAssumption ==
    /\ Policies # {} /\ "" \in Contents
    /\ Published \subseteq Policy
    /\ MaxRotations \in Nat
    /\ NoBundle \notin Bundle

Config == [id : Ids, policy : Policies, next : {"due", "later"}]

\* What a poller keeps of a configuration it found.
Found == [id : Ids, policy : Policies]

(***************************************************************************)
(* The exporting agent and its key service, the two collections, and the   *)
(* local state of pollers and requests.  exported (history) is everything  *)
(* the exporting agent ever held.                                          *)
(***************************************************************************)
VARIABLES
    remote,     \* the exporting agent's policies
    version,    \* the version of its signing keys
    configs,    \* the autoImport collection; no index makes a URL unique
    docs,       \* the importing agent's policy collection
    poller,     \* the goroutines of StartAutoImporter
    user,       \* the requests to the configuration endpoints
    exported,   \* history
    faulty      \* faults may still occur

vars == <<remote, version, configs, docs, poller, user, exported, faulty>>

Poller == [pc : {"idle", "reschedule", "fetch", "verify", "save"},
           found : SUBSET Found, left : SUBSET Found, bundle : Bundle \cup {NoBundle}]

User == [pc : {"idle", "insert", "delete"}, policy : Policies]

PollerIdle == [pc |-> "idle", found |-> {}, left |-> {}, bundle |-> NoBundle]

UserIdle == [pc |-> "idle", policy |-> CHOOSE k \in Policies : TRUE]

\* What SavePolicy leaves of an imported policy: the export configuration is the
\* one the document had.
Saved(p, old) ==
    [p EXCEPT !.exportConfig = IF old = NoPolicy THEN "" ELSE old.exportConfig]

\* d holds the files of p, blank ones left out.
SameFiles(d, p) ==
    /\ d # NoPolicy
    /\ d.rego = p.rego
    /\ d.data = Arriving(p.data)
    /\ d.dataConfig = Arriving(p.dataConfig)
    /\ d.outputSchema = Arriving(p.outputSchema)

AutoImportTypeOK ==
    /\ remote \in [Policies -> Published]
    /\ version \in 0..MaxRotations
    /\ configs \subseteq Config
    /\ \A c, e \in configs : c.id = e.id => c = e
    /\ docs \in [Policies -> Policy \cup {NoPolicy}]
    /\ poller \in [Pollers -> Poller]
    /\ \A i \in Pollers :
         /\ poller[i].left \subseteq poller[i].found
         /\ poller[i].bundle = NoBundle <=> poller[i].pc \notin {"verify", "save"}
    /\ user \in [Users -> User]
    /\ exported \in [Policies -> SUBSET Published]
    /\ faulty \in BOOLEAN

Init ==
    /\ remote \in [Policies -> Published]
    /\ version = 0
    /\ configs = {}
    /\ docs = [k \in Policies |-> NoPolicy]
    /\ poller = [i \in Pollers |-> PollerIdle]
    /\ user = [u \in Users |-> UserIdle]
    /\ exported = [k \in Policies |-> {remote[k]}]
    /\ faulty = TRUE
-----------------------------------------------------------------------------
(* The configuration endpoints.                                            *)

ConfigsOf(k) == {c \in configs : c.policy = k}

Configured(k) == ConfigsOf(k) # {}

Answer(u) == user' = [user EXCEPT ![u] = UserIdle]

\* An id no document has and no poller remembers: object ids are never reused.
FreshIds ==
    Ids \ ({c.id : c \in configs} \cup UNION {{c.id : c \in poller[i].found} : i \in Pollers})

Insert(id, k) == configs' = configs \cup {[id |-> id, policy |-> k, next |-> "later"]}

\* The upsert of SaveAutoImportConfig matches a document and updates it, or finds
\* none; without a unique index the server then inserts one in a step of its own.
SetPolicyAutoImport(u, k) ==
    /\ user[u].pc = "idle"
    /\ \/ /\ \E c \in ConfigsOf(k) :
               configs' = (configs \ {c}) \cup {[c EXCEPT !.next = "later"]}
          /\ UNCHANGED user
       \/ /\ ~Configured(k)
          /\ user' = [user EXCEPT ![u] = [pc |-> "insert", policy |-> k]]
          /\ UNCHANGED configs
    /\ UNCHANGED <<remote, version, docs, poller, exported, faulty>>

InsertConfig(u) ==
    /\ user[u].pc = "insert"
    /\ \E id \in FreshIds : Insert(id, user[u].policy)
    /\ Answer(u)
    /\ UNCHANGED <<remote, version, docs, poller, exported, faulty>>

\* DeletePolicyAutoImport reads the configuration for its answer, then deletes one.
DeletePolicyAutoImport(u, k) ==
    /\ user[u].pc = "idle"
    /\ Configured(k)
    /\ user' = [user EXCEPT ![u] = [pc |-> "delete", policy |-> k]]
    /\ UNCHANGED <<remote, version, configs, docs, poller, exported, faulty>>

DeleteAutoImportConfig(u) ==
    /\ user[u].pc = "delete"
    /\ \/ \E c \in ConfigsOf(user[u].policy) : configs' = configs \ {c}
       \/ ~Configured(user[u].policy) /\ UNCHANGED configs
    /\ Answer(u)
    /\ UNCHANGED <<remote, version, docs, poller, exported, faulty>>

RequestFails(u) ==
    /\ faulty
    /\ user[u].pc # "idle"
    /\ Answer(u)
    /\ UNCHANGED <<remote, version, configs, docs, poller, exported, faulty>>

\* A user of the importing agent locks or unlocks an imported policy.
SetPolicyLock(k, lock) ==
    /\ docs[k] # NoPolicy
    /\ docs' = [docs EXCEPT ![k].locked = lock]
    /\ UNCHANGED <<remote, version, configs, poller, user, exported, faulty>>
-----------------------------------------------------------------------------
(* ActiveImportConfigs: Find, one update for each configuration, commit.   *)

\* Mutant: the test of the memory storage, which takes what is not yet due.
ActiveInverted == {c \in configs : c.next = "later"}

Active == {c \in configs : c.next = "due"}

\* The queries are given ctx, not the session's context: they run outside the
\* transaction.
FindActive(i) ==
    LET found == {[id |-> c.id, policy |-> c.policy] : c \in Active}
    IN  /\ poller[i].pc = "idle" /\ found # {}
        /\ poller' = [poller EXCEPT ![i].pc = "reschedule", ![i].found = found,
                                    ![i].left = found]
        /\ UNCHANGED <<remote, version, configs, docs, user, exported, faulty>>

Take(i, c) == poller' = [poller EXCEPT ![i].left = @ \ {c}]

\* Mutant: the update inserts what it does not find.
updateAutoImportNextIntervalUpserts(i, c) ==
    /\ poller[i].pc = "reschedule" /\ c \in poller[i].left
    /\ configs' = {e \in configs : e.id # c.id}
                  \cup {[id |-> c.id, policy |-> c.policy, next |-> "later"]}
    /\ Take(i, c)
    /\ UNCHANGED <<remote, version, docs, user, exported, faulty>>

\* The document may be gone, and then nothing is updated.
updateAutoImportNextInterval(i, c) ==
    /\ poller[i].pc = "reschedule" /\ c \in poller[i].left
    /\ configs' = {IF e.id = c.id THEN [e EXCEPT !.next = "later"] ELSE e : e \in configs}
    /\ Take(i, c)
    /\ UNCHANGED <<remote, version, docs, user, exported, faulty>>

\* A failed update is logged and the configuration imported all the same.
RescheduleFails(i, c) ==
    /\ faulty
    /\ poller[i].pc = "reschedule" /\ c \in poller[i].left
    /\ Take(i, c)
    /\ UNCHANGED <<remote, version, configs, docs, user, exported, faulty>>

CommitTransaction(i) ==
    /\ poller[i].pc = "reschedule" /\ poller[i].left = {}
    /\ poller' = [poller EXCEPT ![i].pc = "fetch", ![i].left = poller[i].found]
    /\ UNCHANGED <<remote, version, configs, docs, user, exported, faulty>>
-----------------------------------------------------------------------------
(* doImport: fetchBundle, then ImportBundle, for each configuration.       *)

\* Mutant: the bundle of one configuration is still there for the next.
NextConfigKeeps(i) == poller' = [poller EXCEPT ![i].pc = "fetch"]

NextConfig(i) ==
    poller' = [poller EXCEPT ![i].pc = "fetch", ![i].bundle = NoBundle]

FetchBundle(i, c) ==
    LET p == remote[c.policy]
        b == ExportBundle(c.policy, p, version)
    IN  /\ poller[i].pc = "fetch" /\ c \in poller[i].left
        /\ IF Exportable(p)
           THEN \E got \in {b} \cup (IF faulty THEN {Damaged(b)} ELSE {}) :
                  poller' = [poller EXCEPT ![i].pc = "verify", ![i].left = @ \ {c},
                                           ![i].bundle = got]
           ELSE Take(i, c)
        /\ UNCHANGED <<remote, version, configs, docs, user, exported, faulty>>

FetchFails(i, c) ==
    /\ faulty
    /\ poller[i].pc = "fetch" /\ c \in poller[i].left
    /\ Take(i, c)
    /\ UNCHANGED <<remote, version, configs, docs, user, exported, faulty>>

\* The policy a fetched bundle is about, and whose public key URL it names.
PolicyOf(b) == ContentOf(b.files, "metadata.json").policy

\* PolicyPublicKey answers with the key of the export configuration of now.
Verify(i) ==
    LET p == remote[PolicyOf(poller[i].bundle)]
    IN  /\ poller[i].pc = "verify"
        /\ IF Exportable(p) /\ verifyBundle(poller[i].bundle, SigningKey(p, version))
           THEN poller' = [poller EXCEPT ![i].pc = "save"]
           ELSE NextConfig(i)
        /\ UNCHANGED <<remote, version, configs, docs, user, exported, faulty>>

SavePolicy(i) ==
    LET k == PolicyOf(poller[i].bundle)
    IN  /\ poller[i].pc = "save"
        /\ docs' = [docs EXCEPT ![k] = Saved(policyFromBundle(poller[i].bundle.files), @)]
        /\ NextConfig(i)
        /\ UNCHANGED <<remote, version, configs, user, exported, faulty>>

\* The key cannot be fetched, or the policy not be saved.
ImportFails(i) ==
    /\ faulty
    /\ poller[i].pc \in {"verify", "save"}
    /\ NextConfig(i)
    /\ UNCHANGED <<remote, version, configs, docs, user, exported, faulty>>

\* Mutant: the next round starts with the configurations of this one.
EndRoundAgain(i) ==
    /\ poller[i].pc = "fetch" /\ poller[i].left = {}
    /\ poller' = [poller EXCEPT ![i].left = poller[i].found]
    /\ UNCHANGED <<remote, version, configs, docs, user, exported, faulty>>

EndRound(i) ==
    /\ poller[i].pc = "fetch" /\ poller[i].left = {}
    /\ poller' = [poller EXCEPT ![i] = PollerIdle]
    /\ UNCHANGED <<remote, version, configs, docs, user, exported, faulty>>

\* The query or the commit fails, or the process dies: what has been rescheduled
\* stays so, and is not imported in this round.
AbortRound(i) ==
    /\ faulty
    /\ poller[i].pc # "idle"
    /\ poller' = [poller EXCEPT ![i] = PollerIdle]
    /\ UNCHANGED <<remote, version, configs, docs, user, exported, faulty>>
-----------------------------------------------------------------------------
(* The exporting agent and the clock.                                      *)

Publish(k, p) ==
    /\ remote' = [remote EXCEPT ![k] = p]
    /\ exported' = [exported EXCEPT ![k] = @ \cup {p}]
    /\ UNCHANGED <<version, configs, docs, poller, user, faulty>>

RotateKeys ==
    /\ version < MaxRotations
    /\ version' = version + 1
    /\ UNCHANGED <<remote, configs, docs, poller, user, exported, faulty>>

Tick(k) ==
    /\ \E c \in ConfigsOf(k) :
         /\ c.next = "later"
         /\ configs' = (configs \ {c}) \cup {[c EXCEPT !.next = "due"]}
    /\ UNCHANGED <<remote, version, docs, poller, user, exported, faulty>>

FaultsCease ==
    /\ faulty
    /\ faulty' = FALSE
    /\ UNCHANGED <<remote, version, configs, docs, poller, user, exported>>
-----------------------------------------------------------------------------
Round(i) ==
    \/ FindActive(i) \/ CommitTransaction(i) \/ Verify(i) \/ SavePolicy(i) \/ EndRound(i)
    \/ \E c \in Found : updateAutoImportNextInterval(i, c) \/ FetchBundle(i, c)

Fault ==
    \/ \E u \in Users : RequestFails(u)
    \/ \E i \in Pollers :
         \/ ImportFails(i) \/ AbortRound(i)
         \/ \E c \in Found : RescheduleFails(i, c) \/ FetchFails(i, c)

Respond(u) == InsertConfig(u) \/ DeleteAutoImportConfig(u)

Next ==
    \/ \E i \in Pollers : Round(i)
    \/ \E u \in Users : Respond(u) \/ \E k \in Policies : SetPolicyAutoImport(u, k) \/ DeletePolicyAutoImport(u, k)
    \/ \E k \in Policies :
         \/ Tick(k)
         \/ \E lock \in BOOLEAN : SetPolicyLock(k, lock)
         \/ \E p \in Published : Publish(k, p)
    \/ RotateKeys
    \/ Fault
    \/ FaultsCease

AutoImportSafety == Init /\ [][Next]_vars

\* Pollers poll and requests are answered, time passes, and faults cease.
AutoImportSpec ==
    /\ AutoImportSafety
    /\ \A i \in Pollers : WF_vars(Round(i))
    /\ \A u \in Users : WF_vars(Respond(u))
    /\ \A k \in Policies : WF_vars(Tick(k))
    /\ WF_vars(FaultsCease)
-----------------------------------------------------------------------------
\* A stored policy has, file for file, what the exporting agent held for that
\* policy at some time: neither files lost on the way nor the files of another policy
\* get through the digest that verifyBundle compares, whatever was published, rotated
\* or saved by another process since the bundle was fetched.
OnlyExported ==
    \A k \in Policies :
        docs[k] # NoPolicy => \E p \in exported[k] : SameFiles(docs[k], p)

\* A configuration that was deleted while a poller was about to reschedule it does
\* not come back: only a request to the endpoint creates one.
DeletedStaysDeleted ==
    [][\A k \in Policies :
         Configured(k)' /\ ~Configured(k)
            => \E u \in Users : user[u] = [pc |-> "insert", policy |-> k]]_vars

Reconfigures(k) == \E u \in Users : SetPolicyAutoImport(u, k)

\* A policy that stays configured and published as it is ends up stored as it is,
\* however many rounds were aborted after they had rescheduled it, and although
\* another process may still save an older bundle.  Each reconfiguration puts the
\* next import off by an interval, so these have to end.
ImportsConverge ==
    \A k \in Policies, p \in Published :
        (/\ <>[](Configured(k) /\ remote[k] = p /\ Exportable(p))
         /\ <>[][~Reconfigures(k)]_vars)
            => <>[]SameFiles(docs[k], p)

Saves(i, k) == SavePolicy(i) /\ PolicyOf(poller[i].bundle) = k

\* Once a policy is no longer configured, the rounds that still hold its
\* configuration end, and nothing is imported for it any more.
ImportsStop ==
    \A k \in Policies :
        <>[]~Configured(k) => <>[][~\E i \in Pollers : Saves(i, k)]_vars
=============================================================================
