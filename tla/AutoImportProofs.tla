--------------------------- MODULE AutoImportProofs ---------------------------
(* Proofs about AutoImport, for every number of policies, pollers, users   *)
(* and configurations.                                                     *)
EXTENDS AutoImport, TLAPS

(* What ImportBundle unpacks is what ExportBundle packed.                  *)

\* Where the last file of a name is, there is its content.
LEMMA ContentAt ==
    ASSUME NEW S, NEW fs \in Seq(S), NEW n \in 1..Len(fs),
           \A m \in 1..Len(fs) : m > n => fs[m].name # fs[n].name
    PROVE  ContentOf(fs, fs[n].name) = fs[n].content
<1> DEFINE at == {m \in 1..Len(fs) : fs[m].name = fs[n].name}
           last == CHOOSE m \in at : \A o \in at : o <= m
<1>1. n \in at /\ (\A o \in at : o <= n)
  OBVIOUS
<1>2. last \in at /\ (\A o \in at : o <= last)
  BY <1>1
<1>3. last = n
  BY <1>1, <1>2
<1> QED
  BY <1>1, <1>3 DEF ContentOf

\* A file that is missing has no content.
LEMMA ContentMissing ==
    ASSUME NEW S, NEW fs \in Seq(S), NEW name,
           \A m \in 1..Len(fs) : fs[m].name # name
    PROVE  ContentOf(fs, name) = ""
  BY DEF ContentOf

\* Of the files of one name there is a last one.
HasLast(fs) ==
    \A n \in 1..Len(fs) : \E m \in 1..Len(fs) :
        /\ fs[m].name = fs[n].name
        /\ \A o \in 1..Len(fs) : fs[o].name = fs[n].name => o <= m

\* gs has the file that Optional adds to fs, and otherwise the files of fs.
Adds(gs, fs, S, name, content) ==
    /\ gs \in Seq(S) /\ HasLast(gs)
    /\ ContentOf(gs, name) = IF Blank(content) THEN ContentOf(fs, name) ELSE content
    /\ \A n : n # name => ContentOf(gs, n) = ContentOf(fs, n)

\* A packed file is found again, and hides no other.
LEMMA OptionalContent ==
    ASSUME NEW S, NEW fs \in Seq(S), NEW name, NEW content, File(name, content) \in S,
           HasLast(fs)
    PROVE  Adds(Optional(fs, name, content), fs, S, name, content)
<1> DEFINE f == File(name, content)
           gs == Append(fs, f)
<1>f. f.name = name /\ f.content = content
  BY DEF File
<1>0. CASE Blank(content)
  BY <1>0 DEF Optional, Adds
<1>1. CASE ~Blank(content)
  <2>1. /\ gs \in Seq(S) /\ Len(gs) = Len(fs) + 1 /\ gs[Len(gs)] = f
        /\ \A m \in 1..Len(fs) : gs[m] = fs[m]
    OBVIOUS
  <2>2. ContentOf(gs, name) = content
    <3> HIDE DEF f, gs
    <3>1. Len(gs) \in 1..Len(gs)
      BY <2>1
    <3> QED
      BY <1>f, <2>1, <3>1, ContentAt
  <2>3. ASSUME NEW n, n # name PROVE ContentOf(gs, n) = ContentOf(fs, n)
    <3> HIDE DEF f, gs
    <3>1. {m \in 1..Len(gs) : gs[m].name = n} = {m \in 1..Len(fs) : fs[m].name = n}
      BY <1>f, <2>1, <2>3
    <3>2. \A m \in {k \in 1..Len(fs) : fs[k].name = n} : gs[m] = fs[m]
      BY <2>1
    <3> DEFINE at == {m \in 1..Len(fs) : fs[m].name = n}
    <3>3. CASE at = {}
      BY <3>1, <3>3 DEF ContentOf
    <3>4. CASE at # {}
      <4>1. ContentOf(gs, n) = gs[CHOOSE m \in at : \A o \in at : o <= m].content
        BY <3>1, <3>4 DEF ContentOf
      <4>2. ContentOf(fs, n) = fs[CHOOSE m \in at : \A o \in at : o <= m].content
        BY <3>4 DEF ContentOf
      <4>3. at \subseteq 1..Len(fs) /\ at # {}
        BY <3>4
      <4>4. (CHOOSE m \in at : \A o \in at : o <= m) \in at
        <5>0. PICK q \in 1..Len(fs) : fs[q].name = n
          BY <3>4
        <5>2. PICK l \in 1..Len(fs) :
                /\ fs[l].name = fs[q].name
                /\ \A o \in 1..Len(fs) : fs[o].name = fs[q].name => o <= l
          BY <5>0 DEF HasLast
        <5>1. \E m \in at : \A o \in at : o <= m
          BY <5>0, <5>2
        <5> HIDE DEF at
        <5> QED
          BY <5>1
      <4> QED
        BY <3>2, <4>1, <4>2, <4>4
    <3> QED
      BY <3>3, <3>4
  <2>5. HasLast(gs)
    <3> HIDE DEF f, gs
    <3>1. Len(gs) \in 1..Len(gs) /\ 1..Len(gs) = 1..Len(fs) \cup {Len(gs)}
      BY <2>1
    <3> SUFFICES ASSUME NEW n \in 1..Len(gs)
                 PROVE  \E m \in 1..Len(gs) :
                          /\ gs[m].name = gs[n].name
                          /\ \A o \in 1..Len(gs) : gs[o].name = gs[n].name => o <= m
      BY DEF HasLast
    <3>2. CASE gs[n].name = name
      BY <1>f, <2>1, <3>1, <3>2
    <3>3. CASE gs[n].name # name
      <4>1. n \in 1..Len(fs) /\ gs[n] = fs[n]
        BY <1>f, <2>1, <3>1, <3>3
      <4>2. PICK l \in 1..Len(fs) :
                /\ fs[l].name = fs[n].name
                /\ \A o \in 1..Len(fs) : fs[o].name = fs[n].name => o <= l
        BY <4>1 DEF HasLast
      <4>3. gs[l] = fs[l] /\ l \in 1..Len(gs) /\ gs[l].name = gs[n].name
        BY <2>1, <3>1, <4>1, <4>2
      <4>4. ASSUME NEW o \in 1..Len(gs), gs[o].name = gs[n].name PROVE o <= l
        <5>1. o \in 1..Len(fs) /\ gs[o] = fs[o]
          BY <1>f, <2>1, <3>1, <3>3, <4>4
        <5> QED
          BY <4>1, <4>2, <4>4, <5>1
      <4> QED
        BY <4>3, <4>4
    <3> QED
      BY <3>2, <3>3
  <2> HIDE DEF gs
  <2>4. Optional(fs, name, content) = gs
    BY <1>1 DEF Optional, gs
  <2> QED
    BY <1>1, <2>1, <2>2, <2>3, <2>4, <2>5 DEF Adds
<1> QED
  BY <1>0, <1>1

\* The optional files are found again after whatever was packed before them.
LEMMA AllOptional ==
    ASSUME NEW S, NEW s0 \in Seq(S), HasLast(s0), NEW data, NEW config, NEW schema, NEW export,
           File("data.json", data) \in S, File("data-config.json", config) \in S,
           File("output-schema.json", schema) \in S,
           File("export-config.json", export) \in S,
           NEW s1, s1 = Optional(s0, "data.json", data),
           NEW s2, s2 = Optional(s1, "data-config.json", config),
           NEW s3, s3 = Optional(s2, "output-schema.json", schema),
           NEW s4, s4 = Optional(s3, "export-config.json", export)
    PROVE  /\ ContentOf(s4, "data.json") =
                IF Blank(data) THEN ContentOf(s0, "data.json") ELSE data
           /\ ContentOf(s4, "data-config.json") =
                IF Blank(config) THEN ContentOf(s0, "data-config.json")
                                       ELSE config
           /\ ContentOf(s4, "output-schema.json") =
                IF Blank(schema) THEN ContentOf(s0, "output-schema.json")
                                         ELSE schema
           /\ ContentOf(s4, "export-config.json") =
                IF Blank(export) THEN ContentOf(s0, "export-config.json")
                                         ELSE export
           /\ \A n : n \notin {"data.json", "data-config.json", "output-schema.json",
                               "export-config.json"}
                => ContentOf(s4, n) = ContentOf(s0, n)
<1>1. Adds(s1, s0, S, "data.json", data)
  BY OptionalContent
<1>2. Adds(s2, s1, S, "data-config.json", config)
  <2>1. s1 \in Seq(S) /\ HasLast(s1)
    BY <1>1 DEF Adds
  <2> QED
    BY <2>1, OptionalContent
<1>3. Adds(s3, s2, S, "output-schema.json", schema)
  <2>1. s2 \in Seq(S) /\ HasLast(s2)
    BY <1>2 DEF Adds
  <2> QED
    BY <2>1, OptionalContent
<1>4. Adds(s4, s3, S, "export-config.json", export)
  <2>1. s3 \in Seq(S) /\ HasLast(s3)
    BY <1>3 DEF Adds
  <2> QED
    BY <2>1, OptionalContent
<1> QED
  BY <1>1, <1>2, <1>3, <1>4 DEF Adds

\* What was packed is unpacked, blank optional files being empty.
LEMMA Unpacked ==
    ASSUME NEW k, NEW p
    PROVE  LET fs == createPolicyBundle(k, p)
           IN  /\ ContentOf(fs, "metadata.json") = createMetadata(k, p)
               /\ ContentOf(fs, "policy.rego") = p.rego
               /\ ContentOf(fs, "data.json") = Arriving(p.data)
               /\ ContentOf(fs, "data-config.json") = Arriving(p.dataConfig)
               /\ ContentOf(fs, "output-schema.json") = Arriving(p.outputSchema)
<1> DEFINE f1 == File("metadata.json", createMetadata(k, p))
           f2 == File("policy.rego", p.rego)
           S == {f1, f2, File("data.json", p.data), File("data-config.json", p.dataConfig),
                 File("output-schema.json", p.outputSchema),
                 File("export-config.json", p.exportConfig)}
           s0 == <<f1, f2>>
           s1 == Optional(s0, "data.json", p.data)
           s2 == Optional(s1, "data-config.json", p.dataConfig)
           s3 == Optional(s2, "output-schema.json", p.outputSchema)
           s4 == Optional(s3, "export-config.json", p.exportConfig)
<1>1. s0 \in Seq(S) /\ Len(s0) = 2 /\ s0[1] = f1 /\ s0[2] = f2
  OBVIOUS
<1>2. /\ f1.name = "metadata.json" /\ f1.content = createMetadata(k, p)
      /\ f2.name = "policy.rego" /\ f2.content = p.rego
  BY DEF File
<1>3. s4 = createPolicyBundle(k, p)
  BY DEF createPolicyBundle
<1>4. /\ File("data.json", p.data) \in S /\ File("data-config.json", p.dataConfig) \in S
      /\ File("output-schema.json", p.outputSchema) \in S
      /\ File("export-config.json", p.exportConfig) \in S
  OBVIOUS
<1>5. /\ s1 = Optional(s0, "data.json", p.data)
      /\ s2 = Optional(s1, "data-config.json", p.dataConfig)
      /\ s3 = Optional(s2, "output-schema.json", p.outputSchema)
      /\ s4 = Optional(s3, "export-config.json", p.exportConfig)
  OBVIOUS
<1> HIDE DEF f1, f2, S, s0, s1, s2, s3, s4
<1>6. HasLast(s0)
  BY <1>1, <1>2 DEF HasLast
<1>7. /\ ContentOf(s0, "metadata.json") = createMetadata(k, p)
      /\ ContentOf(s0, "policy.rego") = p.rego
  BY <1>1, <1>2, ContentAt
<1>8. ASSUME NEW n, n # "metadata.json", n # "policy.rego" PROVE ContentOf(s0, n) = ""
  <2>1. \A m \in 1..Len(s0) : s0[m].name # n
    BY <1>1, <1>2, <1>8
  <2> QED
    BY <1>1, <2>1, ContentMissing
<1>9. s0 \in Seq(S)
  BY <1>1
<1>10. /\ ContentOf(s4, "data.json") =
            IF Blank(p.data) THEN ContentOf(s0, "data.json") ELSE p.data
       /\ ContentOf(s4, "data-config.json") =
            IF Blank(p.dataConfig) THEN ContentOf(s0, "data-config.json") ELSE p.dataConfig
       /\ ContentOf(s4, "output-schema.json") =
            IF Blank(p.outputSchema) THEN ContentOf(s0, "output-schema.json")
                                     ELSE p.outputSchema
       /\ \A n : n \notin {"data.json", "data-config.json", "output-schema.json",
                           "export-config.json"}
                => ContentOf(s4, n) = ContentOf(s0, n)
  BY <1>4, <1>5, <1>6, <1>9, AllOptional
<1> QED
  BY <1>3, <1>7, <1>8, <1>10 DEF Arriving
-----------------------------------------------------------------------------
(* The configurations, the endpoints and ActiveImportConfigs.              *)

\* The types of what the configuration endpoints and ActiveImportConfigs write.
ConfigsTyped ==
    /\ configs \subseteq Config
    /\ \A c, e \in configs : c.id = e.id => c = e
    /\ user \in [Users -> User]

\* The steps that leave the configurations and the requests alone.
LEMMA OtherSteps ==
    ASSUME NEW i \in Pollers
    PROVE  /\ FindActive(i) \/ CommitTransaction(i) \/ Verify(i) \/ SavePolicy(i)
              \/ EndRound(i) \/ ImportFails(i) \/ AbortRound(i)
                 => UNCHANGED <<configs, user>>
           /\ \A c \in Found : FetchBundle(i, c) \/ RescheduleFails(i, c) \/ FetchFails(i, c)
                 => UNCHANGED <<configs, user>>
  BY DEF FindActive, CommitTransaction, Verify, SavePolicy, EndRound, ImportFails,
     AbortRound, FetchBundle, RescheduleFails, FetchFails

\* One is inserted for a request that found none.
Inserts(u) ==
    /\ user[u].pc = "insert"
    /\ \E id \in Ids \ {c.id : c \in configs} :
         configs' = configs \cup {[id |-> id, policy |-> user[u].policy, next |-> "later"]}

\* Nothing is added.
Shrinks == configs' \subseteq configs

\* c with another next import.
Moved(c, next) == [c EXCEPT !.next = next]

\* Each gets the next import that to gives it.
MovedTo(to) == configs' = {Moved(c, to[c]) : c \in configs}

Reschedules == \E to \in [configs -> {"due", "later"}] : MovedTo(to)

\* A single one that moves.
LEMMA OneMoves ==
    ASSUME NEW c \in configs, NEW next \in {"due", "later"},
           \A e \in configs : e.next \in {"due", "later"} /\ e = Moved(e, e.next),
           configs' = (configs \ {c}) \cup {Moved(c, next)}
    PROVE  Reschedules
<1> DEFINE to == [e \in configs |-> IF e = c THEN next ELSE e.next]
<1>1. to \in [configs -> {"due", "later"}] /\ MovedTo(to)
  BY DEF MovedTo
<1> QED
  BY <1>1 DEF Reschedules

\* Every step does one of these.
LEMMA ConfigSteps ==
    ASSUME ConfigsTyped, [Next]_vars
    PROVE  (\E u \in Users : Inserts(u)) \/ Shrinks \/ Reschedules
<1>1. ASSUME NEW u \in Users, NEW k \in Policies, SetPolicyAutoImport(u, k)
      PROVE  Shrinks \/ Reschedules
  <2>1. CASE UNCHANGED configs
    BY <2>1 DEF Shrinks
  <2>2. ASSUME NEW c \in ConfigsOf(k),
               configs' = (configs \ {c}) \cup {[c EXCEPT !.next = "later"]}
        PROVE  Reschedules
    <3>1. \A e \in configs : e.next \in {"due", "later"} /\ e = Moved(e, e.next)
      BY DEF ConfigsTyped, Config, Moved
    <3>2. configs' = (configs \ {c}) \cup {Moved(c, "later")}
      BY <2>2 DEF Moved
    <3> QED
      BY <2>2, <3>1, <3>2, OneMoves DEF ConfigsOf
  <2> QED
    BY <1>1, <2>1, <2>2 DEF SetPolicyAutoImport
<1>2. ASSUME NEW u \in Users, InsertConfig(u) PROVE Inserts(u)
  BY <1>2 DEF InsertConfig, Insert, FreshIds, Inserts
<1>3. ASSUME NEW u \in Users, DeleteAutoImportConfig(u) PROVE Shrinks
  BY <1>3 DEF DeleteAutoImportConfig, Shrinks
<1>4. ASSUME NEW i \in Pollers, NEW c \in Found, updateAutoImportNextInterval(i, c)
      PROVE  Reschedules
  <2>1. configs' = {IF e.id = c.id THEN Moved(e, "later") ELSE e : e \in configs}
    BY <1>4 DEF updateAutoImportNextInterval, Moved
  <2>2. \A e \in configs : e.next \in {"due", "later"} /\ e = Moved(e, e.next)
    BY DEF ConfigsTyped, Config, Moved
  <2> DEFINE to == [e \in configs |-> IF e.id = c.id THEN "later" ELSE e.next]
  <2>3. to \in [configs -> {"due", "later"}] /\ MovedTo(to)
    BY <2>1, <2>2 DEF MovedTo
  <2> QED
    BY <2>3 DEF Reschedules
<1>5. ASSUME NEW k \in Policies, Tick(k) PROVE Reschedules
  <2>1. PICK c \in ConfigsOf(k) :
          configs' = (configs \ {c}) \cup {Moved(c, "due")}
    BY <1>5 DEF Tick, Moved
  <2>2. \A e \in configs : e.next \in {"due", "later"} /\ e = Moved(e, e.next)
    BY DEF ConfigsTyped, Config, Moved
  <2> QED
    BY <2>1, <2>2, OneMoves DEF ConfigsOf
<1>6. ASSUME UNCHANGED configs PROVE Shrinks
  BY <1>6 DEF Shrinks
<1>7. ASSUME NEW i \in Pollers, Round(i) PROVE Shrinks \/ Reschedules
  BY <1>4, <1>6, <1>7, OtherSteps DEF Round
<1>8. ASSUME Fault PROVE Shrinks
  BY <1>6, <1>8, OtherSteps DEF Fault, RequestFails
<1>9. ASSUME NEW u \in Users, NEW k \in Policies, DeletePolicyAutoImport(u, k) PROVE Shrinks
  BY <1>6, <1>9 DEF DeletePolicyAutoImport
<1>10. ASSUME NEW k \in Policies, NEW lock \in BOOLEAN, SetPolicyLock(k, lock) PROVE Shrinks
  BY <1>6, <1>10 DEF SetPolicyLock
<1>11. ASSUME NEW k \in Policies, NEW p \in Published, Publish(k, p) PROVE Shrinks
  BY <1>6, <1>11 DEF Publish
<1>12. ASSUME RotateKeys \/ FaultsCease \/ UNCHANGED vars PROVE Shrinks
  BY <1>6, <1>12 DEF RotateKeys, FaultsCease, vars
<1> QED
  BY <1>1, <1>2, <1>3, <1>5, <1>7, <1>8, <1>9, <1>10, <1>11, <1>12 DEF Next, Respond

\* Initially there are no configurations, and all slots are free.
LEMMA InitTyped == Init => ConfigsTyped
<1>1. (CHOOSE k \in Policies : TRUE) \in Policies
  BY AutoImportAssumption
<1> QED
  BY <1>1 DEF Init, ConfigsTyped, UserIdle, User

\* The requests keep their types, since all but three steps leave them alone.
LEMMA UserSteps ==
    ASSUME ConfigsTyped, [Next]_vars
    PROVE  user' \in [Users -> User]
<1>u. user \in [Users -> User]
  BY DEF ConfigsTyped
<1>i. UserIdle \in User
  <2>1. (CHOOSE k \in Policies : TRUE) \in Policies
    BY AutoImportAssumption
  <2> QED
    BY <2>1 DEF UserIdle, User
<1>0. ASSUME UNCHANGED user PROVE user' \in [Users -> User]
  BY <1>u, <1>0
<1>a. ASSUME NEW u \in Users, Answer(u) PROVE user' \in [Users -> User]
  BY <1>a, <1>i, <1>u DEF Answer
<1>1. ASSUME NEW u \in Users, NEW k \in Policies,
             SetPolicyAutoImport(u, k) \/ DeletePolicyAutoImport(u, k)
      PROVE  user' \in [Users -> User]
  <2>1. /\ [pc |-> "insert", policy |-> k] \in User
        /\ [pc |-> "delete", policy |-> k] \in User
    BY DEF User
  <2> QED
    BY <1>0, <1>1, <1>u, <2>1 DEF SetPolicyAutoImport, DeletePolicyAutoImport
<1>2. ASSUME NEW u \in Users, Respond(u) \/ RequestFails(u) PROVE user' \in [Users -> User]
  BY <1>a, <1>2 DEF Respond, InsertConfig, DeleteAutoImportConfig, RequestFails
<1>3. ASSUME NEW i \in Pollers, Round(i) PROVE user' \in [Users -> User]
  BY <1>0, <1>3, OtherSteps DEF Round, updateAutoImportNextInterval
<1>4. ASSUME NEW k \in Policies, Tick(k) \/ (\E lock \in BOOLEAN : SetPolicyLock(k, lock))
                                         \/ (\E p \in Published : Publish(k, p))
      PROVE  user' \in [Users -> User]
  BY <1>0, <1>4 DEF Tick, SetPolicyLock, Publish
<1>5. ASSUME RotateKeys \/ FaultsCease \/ UNCHANGED vars PROVE user' \in [Users -> User]
  BY <1>0, <1>5 DEF RotateKeys, FaultsCease, vars
<1>6. ASSUME Fault PROVE user' \in [Users -> User]
  BY <1>0, <1>2, <1>6, OtherSteps DEF Fault
<1> QED
  BY <1>1, <1>2, <1>3, <1>4, <1>5, <1>6 DEF Next

\* The types are inductive.
LEMMA NextTyped == ConfigsTyped /\ [Next]_vars => ConfigsTyped'
<1> SUFFICES ASSUME ConfigsTyped, [Next]_vars PROVE ConfigsTyped'
  OBVIOUS
<1>1. ASSUME NEW u \in Users, Inserts(u) PROVE ConfigsTyped'
  <2>1. user[u].policy \in Policies
    BY DEF ConfigsTyped, User
  <2>2. PICK id \in Ids \ {c.id : c \in configs} :
          configs' = configs \cup {[id |-> id, policy |-> user[u].policy, next |-> "later"]}
    BY <1>1 DEF Inserts
  <2>3. configs' \subseteq Config
    BY <2>1, <2>2 DEF ConfigsTyped, Config
  <2>4. \A c, e \in configs' : c.id = e.id => c = e
    BY <2>2 DEF ConfigsTyped
  <2> QED
    BY <2>3, <2>4, UserSteps DEF ConfigsTyped
<1>2. CASE Shrinks
  BY <1>2, UserSteps DEF Shrinks, ConfigsTyped
<1>3. CASE Reschedules
  <2>1. \A c \in configs, next \in {"due", "later"} :
          Moved(c, next) \in Config /\ Moved(c, next).id = c.id
    BY DEF ConfigsTyped, Config, Moved
  <2>2. PICK to \in [configs -> {"due", "later"}] : MovedTo(to)
    BY <1>3 DEF Reschedules
  <2>3. \A c \in configs : to[c] \in {"due", "later"}
    BY <2>2
  <2>4. configs' \subseteq Config
    BY <2>1, <2>2, <2>3 DEF MovedTo
  <2>5. ASSUME NEW c \in configs', NEW e \in configs', c.id = e.id PROVE c = e
    <3>1. PICK c0 \in configs : c = Moved(c0, to[c0])
      BY <2>2 DEF MovedTo
    <3>2. PICK e0 \in configs : e = Moved(e0, to[e0])
      BY <2>2 DEF MovedTo
    <3>3. c0.id = e0.id
      BY <2>1, <2>3, <2>5, <3>1, <3>2
    <3> QED
      BY <3>1, <3>2, <3>3 DEF ConfigsTyped
  <2> QED
    BY <2>4, <2>5, UserSteps DEF ConfigsTyped
<1> QED
  BY <1>1, <1>2, <1>3, ConfigSteps

\* The configurations are well formed whatever pollers and users do.
THEOREM ConfigsAreTyped == AutoImportSafety => []ConfigsTyped
  BY InitTyped, NextTyped, PTL DEF AutoImportSafety

\* A poller that reschedules a configuration never brings a deleted one back: for
\* any number of pollers, users and configurations of the same policy, one appears
\* only by the insert of a request that found none.
THEOREM DeletedStays == AutoImportSafety => DeletedStaysDeleted
<1>1. ConfigsTyped /\ [Next]_vars =>
        [\A k \in Policies :
           Configured(k)' /\ ~Configured(k)
              => \E u \in Users : user[u] = [pc |-> "insert", policy |-> k]]_vars
  <2> SUFFICES ASSUME ConfigsTyped, [Next]_vars, NEW k \in Policies,
                      Configured(k)', ~Configured(k)
               PROVE  \E u \in Users : user[u] = [pc |-> "insert", policy |-> k]
    OBVIOUS
  <2>1. PICK e \in configs' : e.policy = k
    BY DEF Configured, ConfigsOf
  <2>2. \A c \in configs : c.policy # k
    BY DEF Configured, ConfigsOf
  <2>3. ASSUME Shrinks PROVE FALSE
    BY <2>1, <2>2, <2>3 DEF Shrinks
  <2>4. ASSUME Reschedules PROVE FALSE
    <3>1. \A c \in configs, next \in {"due", "later"} : Moved(c, next).policy = c.policy
      BY DEF ConfigsTyped, Config, Moved
    <3>2. PICK to \in [configs -> {"due", "later"}] : MovedTo(to)
      BY <2>4 DEF Reschedules
    <3>3. PICK c \in configs : e = Moved(c, to[c])
      BY <3>2 DEF MovedTo
    <3>4. to[c] \in {"due", "later"}
      BY <3>2
    <3> QED
      BY <2>1, <2>2, <3>1, <3>3, <3>4
  <2>5. PICK u \in Users : Inserts(u)
    BY <2>3, <2>4, ConfigSteps
  <2>6. user[u].policy = k
    BY <2>1, <2>2, <2>5 DEF Inserts
  <2>7. user[u].pc = "insert" /\ user[u] \in User
    BY <2>5 DEF Inserts, ConfigsTyped
  <2>8. user[u] = [pc |-> "insert", policy |-> k]
    BY <2>6, <2>7 DEF User
  <2> QED
    BY <2>8
<1> QED
  BY <1>1, ConfigsAreTyped, PTL DEF AutoImportSafety, DeletedStaysDeleted
-----------------------------------------------------------------------------
(* The rounds of the pollers.                                              *)

\* The exporting agent held what it holds.
RemoteExported == \A k \in Policies : remote[k] \in exported[k]

\* The types of everything but configurations and requests.
RoundsTyped ==
    /\ remote \in [Policies -> Published]
    /\ version \in 0..MaxRotations
    /\ docs \in [Policies -> Policy \cup {NoPolicy}]
    /\ poller \in [Pollers -> Poller]
    /\ \A i \in Pollers :
         /\ poller[i].left \subseteq poller[i].found
         /\ poller[i].bundle = NoBundle <=> poller[i].pc \notin {"verify", "save"}
    /\ exported \in [Policies -> SUBSET Published]
    /\ faulty \in BOOLEAN

\* A poller verifies only what was signed for a policy the exporting agent held,
\* and what it is about to save is what was signed: the policy is unpacked from the
\* archive after verifyBundle, without another look at the signature.
SignedForExport ==
    \A i \in Pollers :
        /\ poller[i].pc \in {"verify", "save"} =>
             \E k \in Policies : \E p \in exported[k] :
                poller[i].bundle.digest = createPolicyBundle(k, p)
        /\ poller[i].pc = "save" => poller[i].bundle.files = poller[i].bundle.digest

\* The inductive invariant.
ImportInv == RoundsTyped /\ RemoteExported /\ SignedForExport /\ OnlyExported

\* What is fetched was signed for export, damaged or not.
LEMMA FetchedBundle ==
    ASSUME NEW k \in Policies, NEW p \in Published, NEW v \in 0..MaxRotations,
           NEW b \in {ExportBundle(k, p, v), Damaged(ExportBundle(k, p, v))}
    PROVE  b \in Bundle /\ b # NoBundle /\ b.digest = createPolicyBundle(k, p)
<1>1. ExportBundle(k, p, v).digest = createPolicyBundle(k, p)
  BY DEF ExportBundle
<1>2. Damaged(ExportBundle(k, p, v)).digest = createPolicyBundle(k, p)
  BY DEF Damaged, ExportBundle
<1>3. b \in Bundle
  BY DEF Bundle
<1> QED
  BY <1>1, <1>2, <1>3, AutoImportAssumption

\* What is saved of a genuine bundle has the files of the exported policy.
LEMMA SavedFiles ==
    ASSUME NEW k, NEW p \in Policy, NEW old \in Policy \cup {NoPolicy}
    PROVE  LET d == Saved(policyFromBundle(createPolicyBundle(k, p)), old)
           IN  /\ d \in Policy
               /\ d # NoPolicy => SameFiles(d, p)
<1> DEFINE fs == createPolicyBundle(k, p)
           unpacked == policyFromBundle(fs)
           kept == IF old = NoPolicy THEN "" ELSE old.exportConfig
           d == [locked |-> p.locked, rego |-> p.rego, data |-> Arriving(p.data),
                 dataConfig |-> Arriving(p.dataConfig),
                 outputSchema |-> Arriving(p.outputSchema), exportConfig |-> kept]
<1>1. ContentOf(fs, "metadata.json").locked = p.locked
  BY Unpacked DEF createMetadata
<1>2. unpacked = [locked |-> p.locked, rego |-> p.rego, data |-> Arriving(p.data),
                  dataConfig |-> Arriving(p.dataConfig),
                  outputSchema |-> Arriving(p.outputSchema),
                  exportConfig |-> ContentOf(fs, "export-config.json")]
  BY <1>1, Unpacked DEF policyFromBundle
<1>3. Saved(unpacked, old) = [unpacked EXCEPT !.exportConfig = kept]
  BY DEF Saved
<1>4. kept \in Contents
  BY AutoImportAssumption DEF Policy
<1>5. \A c \in Contents : Arriving(c) \in Contents
  BY AutoImportAssumption DEF Arriving
<1> HIDE DEF kept, unpacked
<1>6. Saved(unpacked, old) = d
  BY <1>2, <1>3
<1>7. d \in Policy
  BY <1>4, <1>5 DEF Policy
<1>8. d # NoPolicy => SameFiles(d, p)
  BY DEF SameFiles
<1> QED
  BY <1>6, <1>7, <1>8 DEF unpacked

\* Poller i goes on as new, and the other pollers and the exporting agent stay put.
Goes(i, new) ==
    /\ poller' = [poller EXCEPT ![i] = new]
    /\ new \in Poller
    /\ new.left \subseteq new.found
    /\ new.bundle = NoBundle <=> new.pc \notin {"verify", "save"}
    /\ UNCHANGED <<remote, version, exported, faulty>>

\* A poller that comes to carry no bundle.
Drops(i) == \E new : Goes(i, new) /\ new.pc \notin {"verify", "save"}

\* A poller that fetches a bundle signed for export, or has verified the one it has.
Carries(i) ==
    \E new : /\ Goes(i, new)
             /\ \/ /\ new.pc = "verify"
                   /\ \E k \in Policies : \E p \in exported[k] :
                        new.bundle.digest = createPolicyBundle(k, p)
                \/ /\ poller[i].pc = "verify" /\ new.pc = "save"
                   /\ new.bundle = poller[i].bundle
                   /\ new.bundle.files = new.bundle.digest

\* Every step of a poller is one of the two.
LEMMA PollerSteps ==
    ASSUME ConfigsTyped, ImportInv, NEW i \in Pollers,
           Round(i) \/ ImportFails(i) \/ AbortRound(i)
             \/ \E c \in Found : RescheduleFails(i, c) \/ FetchFails(i, c)
    PROVE  (Drops(i) \/ Carries(i)) /\ (docs' = docs \/ SavePolicy(i))
<1>t. /\ poller \in [Pollers -> Poller] /\ poller[i] \in Poller
      /\ poller[i].left \subseteq poller[i].found
      /\ poller[i].bundle = NoBundle <=> poller[i].pc \notin {"verify", "save"}
  BY DEF ImportInv, RoundsTyped
<1>0. PollerIdle \in Poller
  BY DEF PollerIdle, Poller
<1>e. ASSUME poller' = [poller EXCEPT ![i] = PollerIdle],
             UNCHANGED <<remote, version, exported, faulty>>
      PROVE  Drops(i)
  <2>1. Goes(i, PollerIdle) /\ PollerIdle.pc = "idle"
    BY <1>e, <1>0 DEF Goes, PollerIdle
  <2> QED
    BY <2>1 DEF Drops
<1>k. ASSUME NEW c \in Found, Take(i, c), poller[i].pc \in {"reschedule", "fetch"},
             UNCHANGED <<remote, version, exported, faulty>>
      PROVE  Drops(i)
  <2> DEFINE new == [poller[i] EXCEPT !.left = @ \ {c}]
  <2>1. Goes(i, new) /\ new.pc = poller[i].pc
    BY <1>k, <1>t DEF Take, Goes, Poller
  <2> QED
    BY <1>k, <2>1 DEF Drops
<1>n. ASSUME NextConfig(i), UNCHANGED <<remote, version, exported, faulty>> PROVE Drops(i)
  <2> DEFINE new == [poller[i] EXCEPT !.pc = "fetch", !.bundle = NoBundle]
  <2>1. Goes(i, new) /\ new.pc = "fetch"
    BY <1>n, <1>t DEF NextConfig, Goes, Poller
  <2> QED
    BY <2>1 DEF Drops
<1>1. ASSUME FindActive(i) PROVE Drops(i) /\ docs' = docs
  <2> DEFINE found == {[id |-> c.id, policy |-> c.policy] : c \in Active}
             new == [poller[i] EXCEPT !.pc = "reschedule", !.found = found, !.left = found]
  <2>1. found \subseteq Found
    BY DEF Active, ConfigsTyped, Config, Found
  <2>2. /\ poller[i].pc = "idle" /\ UNCHANGED <<remote, version, exported, faulty>>
        /\ poller' = [poller EXCEPT ![i].pc = "reschedule", ![i].found = found,
                                    ![i].left = found]
    BY <1>1 DEF FindActive
  <2> HIDE DEF found
  <2>3. Goes(i, new) /\ new.pc = "reschedule"
    BY <1>t, <2>1, <2>2 DEF Goes, Poller
  <2> QED
    BY <1>1, <2>3 DEF Drops, FindActive
<1>2. ASSUME CommitTransaction(i) PROVE Drops(i) /\ docs' = docs
  <2> DEFINE new == [poller[i] EXCEPT !.pc = "fetch", !.left = poller[i].found]
  <2>1. Goes(i, new) /\ new.pc = "fetch"
    BY <1>2, <1>t DEF CommitTransaction, Goes, Poller
  <2> QED
    BY <1>2, <2>1 DEF Drops, CommitTransaction
<1>3. ASSUME NEW c \in Found, updateAutoImportNextInterval(i, c) \/ RescheduleFails(i, c)
                                \/ FetchFails(i, c)
      PROVE  Drops(i) /\ docs' = docs
  BY <1>3, <1>k DEF updateAutoImportNextInterval, RescheduleFails, FetchFails
<1>4. ASSUME NEW c \in Found, FetchBundle(i, c)
      PROVE  (Drops(i) \/ Carries(i)) /\ docs' = docs
  <2> DEFINE p == remote[c.policy]
             b == ExportBundle(c.policy, p, version)
  <2>1. c.policy \in Policies /\ p \in exported[c.policy] /\ p \in Published
    BY DEF Found, ImportInv, RoundsTyped, RemoteExported
  <2>2. /\ poller[i].pc = "fetch" /\ docs' = docs
        /\ UNCHANGED <<remote, version, exported, faulty>>
    BY <1>4 DEF FetchBundle
  <2>3. CASE Take(i, c)
    BY <1>k, <2>2, <2>3
  <2>4. ASSUME NEW got \in {b, Damaged(b)},
               poller' = [poller EXCEPT ![i].pc = "verify", ![i].left = @ \ {c},
                                        ![i].bundle = got]
        PROVE  Carries(i)
    <3> DEFINE new == [poller[i] EXCEPT !.pc = "verify", !.left = @ \ {c}, !.bundle = got]
    <3>1. got \in Bundle /\ got # NoBundle /\ got.digest = createPolicyBundle(c.policy, p)
      BY <2>1, <2>4, FetchedBundle DEF ImportInv, RoundsTyped
    <3>2. poller' = [poller EXCEPT ![i] = new]
      BY <1>t, <2>4
    <3>3. new \in Poller /\ new.left \subseteq new.found /\ new.pc = "verify"
            /\ new.bundle = got
      BY <1>t, <3>1 DEF Poller
    <3> HIDE DEF new
    <3>4. Goes(i, new)
      BY <2>2, <3>1, <3>2, <3>3 DEF Goes
    <3> QED
      BY <2>1, <3>1, <3>3, <3>4 DEF Carries
  <2> QED
    BY <1>4, <2>2, <2>3, <2>4 DEF FetchBundle
<1>5. ASSUME Verify(i) PROVE (Drops(i) \/ Carries(i)) /\ docs' = docs
  <2>1. /\ poller[i].pc = "verify" /\ docs' = docs
        /\ UNCHANGED <<remote, version, exported, faulty>>
    BY <1>5 DEF Verify
  <2>2. CASE NextConfig(i)
    BY <1>n, <2>1, <2>2
  <2>3. ASSUME poller' = [poller EXCEPT ![i].pc = "save"],
               poller[i].bundle.digest = poller[i].bundle.files
        PROVE  Carries(i)
    <3> DEFINE new == [poller[i] EXCEPT !.pc = "save"]
    <3>1. Goes(i, new) /\ new.pc = "save" /\ new.bundle = poller[i].bundle
      BY <1>t, <2>1, <2>3 DEF Goes, Poller
    <3> QED
      BY <2>1, <2>3, <3>1 DEF Carries
  <2> QED
    BY <1>5, <2>1, <2>2, <2>3 DEF Verify, verifyBundle
<1>6. ASSUME SavePolicy(i) PROVE Drops(i)
  BY <1>6, <1>n DEF SavePolicy
<1>7. ASSUME ImportFails(i) PROVE Drops(i) /\ docs' = docs
  BY <1>7, <1>n DEF ImportFails
<1>8. ASSUME EndRound(i) \/ AbortRound(i) PROVE Drops(i) /\ docs' = docs
  BY <1>8, <1>e DEF EndRound, AbortRound
<1> QED
  BY <1>1, <1>2, <1>3, <1>4, <1>5, <1>6, <1>7, <1>8 DEF Round

\* Initially nothing is fetched or stored.
LEMMA InitImport == Init => ImportInv
<1> SUFFICES ASSUME Init PROVE ImportInv
  OBVIOUS
<1>1. PollerIdle \in Poller /\ PollerIdle.pc = "idle" /\ PollerIdle.bundle = NoBundle
        /\ PollerIdle.left = {}
  BY DEF PollerIdle, Poller
<1>2. RoundsTyped
  <2>1. version \in 0..MaxRotations
    <3>1. version = 0 /\ MaxRotations \in Nat
      BY AutoImportAssumption DEF Init
    <3> QED
      BY <3>1
  <2>2. /\ remote \in [Policies -> Published] /\ exported \in [Policies -> SUBSET Published]
        /\ docs \in [Policies -> Policy \cup {NoPolicy}] /\ faulty \in BOOLEAN
    BY DEF Init
  <2>3. /\ poller \in [Pollers -> Poller]
        /\ \A i \in Pollers : poller[i] = PollerIdle
    BY <1>1 DEF Init
  <2> QED
    BY <1>1, <2>1, <2>2, <2>3 DEF RoundsTyped
<1>3. RemoteExported
  BY DEF Init, RemoteExported
<1>4. SignedForExport
  BY <1>1 DEF Init, SignedForExport
<1>5. OnlyExported
  BY DEF Init, OnlyExported
<1> QED
  BY <1>2, <1>3, <1>4, <1>5 DEF ImportInv

\* The steps of the pollers keep the types, and carry only what was signed.
LEMMA PollersKeep ==
    ASSUME ImportInv, NEW i \in Pollers, Drops(i) \/ Carries(i),
           docs' \in [Policies -> Policy \cup {NoPolicy}]
    PROVE  RoundsTyped' /\ RemoteExported' /\ SignedForExport'
<1>1. PICK new : /\ Goes(i, new)
                 /\ \/ new.pc \notin {"verify", "save"}
                    \/ /\ new.pc = "verify"
                       /\ \E k \in Policies : \E p \in exported[k] :
                            new.bundle.digest = createPolicyBundle(k, p)
                    \/ /\ poller[i].pc = "verify" /\ new.pc = "save"
                       /\ new.bundle = poller[i].bundle
                       /\ new.bundle.files = new.bundle.digest
  BY DEF Drops, Carries
<1>2. /\ poller \in [Pollers -> Poller] /\ poller' = [poller EXCEPT ![i] = new]
      /\ UNCHANGED <<remote, version, exported, faulty>>
  BY <1>1 DEF Goes, ImportInv, RoundsTyped
<1>3. RoundsTyped'
  BY <1>1, <1>2 DEF Goes, ImportInv, RoundsTyped
<1>4. RemoteExported'
  BY <1>2 DEF ImportInv, RemoteExported
<1>5. SignedForExport'
  <2>1. ASSUME NEW j \in Pollers, j # i
        PROVE  poller'[j] = poller[j]
    BY <1>2, <2>1
  <2>2. poller'[i] = new
    BY <1>2
  <2>3. new.pc = "verify" => \E k \in Policies : \E p \in exported[k] :
                                new.bundle.digest = createPolicyBundle(k, p)
    BY <1>1
  <2>4. new.pc = "save" => /\ new.bundle.files = new.bundle.digest
                           /\ \E k \in Policies : \E p \in exported[k] :
                                new.bundle.digest = createPolicyBundle(k, p)
    BY <1>1 DEF ImportInv, SignedForExport
  <2> QED
    BY <1>2, <2>1, <2>2, <2>3, <2>4 DEF ImportInv, SignedForExport
<1> QED
  BY <1>3, <1>4, <1>5

\* A policy that is saved is one that was exported under its name.
LEMMA SaveKeeps ==
    ASSUME ImportInv, NEW i \in Pollers, SavePolicy(i)
    PROVE  docs' \in [Policies -> Policy \cup {NoPolicy}] /\ OnlyExported'
<1>1. PICK k \in Policies : \E p \in exported[k] :
        poller[i].bundle.digest = createPolicyBundle(k, p)
  BY DEF SavePolicy, ImportInv, SignedForExport
<1>2. PICK p \in exported[k] : poller[i].bundle.digest = createPolicyBundle(k, p)
  BY <1>1
<1>3. poller[i].bundle.files = createPolicyBundle(k, p)
  BY <1>2 DEF SavePolicy, ImportInv, SignedForExport
<1>4. PolicyOf(poller[i].bundle) = k
  BY <1>3, Unpacked DEF PolicyOf, createMetadata
<1> DEFINE d == Saved(policyFromBundle(createPolicyBundle(k, p)), docs[k])
<1>5. docs \in [Policies -> Policy \cup {NoPolicy}] /\ p \in Policy
  BY <1>2, AutoImportAssumption DEF ImportInv, RoundsTyped
<1>6. docs' = [docs EXCEPT ![k] = d] /\ exported' = exported
  BY <1>3, <1>4 DEF SavePolicy
<1>7. d \in Policy /\ (d # NoPolicy => SameFiles(d, p))
  BY <1>5, SavedFiles
<1> HIDE DEF d
<1>8. OnlyExported'
  BY <1>2, <1>5, <1>6, <1>7 DEF ImportInv, OnlyExported
<1> QED
  BY <1>5, <1>6, <1>7, <1>8

\* The invariant holds after every step.
LEMMA NextImport == ConfigsTyped /\ ImportInv /\ [Next]_vars => ImportInv'
<1> SUFFICES ASSUME ConfigsTyped, ImportInv, [Next]_vars PROVE ImportInv'
  OBVIOUS
<1>t. docs \in [Policies -> Policy \cup {NoPolicy}]
  BY DEF ImportInv, RoundsTyped
<1>0. ASSUME UNCHANGED <<remote, version, docs, poller, exported>>, faulty' \in BOOLEAN
      PROVE  ImportInv'
  BY <1>0 DEF ImportInv, RoundsTyped, RemoteExported, SignedForExport, OnlyExported
<1>f. faulty \in BOOLEAN
  BY DEF ImportInv, RoundsTyped
<1>1. ASSUME NEW i \in Pollers, Round(i) \/ ImportFails(i) \/ AbortRound(i)
             \/ \E c \in Found : RescheduleFails(i, c) \/ FetchFails(i, c)
      PROVE  ImportInv'
  <2>1. (Drops(i) \/ Carries(i)) /\ (docs' = docs \/ SavePolicy(i))
    BY <1>1, PollerSteps
  <2>2. docs' \in [Policies -> Policy \cup {NoPolicy}]
    BY <1>t, <2>1, SaveKeeps
  <2>3. RoundsTyped' /\ RemoteExported' /\ SignedForExport'
    BY <2>1, <2>2, PollersKeep
  <2>4. OnlyExported'
    <3>1. exported' = exported
      BY <2>1 DEF Drops, Carries, Goes
    <3>2. CASE docs' = docs
      BY <3>1, <3>2 DEF ImportInv, OnlyExported
    <3> QED
      BY <2>1, <3>2, SaveKeeps
  <2> QED
    BY <2>3, <2>4 DEF ImportInv
<1>2. ASSUME NEW u \in Users, Respond(u) \/ RequestFails(u)
      PROVE  ImportInv'
  BY <1>0, <1>2, <1>f DEF Respond, InsertConfig, DeleteAutoImportConfig, RequestFails
<1>3. ASSUME NEW u \in Users, NEW k \in Policies,
             SetPolicyAutoImport(u, k) \/ DeletePolicyAutoImport(u, k)
      PROVE  ImportInv'
  BY <1>0, <1>3, <1>f DEF SetPolicyAutoImport, DeletePolicyAutoImport
<1>4. ASSUME NEW k \in Policies, Tick(k) PROVE ImportInv'
  BY <1>0, <1>4, <1>f DEF Tick
<1>5. ASSUME NEW k \in Policies, NEW lock \in BOOLEAN, SetPolicyLock(k, lock)
      PROVE  ImportInv'
  <2> DEFINE d == [docs[k] EXCEPT !.locked = lock]
  <2>1. docs[k] \in Policy
    BY <1>5, <1>t DEF SetPolicyLock
  <2>2. d \in Policy /\ \A p : SameFiles(docs[k], p) /\ d # NoPolicy => SameFiles(d, p)
    BY <2>1 DEF Policy, SameFiles
  <2>3. /\ docs' = [docs EXCEPT ![k] = d] /\ docs[k] # NoPolicy
        /\ UNCHANGED <<remote, version, poller, exported, faulty>>
    BY <1>5 DEF SetPolicyLock
  <2> HIDE DEF d
  <2>4. RoundsTyped' /\ RemoteExported' /\ SignedForExport'
    BY <2>2, <2>3 DEF ImportInv, RoundsTyped, RemoteExported, SignedForExport
  <2>5. OnlyExported'
    BY <1>t, <2>2, <2>3 DEF ImportInv, OnlyExported
  <2> QED
    BY <2>4, <2>5 DEF ImportInv
<1>6. ASSUME NEW k \in Policies, NEW p \in Published, Publish(k, p) PROVE ImportInv'
  <2>1. /\ remote' = [remote EXCEPT ![k] = p]
        /\ exported' = [exported EXCEPT ![k] = @ \cup {p}]
        /\ UNCHANGED <<version, docs, poller, faulty>>
    BY <1>6 DEF Publish
  <2>2. \A q \in Policies : exported[q] \subseteq exported'[q]
    BY <2>1 DEF ImportInv, RoundsTyped
  <2>3. RoundsTyped'
    BY <2>1 DEF ImportInv, RoundsTyped
  <2>4. RemoteExported'
    BY <2>1 DEF ImportInv, RoundsTyped, RemoteExported
  <2>5. SignedForExport' /\ OnlyExported'
    BY <2>1, <2>2 DEF ImportInv, SignedForExport, OnlyExported
  <2> QED
    BY <2>3, <2>4, <2>5 DEF ImportInv
<1>7. CASE RotateKeys
  <2>1. version' \in 0..MaxRotations
    <3>1. version \in 0..MaxRotations /\ MaxRotations \in Nat
      BY AutoImportAssumption DEF ImportInv, RoundsTyped
    <3>2. version < MaxRotations /\ version' = version + 1
      BY <1>7 DEF RotateKeys
    <3> QED
      BY <3>1, <3>2
  <2>2. UNCHANGED <<remote, docs, poller, exported, faulty>>
    BY <1>7 DEF RotateKeys
  <2> QED
    BY <2>1, <2>2 DEF ImportInv, RoundsTyped, RemoteExported, SignedForExport, OnlyExported
<1>8. CASE FaultsCease \/ UNCHANGED vars
  BY <1>0, <1>8, <1>f DEF FaultsCease, vars
<1> QED
  BY <1>1, <1>2, <1>3, <1>4, <1>5, <1>6, <1>7, <1>8 DEF Next, Fault

\* The invariant of the rounds holds in every reachable state.
THEOREM ImportInvariance == AutoImportSafety => []ImportInv
  BY InitImport, NextImport, ConfigsAreTyped, PTL DEF AutoImportSafety

\* Whatever users, pollers, faults and the exporting agent do, the state of the
\* auto import is well formed.
THEOREM AutoImportTypeCorrect == AutoImportSafety => []AutoImportTypeOK
<1>1. ConfigsTyped /\ ImportInv => AutoImportTypeOK
  BY DEF ConfigsTyped, ImportInv, RoundsTyped, AutoImportTypeOK
<1> QED
  BY <1>1, ConfigsAreTyped, ImportInvariance, PTL

\* Every stored policy has the files that the exporting agent held for it at some
\* time, for any number of policies, processes, key rotations and any contents.
THEOREM OnlyExportedIsStored == AutoImportSafety => []OnlyExported
<1>1. ImportInv => OnlyExported
  BY DEF ImportInv
<1> QED
  BY <1>1, ImportInvariance, PTL
===============================================================================
