---------------------------- MODULE ClonerProofs ----------------------------
(* Proofs about Cloner, for every set of policy directories.               *)
EXTENDS Cloner, SequenceTheorems, TLAPS

(* Paths, identities and keys.                                             *)

\* The parts of names, those of the cloner's own names among them.
Parts == STRING \cup {"temp", "policy", "rego"}

Names == Seq(Parts)

Identities == [repository : {Repository}, group : Names, name : Names, version : Names]

LEMMA Folders == CloneFolder \in Names /\ PolicyFilename \in Names
<1>1. "temp" \in Parts /\ "policy" \in Parts /\ "rego" \in Parts
  BY DEF Parts
<1> HIDE DEF Parts
<1> QED
  BY <1>1 DEF Names, CloneFolder, PolicyFilename

LEMMA FilesTyped == Files \subseteq Seq(Names) /\ Repository \in Names
<1>1. STRING \subseteq Parts
  BY DEF Parts
<1>2. Seq(STRING) \subseteq Names
  BY <1>1, SeqMonotonic DEF Names
<1>3. Seq(Seq(STRING)) \subseteq Seq(Names)
  BY <1>2, SeqMonotonic
<1> QED
  BY <1>2, <1>3, ClonerAssumption

\* The directory below the clone folder, without the file name.
Directory(f) == <<CloneFolder>> \o f

LEMMA SplitIs ==
    ASSUME NEW f \in Files
    PROVE  /\ Len(f) \in Nat
           /\ Directory(f) \in Seq(Names) /\ Len(Directory(f)) = Len(f) + 1
           /\ Split(f) \in Seq(Names) /\ Len(Split(f)) = Len(f) + 2
           /\ \A n \in 1..(Len(f) + 1) : Split(f)[n] = Directory(f)[n]
<1>1. f \in Seq(Names) /\ <<CloneFolder>> \in Seq(Names) /\ <<PolicyFilename>> \in Seq(Names)
  BY FilesTyped, Folders
<1>2. Len(<<CloneFolder>>) = 1 /\ Len(<<PolicyFilename>>) = 1
  OBVIOUS
<1>3. Directory(f) \in Seq(Names) /\ Len(Directory(f)) = Len(f) + 1 /\ Len(f) \in Nat
  BY <1>1, <1>2, ConcatProperties, LenProperties DEF Directory
<1>4. Split(f) = Directory(f) \o <<PolicyFilename>>
  BY DEF Split, Directory
<1>5. /\ Split(f) \in Seq(Names)
      /\ Len(Split(f)) = Len(Directory(f)) + Len(<<PolicyFilename>>)
      /\ \A n \in 1..(Len(Directory(f)) + Len(<<PolicyFilename>>)) :
            Split(f)[n] = IF n <= Len(Directory(f)) THEN Directory(f)[n]
                          ELSE <<PolicyFilename>>[n - Len(Directory(f))]
  BY <1>1, <1>3, <1>4, ConcatProperties
<1> QED
  BY <1>2, <1>3, <1>5

\* A path is too short without a version and a name.
LEMMA ShortIs == \A f \in Files : Len(f) \in Nat /\ (TooShort(f) <=> Len(f) < 2)
<1> SUFFICES ASSUME NEW f \in Files
             PROVE  Len(f) \in Nat /\ (TooShort(f) <=> Len(f) < 2)
  OBVIOUS
<1>1. Len(f) \in Nat /\ Len(Split(f)) = Len(f) + 2
  BY SplitIs
<1> QED
  BY <1>1 DEF TooShort

\* createPolicy takes the identity that the directories say, be the group "temp".
LEMMA IdentityIs ==
    ASSUME NEW f \in Files, ~TooShort(f)
    PROVE  Identity(f) \in Identities /\ Expected(f) = Identity(f)
<1> DEFINE n == Len(Split(f))
<1>1. Len(f) \in Nat /\ Len(f) >= 2 /\ n = Len(f) + 2 /\ Len(Directory(f)) = Len(f) + 1
  BY ShortIs, SplitIs
<1>2. /\ n - 3 \in 1..(Len(f) + 1) /\ n - 2 \in 1..(Len(f) + 1) /\ n - 1 \in 1..(Len(f) + 1)
      /\ n - 3 = Len(Directory(f)) - 2 /\ n - 2 = Len(Directory(f)) - 1
      /\ n - 1 = Len(Directory(f))
  BY <1>1
<1>3. /\ Split(f)[n - 3] = Directory(f)[n - 3] /\ Split(f)[n - 2] = Directory(f)[n - 2]
      /\ Split(f)[n - 1] = Directory(f)[n - 1]
  BY <1>2, SplitIs
<1>4. /\ Split(f)[n - 3] \in Names /\ Split(f)[n - 2] \in Names /\ Split(f)[n - 1] \in Names
  BY <1>1, <1>2, <1>3, SplitIs, ElementOfSeq
<1>5. Identity(f) = [repository |-> Repository, group |-> Split(f)[n - 3],
                     name |-> Split(f)[n - 2], version |-> Split(f)[n - 1]]
  BY DEF Identity
<1>6. Expected(f) = [repository |-> Repository, group |-> Directory(f)[n - 3],
                     name |-> Directory(f)[n - 2], version |-> Directory(f)[n - 1]]
  BY <1>2 DEF Expected, Directory
<1> HIDE DEF n
<1>7. Identity(f) \in Identities
  BY <1>4, <1>5 DEF Identities
<1> QED
  BY <1>3, <1>5, <1>6, <1>7

\* The places of a name and of what is joined to it.
LEMMA Joined ==
    ASSUME NEW s \in Names, NEW t \in Names
    PROVE  /\ s \o t \in Names /\ Len(s) \in Nat /\ Len(t) \in Nat
           /\ Len(s \o t) = Len(s) + Len(t)
           /\ \A n \in 1..Len(s) : (s \o t)[n] = s[n]
           /\ \A n \in 1..Len(t) : (s \o t)[Len(s) + n] = t[n]
<1>1. Len(s) \in Nat /\ Len(t) \in Nat
  BY LenProperties DEF Names
<1>2. /\ s \o t \in Names /\ Len(s \o t) = Len(s) + Len(t)
      /\ \A n \in 1..(Len(s) + Len(t)) :
           (s \o t)[n] = IF n <= Len(s) THEN s[n] ELSE t[n - Len(s)]
  BY ConcatProperties DEF Names
<1>3. ASSUME NEW n \in 1..Len(s) PROVE (s \o t)[n] = s[n]
  <2>1. n \in 1..(Len(s) + Len(t)) /\ n <= Len(s)
    BY <1>1
  <2> QED
    BY <1>2, <2>1
<1>4. ASSUME NEW n \in 1..Len(t) PROVE (s \o t)[Len(s) + n] = t[n]
  <2>1. /\ Len(s) + n \in 1..(Len(s) + Len(t)) /\ ~(Len(s) + n <= Len(s))
        /\ (Len(s) + n) - Len(s) = n
    BY <1>1
  <2> QED
    BY <1>2, <2>1
<1> QED
  BY <1>1, <1>2, <1>3, <1>4

\* What the places of a key behind the repository hold, for a plain identity.
LEMMA PlainKey ==
    ASSUME NEW id \in Identities, Plain(id)
    PROVE  /\ Len(ConstructKey(id)) = Len(Repository) + 2 + Len(id.version)
           /\ ConstructKey(id)[Len(Repository) + 1] = id.group[1]
           /\ ConstructKey(id)[Len(Repository) + 2] = id.name[1]
           /\ \A n \in 1..Len(id.version) :
                ConstructKey(id)[Len(Repository) + 2 + n] = id.version[n]
<1> DEFINE a == Repository \o id.group
           b == a \o id.name
<1>1. /\ id.repository = Repository /\ Repository \in Names /\ Len(Repository) \in Nat
      /\ id.group \in Names /\ id.name \in Names /\ id.version \in Names
      /\ Len(id.group) = 1 /\ Len(id.name) = 1 /\ Len(id.version) \in Nat
  BY FilesTyped DEF Identities, Plain, Names
<1>2. a \in Names /\ Len(a) = Len(Repository) + 1 /\ a[Len(Repository) + 1] = id.group[1]
  <2>1. Repository \in Names /\ id.group \in Names /\ 1 \in 1..Len(id.group)
    BY <1>1
  <2>2. /\ a \in Names /\ Len(a) = Len(Repository) + Len(id.group)
        /\ a[Len(Repository) + 1] = id.group[1]
    BY <2>1, Joined
  <2> QED
    BY <1>1, <2>2
<1> HIDE DEF a
<1>3. /\ b \in Names /\ Len(b) = Len(Repository) + 2
      /\ b[Len(Repository) + 1] = a[Len(Repository) + 1]
      /\ b[Len(Repository) + 2] = id.name[1]
  <2>1. 1 \in 1..Len(id.name) /\ Len(Repository) + 1 \in 1..Len(a)
    BY <1>1, <1>2
  <2>2. Len(a) + Len(id.name) = Len(Repository) + 2 /\ Len(a) + 1 = Len(Repository) + 2
    BY <1>1, <1>2
  <2>3. b \in Names /\ Len(b) = Len(a) + Len(id.name) /\ b[Len(a) + 1] = id.name[1]
        /\ b[Len(Repository) + 1] = a[Len(Repository) + 1]
    BY <1>1, <1>2, <2>1, Joined
  <2> QED
    BY <2>2, <2>3
<1> HIDE DEF b
<1>4. ConstructKey(id) = b \o id.version
  BY <1>1 DEF ConstructKey, a, b
<1>5. /\ Len(b \o id.version) = Len(b) + Len(id.version)
      /\ \A n \in 1..Len(b) : (b \o id.version)[n] = b[n]
      /\ \A n \in 1..Len(id.version) : (b \o id.version)[Len(b) + n] = id.version[n]
  BY <1>1, <1>3, Joined
<1>6. Len(Repository) + 1 \in 1..Len(b) /\ Len(Repository) + 2 \in 1..Len(b)
  BY <1>1, <1>3
<1> QED
  BY <1>1, <1>2, <1>3, <1>4, <1>5, <1>6

\* ConstructKey tells plain identities of a repository apart, whatever dots their
\* versions have.
LEMMA KeysTellApart ==
    ASSUME NEW x \in Identities, NEW y \in Identities, Plain(x), Plain(y),
           ConstructKey(x) = ConstructKey(y)
    PROVE  x = y
<1>1. /\ x.group \in Names /\ x.name \in Names /\ x.version \in Names
      /\ y.group \in Names /\ y.name \in Names /\ y.version \in Names
      /\ Len(Repository) \in Nat /\ Len(x.version) \in Nat /\ Len(y.version) \in Nat
  BY FilesTyped DEF Identities, Names
<1> DEFINE key == ConstructKey(x)
           r == Len(Repository)
<1>a. /\ Len(key) = r + 2 + Len(x.version)
      /\ key[r + 1] = x.group[1] /\ key[r + 2] = x.name[1]
      /\ \A n \in 1..Len(x.version) : key[r + 2 + n] = x.version[n]
  BY PlainKey
<1>b. /\ Len(key) = r + 2 + Len(y.version)
      /\ key[r + 1] = y.group[1] /\ key[r + 2] = y.name[1]
      /\ \A n \in 1..Len(y.version) : key[r + 2 + n] = y.version[n]
  <2>1. key = ConstructKey(y)
    OBVIOUS
  <2> HIDE DEF key
  <2> QED
    BY <2>1, PlainKey
<1> HIDE DEF key
<1>2. Len(x.version) = Len(y.version)
  <2>1. \A k, m, n \in Nat : k + 2 + m = k + 2 + n => m = n
    OBVIOUS
  <2>2. r + 2 + Len(x.version) = r + 2 + Len(y.version)
    BY <1>a, <1>b
  <2> QED
    BY <1>1, <2>1, <2>2
<1>3. \A n \in 1..Len(x.version) : x.version[n] = y.version[n]
  BY <1>2, <1>a, <1>b
<1>4. x.version = y.version
  BY <1>1, <1>2, <1>3, SeqEqual DEF Names
<1>5. x.group[1] = y.group[1] /\ x.name[1] = y.name[1]
  BY <1>a, <1>b
<1>6. x.group = y.group
  BY <1>1, <1>5, SeqEqual DEF Names, Plain
<1>7. x.name = y.name
  BY <1>1, <1>5, SeqEqual DEF Names, Plain
<1> QED
  BY <1>4, <1>6, <1>7 DEF Identities

(* The walk.                                                               *)

\* Under a key is a policy the walk has met that has this key.
KeysRight ==
    \A k \in Keys : policies[k] # NoFile =>
        /\ policies[k] \in tree \ todo /\ ~TooShort(policies[k])
        /\ ConstructKey(Identity(policies[k])) = k

\* Of the policies an unfailed walk has met with one key, one is there.
KeysKept ==
    ~failed => \A f \in tree \ todo :
                   ~TooShort(f) /\ policies[ConstructKey(Identity(f))] # NoFile

ClonerInv == ClonerTypeOK /\ KeysRight /\ KeysKept

LEMMA WalkStarts == Init => ClonerInv
  BY DEF Init, ClonerInv, ClonerTypeOK, KeysRight, KeysKept

LEMMA WalkSteps == ClonerInv /\ [Next]_vars => ClonerInv'
<1> SUFFICES ASSUME ClonerInv, [Next]_vars PROVE ClonerInv'
  OBVIOUS
<1>1. CASE UNCHANGED vars
  BY <1>1 DEF vars, ClonerInv, ClonerTypeOK, KeysRight, KeysKept
<1>2. ASSUME NEW f \in Files, Visit(f) PROVE ClonerInv'
  <2>1. /\ f \in todo /\ f \in tree /\ ~failed /\ tree' = tree /\ todo' = todo \ {f}
        /\ tree \subseteq Files /\ todo \subseteq tree
        /\ policies \in [Keys -> tree \cup {NoFile}]
        /\ tree' \ todo' = (tree \ todo) \cup {f}
        /\ f # NoFile
    BY <1>2, ClonerAssumption DEF Visit, ClonerInv, ClonerTypeOK
  <2>2. CASE TooShort(f)
    <3>1. failed' = TRUE /\ policies' = policies
      BY <1>2, <2>2 DEF Visit
    <3>2. ClonerTypeOK'
      BY <2>1, <3>1 DEF ClonerTypeOK
    <3>3. KeysRight'
      BY <2>1, <3>1 DEF ClonerInv, KeysRight
    <3>4. KeysKept'
      BY <3>1 DEF KeysKept
    <3> QED
      BY <3>2, <3>3, <3>4 DEF ClonerInv
  <2>3. CASE ~TooShort(f)
    <3> DEFINE key == ConstructKey(Identity(f))
    <3>1. failed' = failed /\ policies' = [policies EXCEPT ![key] = f]
      BY <1>2, <2>3 DEF Visit
    <3>2. key \in Keys
      BY <2>3 DEF Keys, Policies
    <3>3. policies'[key] = f /\ \A k \in Keys \ {key} : policies'[k] = policies[k]
      BY <2>1, <3>1, <3>2
    <3>4. ClonerTypeOK'
      BY <2>1, <3>1, <3>2 DEF ClonerTypeOK, ClonerInv
    <3>5. KeysRight'
      <4> SUFFICES ASSUME NEW k \in Keys, policies'[k] # NoFile
                   PROVE  /\ policies'[k] \in tree' \ todo' /\ ~TooShort(policies'[k])
                          /\ ConstructKey(Identity(policies'[k])) = k
        BY DEF KeysRight
      <4>1. CASE k = key
        BY <2>1, <2>3, <3>3, <4>1
      <4>2. CASE k # key
        BY <2>1, <3>3, <4>2 DEF ClonerInv, KeysRight
      <4> QED
        BY <4>1, <4>2
    <3>6. KeysKept'
      <4> SUFFICES ASSUME NEW g \in tree' \ todo'
                   PROVE  ~TooShort(g) /\ policies'[ConstructKey(Identity(g))] # NoFile
        BY DEF KeysKept
      <4>0. ~TooShort(g)
        BY <2>1, <2>3 DEF ClonerInv, KeysKept
      <4>1. ConstructKey(Identity(g)) \in Keys
        BY <2>1, <4>0 DEF Keys, Policies
      <4>2. CASE ConstructKey(Identity(g)) = key
        BY <2>1, <3>3, <4>0, <4>2
      <4>3. CASE ConstructKey(Identity(g)) # key
        <5>1. g \in tree \ todo
          BY <2>1, <4>3
        <5> QED
          BY <2>1, <3>3, <4>0, <4>1, <4>3, <5>1 DEF ClonerInv, KeysKept
      <4> QED
        BY <4>2, <4>3
    <3> QED
      BY <3>4, <3>5, <3>6 DEF ClonerInv
  <2> QED
    BY <2>2, <2>3
<1>3. ASSUME NEW f \in Files, VisitFails(f) PROVE ClonerInv'
  <2>1. /\ tree' = tree /\ todo' = todo \ {f} /\ failed' = TRUE /\ policies' = policies
        /\ tree \ todo \subseteq tree' \ todo'
    BY <1>3 DEF VisitFails
  <2>2. ClonerTypeOK'
    BY <2>1 DEF ClonerInv, ClonerTypeOK
  <2>3. KeysRight'
    BY <2>1 DEF ClonerInv, KeysRight
  <2>4. KeysKept'
    BY <2>1 DEF KeysKept
  <2> QED
    BY <2>2, <2>3, <2>4 DEF ClonerInv
<1>4. CASE WalkFails
  BY <1>4 DEF WalkFails, ClonerInv, ClonerTypeOK, KeysRight, KeysKept
<1> QED
  BY <1>1, <1>2, <1>3, <1>4 DEF Next

\* Whatever the order of the walk and whatever errors end it: under a key is a policy
\* with this key that the walk has met, and an unfailed walk has lost no key it met.
THEOREM ClonerInvariance == ClonerSpec => []ClonerInv
<1>1. Init => ClonerInv
  BY WalkStarts
<1>2. ClonerInv /\ [Next]_vars => ClonerInv'
  BY WalkSteps
<1> QED
  BY <1>1, <1>2, PTL DEF ClonerSpec

\* The map of IterateRepo holds files of the clone under keys of policies.
THEOREM ClonerTypeCorrect == ClonerSpec => []ClonerTypeOK
<1>1. ClonerInv => ClonerTypeOK
  BY DEF ClonerInv
<1> QED
  BY <1>1, ClonerInvariance, PTL

\* In a repository of plain groups and names a lookup never returns a policy of
\* another identity, whatever dots the versions have.
THEOREM LookupIsExact == ClonerSpec => []LookupExact
<1>1. ClonerInv => LookupExact
  <2> SUFFICES ASSUME ClonerInv,
                      \A g \in tree \ todo : ~TooShort(g) => Plain(Identity(g)),
                      NEW f \in Policies, Plain(Identity(f)),
                      Lookup(Identity(f)) # NoFile
               PROVE  Identity(Lookup(Identity(f))) = Identity(f)
    BY DEF LookupExact
  <2> DEFINE key == ConstructKey(Identity(f))
             g == policies[key]
  <2>1. f \in Files /\ ~TooShort(f) /\ key \in Keys
    BY DEF Policies, Keys
  <2>2. Lookup(Identity(f)) = g
    BY <2>1 DEF Lookup
  <2>3. g \in tree \ todo /\ ~TooShort(g) /\ ConstructKey(Identity(g)) = key
    BY <2>1, <2>2 DEF ClonerInv, KeysRight
  <2>4. g \in Files /\ Plain(Identity(g))
    BY <2>3 DEF ClonerInv, ClonerTypeOK
  <2> HIDE DEF g
  <2>5. Identity(g) \in Identities /\ Identity(f) \in Identities
    BY <2>1, <2>3, <2>4, IdentityIs
  <2> QED
    BY <2>2, <2>3, <2>4, <2>5, KeysTellApart
<1> QED
  BY <1>1, ClonerInvariance, PTL

\* A walk without an error has every policy that no other displaces, under the
\* identity its directories say.
THEOREM WalkIsComplete == ClonerSpec => []WalkComplete
<1>1. ClonerInv => WalkComplete
  <2> SUFFICES ASSUME ClonerInv, todo = {}, ~failed, NEW f \in tree
               PROVE  Displaced(f) \/ Lookup(Expected(f)) = f
    BY DEF WalkComplete
  <2> DEFINE key == ConstructKey(Identity(f))
             g == policies[key]
  <2>1. tree \subseteq Files /\ f \in Files
    BY DEF ClonerInv, ClonerTypeOK
  <2>2. ~TooShort(f)
    BY DEF ClonerInv, KeysKept
  <2>3. key \in Keys /\ Expected(f) = Identity(f)
    BY <2>1, <2>2, IdentityIs DEF Keys, Policies
  <2>4. Lookup(Expected(f)) = g
    BY <2>3 DEF Lookup
  <2>5. g # NoFile
    BY <2>2 DEF ClonerInv, KeysKept
  <2>6. g \in tree /\ ~TooShort(g) /\ ConstructKey(Identity(g)) = key
    BY <2>3, <2>5 DEF ClonerInv, KeysRight
  <2> HIDE DEF g
  <2>7. Len(g) >= 2 /\ Expected(g) = Identity(g)
    BY <2>1, <2>6, ShortIs, IdentityIs
  <2>8. CASE g = f
    BY <2>4, <2>8
  <2>9. CASE g # f
    BY <2>3, <2>6, <2>7, <2>9 DEF Displaced
  <2> QED
    BY <2>8, <2>9
<1> QED
  BY <1>1, ClonerInvariance, PTL
=============================================================================
