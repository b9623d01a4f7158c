------------------------------- MODULE Cloner -------------------------------
(***************************************************************************)
(* What the cloner makes of a clone (internal/clone/clone.go): IterateRepo *)
(* walks the folder, createPolicy takes the identity of a policy from the  *)
(* path of its policy.rego, and ConstructKey joins the parts of an         *)
(* identity with dots to the key under which the sync process and the      *)
(* memory storage keep the policy.                                         *)
(*                                                                         *)
(* A name is the sequence of its parts between dots, so "1.0" is           *)
(* <<"1", "0">>, and joining names with dots is concatenation.             *)
(***************************************************************************)
EXTENDS Naturals, Sequences

CONSTANTS
    Files,          \* the directories, below the clone folder, of policy.rego files:
                    \* a configured subfolder is the first part of each
    Repository,     \* getRepoName of the clone URL
    NoFile          \* no policy under a key

ASSUME ClonerAssumption ==
    /\ Files \subseteq Seq(Seq(STRING)) /\ NoFile \notin Files
    /\ Repository \in Seq(STRING)

CloneFolder == <<"temp">>
PolicyFilename == <<"policy", "rego">>

\* strings.Split of the path of the policy.rego in directory f.
Split(f) == <<CloneFolder>> \o f \o <<PolicyFilename>>

TooShort(f) == Len(Split(f)) < 4

\* Mutant: the parts are counted from the clone folder.
IdentityFromTop(f) ==
    LET ss == Split(f)
    IN  [repository |-> Repository, group |-> ss[2], name |-> ss[3], version |-> ss[4]]

\* createPolicy counts from the end of the path, whatever precedes it.
Identity(f) ==
    LET ss == Split(f)
        n == Len(ss)
    IN  [repository |-> Repository, group |-> ss[n - 3], name |-> ss[n - 2],
         version |-> ss[n - 1]]

\* Mutant: the version is not part of the key.
ConstructKeyUnversioned(id) == id.repository \o id.group \o id.name

ConstructKey(id) == id.repository \o id.group \o id.name \o id.version

Policies == {f \in Files : ~TooShort(f)}

Keys == {ConstructKey(Identity(f)) : f \in Policies}

VARIABLES
    tree,       \* the policy files of the clone
    todo,       \* the files WalkDir has not visited
    policies,   \* the map IterateRepo fills
    failed      \* an error was returned to WalkDir, which ends the walk

vars == <<tree, todo, policies, failed>>

ClonerTypeOK ==
    /\ tree \subseteq Files /\ todo \subseteq tree
    /\ policies \in [Keys -> tree \cup {NoFile}]
    /\ failed \in BOOLEAN

Init ==
    /\ tree \in SUBSET Files
    /\ todo = tree
    /\ policies = [k \in Keys |-> NoFile]
    /\ failed = FALSE

\* Mutant: the map is given the path with the clone folder and the file name.
VisitWholePath(f) ==
    /\ f \in todo /\ ~failed
    /\ todo' = todo \ {f}
    /\ \/ /\ TooShort(f)
          /\ failed' = TRUE
          /\ UNCHANGED policies
       \/ /\ ~TooShort(f)
          /\ policies' = [policies EXCEPT ![ConstructKey(Identity(f))] = Split(f)]
          /\ UNCHANGED failed
    /\ UNCHANGED tree

\* WalkDir visits the files in lexical order; any order here.
Visit(f) ==
    /\ f \in todo /\ ~failed
    /\ todo' = todo \ {f}
    /\ \/ /\ TooShort(f)
          /\ failed' = TRUE
          /\ UNCHANGED policies
       \/ /\ ~TooShort(f)
          /\ policies' = [policies EXCEPT ![ConstructKey(Identity(f))] = f]
          /\ UNCHANGED failed
    /\ UNCHANGED tree

\* createPolicy fails on the file, whatever its path: the executable is not found, or
\* policy.rego or a file next to it is there and cannot be read.
VisitFails(f) ==
    /\ f \in todo /\ ~failed
    /\ todo' = todo \ {f}
    /\ failed' = TRUE
    /\ UNCHANGED <<tree, policies>>

\* WalkDir reports a directory it cannot read, between two files or after the last.
WalkFails ==
    /\ ~failed
    /\ failed' = TRUE
    /\ UNCHANGED <<tree, todo, policies>>

Next == (\E f \in Files : Visit(f) \/ VisitFails(f)) \/ WalkFails

ClonerSpec == Init /\ [][Next]_vars
-----------------------------------------------------------------------------
\* The group and the name, which are not delimited in a key, have no dots; versions
\* may have them.
Plain(id) == Len(id.group) = 1 /\ Len(id.name) = 1

\* Policy of the memory storage: the file served for an identity.
Lookup(id) ==
    IF ConstructKey(id) \in Keys THEN policies[ConstructKey(id)] ELSE NoFile

\* What is served for a plain identity is a policy of that identity, as long as all
\* groups and names of the repository are plain: a request never gets another
\* version or another policy whose key happens to be the same.
LookupExact ==
    (\A f \in tree \ todo : ~TooShort(f) => Plain(Identity(f))) =>
        \A f \in Policies :
            Plain(Identity(f)) /\ Lookup(Identity(f)) # NoFile
                => Identity(Lookup(Identity(f))) = Identity(f)

\* The identity in the URL of a policy, by the comment of createPolicy: "path to
\* Rego policy must be {group}/{name}/{version}/policy.rego"; README.md: where a
\* level is missing "the service appends a 'temp' group".
Expected(f) ==
    LET d == <<CloneFolder>> \o f
        n == Len(d)
    IN  [repository |-> Repository, group |-> d[n - 2], name |-> d[n - 1], version |-> d[n]]

\* A policy can lose its place only to one with the same key: its identity deeper
\* in the tree, or names with dots that join to the same key.
Displaced(f) ==
    \E g \in tree \ {f} : Len(g) >= 2 /\ ConstructKey(Expected(g)) = ConstructKey(Expected(f))

\* A walk that ends without an error has found every policy of the clone that no
\* other one displaces, under the identity its directories say.
WalkComplete ==
    todo = {} /\ ~failed => \A f \in tree : Displaced(f) \/ Lookup(Expected(f)) = f
=============================================================================
