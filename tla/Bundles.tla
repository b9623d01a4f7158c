------------------------------ MODULE Bundles ------------------------------
(***************************************************************************)
(* Policy bundles: how ExportBundle packs and signs a policy and how       *)
(* ImportBundle verifies and unpacks it (internal/service/policy/bundle.go *)
(* and bundle_verify.go).                                                  *)
(*                                                                         *)
(* A policy is a record of the contents of its files; a content is a       *)
(* string, of which the code asks only whether it is blank.  The export    *)
(* configuration names the signing key, or is "malformed".  A signature is *)
(* the key and the signed digest; digests are taken to be injective.       *)
(***************************************************************************)
EXTENDS Naturals, Sequences

\* strings.TrimSpace leaves nothing.
Blank(content) == content \in {"", " "}

Exportable(p) == ~Blank(p.exportConfig) /\ p.exportConfig # "malformed"

File(name, content) == [name |-> name, content |-> content]

createMetadata(id, p) == [policy |-> id, locked |-> p.locked]

\* A file that is only packed when there is something in it.
Optional(files, name, content) ==
    IF Blank(content) THEN files ELSE Append(files, File(name, content))

createPolicyBundle(id, p) ==
    LET source == <<File("metadata.json", createMetadata(id, p)), File("policy.rego", p.rego)>>
        data   == Optional(source, "data.json", p.data)
        config == Optional(data, "data-config.json", p.dataConfig)
        schema == Optional(config, "output-schema.json", p.outputSchema)
    IN  Optional(schema, "export-config.json", p.exportConfig)

\* The key the signer uses: its name in the export configuration and the version
\* the key service holds.
SigningKey(p, version) == <<p.exportConfig, version>>

ExportBundle(id, p, version) ==
    LET files == createPolicyBundle(id, p)
    IN  [files |-> files, key |-> SigningKey(p, version), digest |-> files]

\* Mutant: any signature is accepted.
verifyBundleAlways(bundle, key) == TRUE

\* key is the one served under the public key URL of the metadata.
verifyBundle(bundle, key) ==
    /\ Len(bundle.files) > 0 /\ bundle.files[1].name = "metadata.json"
    /\ bundle.key = key
    /\ bundle.digest = bundle.files

\* The content of the last file of that name, empty if there is none.
ContentOf(files, name) ==
    LET at == {n \in 1..Len(files) : files[n].name = name}
    IN  IF at = {} THEN "" ELSE files[CHOOSE n \in at : \A m \in at : m <= n].content

policyFromBundle(files) ==
    [locked |-> ContentOf(files, "metadata.json").locked,
     rego |-> ContentOf(files, "policy.rego"),
     data |-> ContentOf(files, "data.json"),
     dataConfig |-> ContentOf(files, "data-config.json"),
     outputSchema |-> ContentOf(files, "output-schema.json"),
     exportConfig |-> ContentOf(files, "export-config.json")]

\* What arrives of an optional file.
Arriving(content) == IF Blank(content) THEN "" ELSE content
=============================================================================
