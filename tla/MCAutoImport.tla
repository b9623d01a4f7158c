---------------------------- MODULE MCAutoImport ----------------------------
(* Small instances of AutoImport for TLC.                                  *)
EXTENDS AutoImport

MCContents == {"", " ", "rego1", "rego2", "data1", "config1", "schema1",
               "key1", "key2", "malformed"}

Full == [locked |-> FALSE, rego |-> "rego1", data |-> "data1", dataConfig |-> "config1",
         outputSchema |-> "schema1", exportConfig |-> "key1"]

\* Full, and a policy with a blank, an empty and missing files under another key.
MCPublished ==
    {Full,
     [Full EXCEPT !.rego = "rego2", !.data = " ", !.dataConfig = "", !.exportConfig = "key2"],
     [Full EXCEPT !.exportConfig = "malformed"]}
=============================================================================
