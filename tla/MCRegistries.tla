----------------------------- MODULE MCRegistries -----------------------------
(***************************************************************************)
(* Inputs for the model checker.                                            *)
(***************************************************************************)
EXTENDS RegistryHistory

\* A device of a client's own and one that takes the place of a profile's,
\* each with and without power.
MCDevices ==
  [ device_class : {"CAMERA"},
    device_id : {<<"lumia", "CAMERA">>, <<"lumia", "LTE">>},
    driver : {"client"},
    present : {TRUE},
    powered : BOOLEAN ]

\* Every order of a few lines, with lines missing, doubled, empty and of keys
\* that end in the text of another key.
Line(key, head, rest) == [key |-> key, value |-> [head |-> head, rest |-> rest]]

Lines ==
  { Line("id", "notes", 0), Line("id", "mail", 0), Line("id", "mail", 1), Line("id", "", 0),
    Line("guid", "maps", 0), Line("title", "any", 0), Line("version", "1", 0),
    Line("sdk_version", "2", 0), Line("auto_update", "true", 0) }

MCManifests == UNION {[1..n -> Lines] : n \in {0, 3, 4}}

\* Only the order of the profiles needs them all.
MCMayInstall ==
  [ h \in Hosts |->
      CASE h = "profiles" -> Codenames
        [] h = "devices" -> {"lumia-710", "lumia-950"}
        [] OTHER -> {"lumia-950"} ]
=============================================================================
