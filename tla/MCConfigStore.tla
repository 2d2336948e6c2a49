---- MODULE MCConfigStore ----
(***************************************************************************)
(* Model values for ConfigStore.                                           *)
(***************************************************************************)
EXTENDS ConfigStore

CONSTANTS plain, v1

UserVersions == {plain, v1}
====
