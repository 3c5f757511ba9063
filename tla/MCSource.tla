-------------------------------- MODULE MCSource --------------------------------
(***************************************************************************)
(* Source for TLC: the builds there are (src/build.rs and the features of     *)
(* src/Cargo.toml).                                                          *)
(***************************************************************************)
EXTENDS Source

\* Linux with all features, macOS, and Windows.
MCBuilds == {<<"daemon", "magellan", "hid">>, <<"daemon", "hid">>, <<"hid">>}
=============================================================================
