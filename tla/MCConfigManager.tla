-------------------------- MODULE MCConfigManager --------------------------
(***************************************************************************)
(* Instances of ConfigManager: an ordinary configuration, one that wants a *)
(* push token and one that is no YAML.                                     *)
(***************************************************************************)
EXTENDS ConfigManager

CONSTANTS b1, plain, other, secured, broken, default, blank

OneBrowser  == {b1}
NoBrowser   == {}
AllBodies   == {plain, secured, broken}
PlainBodies == {plain, other}
=============================================================================
