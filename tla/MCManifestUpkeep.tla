-------------------------- MODULE MCManifestUpkeep --------------------------
(***************************************************************************)
(* Small instances of ManifestUpkeep for TLC.                              *)
(***************************************************************************)
EXTENDS ManifestUpkeep

CONSTANTS gone, live, idle

\* An atom outside its life, one a runner works on, one nobody works on.
MCCatalog == <<gone, live, idle>>

\* What an older state of the manifest may say of them: a true capture, a phantom, and a gap
\* or a row that an earlier audit flagged wrongly.
MCLegacy == [a \in Atom |-> CASE a = gone -> {<<"captured", TRUE>>}
                              [] a = live -> {<<"captured", FALSE>>}
                              [] a = idle -> {<<"none", FALSE>>, <<"phantom", TRUE>>}]

\* A manifest without rows.
MCNoLegacy == [a \in Atom |-> {<<"none", FALSE>>}]
=============================================================================
