-------------------------- MODULE MCPluginInstall --------------------------
(* A finite instance of PluginInstall.                                     *)
EXTENDS PluginInstall, TLC

\* Installs are interchangeable, and so are processes.
Interchangeable == Permutations(Installs) \cup Permutations(Processes)
=============================================================================
