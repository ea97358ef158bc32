-------------------------- MODULE MCPluginManager --------------------------
(* One client over two releases, and a foreign marketplace of its name.     *)
EXTENDS PluginManager
=============================================================================
