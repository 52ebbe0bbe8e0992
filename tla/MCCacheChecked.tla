--------------------------- MODULE MCCacheChecked ---------------------------
(* GraphCache with two processes of either program and no crash.  A writer *)
(* that another process overtakes is found first; with Procs = {p1} and    *)
(* Kinds = {"vk"} it is the Vulkan program that misreads its own copy.     *)
EXTENDS GraphCache
=============================================================================
