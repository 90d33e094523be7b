---------------------------- MODULE MCCFSVerifier ---------------------------
(***************************************************************************)
(* CFSVerifier with the calls FSCHECK makes on a small system: the modules *)
(* of the running kernel (with a link to the excluded sources and one up   *)
(* to lib) and of another one, lib with a link to boot, and boot with a    *)
(* link to itself.                                                         *)
(***************************************************************************)
EXTENDS CFSVerifier

CONSTANTS boot, lib, modules, running, other, src, f_boot, f_running, f_other, f_src

MCDirs == {boot, lib, modules, running, other, src}

MCSubdirs ==
  [d \in MCDirs |-> CASE d = lib -> {modules} [] d = modules -> {running, other} [] OTHER -> {}]

MCLinks ==
  [d \in MCDirs |-> CASE d = running -> {src} [] d = lib -> {boot} [] d = boot -> {boot}
                      [] OTHER -> {}]

MCFiles == {f_boot, f_running, f_other, f_src}
MCFileOf ==
  [f \in MCFiles |-> CASE f = f_boot -> boot [] f = f_running -> running
                       [] f = f_other -> other [] f = f_src -> src]

MCExcludes == {"/usr/src", "/lib/modules"}
MCBegins ==
  [e \in MCExcludes |-> IF e = "/usr/src" THEN {src} ELSE {modules, running, other}]

MCScript ==
  <<[op |-> "AddExclude", arg |-> "/usr/src"],
    [op |-> "AddPath",    arg |-> running],
    [op |-> "AddExclude", arg |-> "/lib/modules"],
    [op |-> "AddPath",    arg |-> boot],
    [op |-> "AddPath",    arg |-> lib]>>
=============================================================================
