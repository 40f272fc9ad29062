---------------------------- MODULE NodeOperations ----------------------------
(***************************************************************************)
(* The operations that work on a node by shell commands rather than by the *)
(* API: the file and snippet tools, and the boot inspection.  They share   *)
(* no state of the node, so that a behaviour of both is one of each, and   *)
(* they are explored one or the other (subject).                           *)
(***************************************************************************)
EXTENDS FileTools, BootInspection

VARIABLE subject

vars == <<filesVars, bootVars, subject>>

Init ==
    /\ FilesInit /\ BootInit
    /\ \/ subject = "files" /\ local = {}
       \/ subject = "boot" /\ place = "node" /\ types = Types

Next ==
    /\ \/ subject = "files" /\ FilesNext /\ UNCHANGED bootVars
       \/ subject = "boot" /\ BootNext /\ UNCHANGED filesVars
    /\ UNCHANGED subject

Spec == Init /\ [][Next]_vars

-----------------------------------------------------------------------------
(* Properties. *)

\* Types of both; what is mounted is attached (losetup -D and -d detach a mounted
\* device only when it is unmounted).
TypeOK == FilesTypeOK /\ BootTypeOK
=============================================================================
