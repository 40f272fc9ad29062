---------------------------- MODULE BootInspection ----------------------------
(***************************************************************************)
(* proxmox_vm_boot_diagnose: BootDomainService.diagnoseVmBoot              *)
(* (src/src/domain-services.ts) and the script it runs on the node         *)
(* (src/src/boot/diagnostics.ts).  The script unmounts /tmp/rcmcp-boot-ID, *)
(* detaches all loop devices, attaches the disk of the VM to one, mounts   *)
(* it, prints what it finds and cleans up.                                 *)
(*                                                                         *)
(* Scripts of several calls share the node's loop devices, and those for   *)
(* one VM its directory.  Every command of a script is a step; a script    *)
(* may die after any of them (its session breaks, it is killed), and then  *)
(* leaves behind what it has set up.                                       *)
(***************************************************************************)
EXTENDS Naturals, Sequences

CONSTANTS
    Inspections,   \* calls that can be under way together
    Vms,
    Loops,         \* loop devices of the node
    NoVm           \* the disk behind a free loop device

ASSUME NoVmIsNone == NoVm \notin Vms

VARIABLES
    local,         \* the VMs whose disk is a block device of the node
    loop,          \* the VM whose disk is behind each loop device
    lazy,          \* loop devices to be detached when unmounted (autoclear)
    mounts,        \* per VM, what is mounted on its directory, last first
    insp,          \* the calls
    upset,         \* history: two scripts were under way together, or an
                   \* umount failed
    dirty,         \* history: VMs whose last script died
    stray          \* history: the last script that ended died

host == <<loop, lazy, mounts>>
history == <<upset, dirty, stray>>
bootVars == <<local, host, insp, history>>

\* ping: the guest agent answered when asked; alone is history: no other script
\* was under way with this one.
NoCall == [pc |-> "free", vm |-> NoVm, ping |-> FALSE, loop |-> {},
           seen |-> {}, alone |-> TRUE]

BootCommands == {"umount", "detach", "attach", "mount", "read", "unmount", "release"}

BootCalls ==
    [pc : {"free", "probed", "done"} \cup BootCommands, vm : Vms \cup {NoVm},
     ping : BOOLEAN, loop : SUBSET Loops, seen : SUBSET (Vms \cup {NoVm}),
     alone : BOOLEAN]

BootTypeOK ==
    /\ local \in SUBSET Vms
    /\ loop \in [Loops -> Vms \cup {NoVm}] /\ lazy \in SUBSET Loops
    /\ \A l \in lazy : loop[l] # NoVm
    /\ \A v \in Vms : \A n \in DOMAIN mounts[v] : loop[mounts[v][n]] # NoVm
    /\ insp \in [Inspections -> BootCalls]
    /\ upset \in BOOLEAN /\ dirty \in SUBSET Vms /\ stray \in BOOLEAN

BootInit ==
    /\ local \in SUBSET Vms
    /\ loop = [l \in Loops |-> NoVm] /\ lazy = {}
    /\ mounts = [v \in Vms |-> <<>>]
    /\ insp = [i \in Inspections |-> NoCall]
    /\ upset = FALSE /\ dirty = {} /\ stray = FALSE

-----------------------------------------------------------------------------
(* The node's commands, as functions of what is attached and mounted. *)

Mounted(m) == {l \in Loops : \E v \in Vms : \E n \in DOMAIN m[v] : m[v][n] = l}

\* Mutant: a device is detached under what is mounted from it.
Detach_Forces(ls) ==
    /\ loop' = [l \in Loops |-> IF l \in ls THEN NoVm ELSE loop[l]]
    /\ lazy' = lazy \ ls
    /\ UNCHANGED mounts

\* Detaching a device that is mounted takes effect when it is unmounted.
Detach(ls) ==
    /\ loop' = [l \in Loops |-> IF l \in ls \ Mounted(mounts) THEN NoVm ELSE loop[l]]
    /\ lazy' = {l \in lazy \cup ls : loop'[l] # NoVm}
    /\ UNCHANGED mounts

\* mountpoint -q && umount || true: takes away what was mounted last.  It does
\* nothing if nothing is mounted, and may fail, unnoticed: files are open below,
\* those of another script or of anybody.
Unmount(v) ==
    \/ /\ mounts[v] = <<>>
       /\ UNCHANGED <<host, upset>>
    \/ /\ mounts[v] # <<>>
       /\ upset' = TRUE
       /\ UNCHANGED host
    \/ /\ mounts[v] # <<>>
       /\ mounts' = [mounts EXCEPT ![v] = Tail(@)]
       /\ loop' = [l \in Loops |->
              IF l \in lazy \ Mounted(mounts') THEN NoVm ELSE loop[l]]
       /\ lazy' = {l \in lazy : loop'[l] # NoVm}
       /\ UNCHANGED upset

-----------------------------------------------------------------------------
(* The tool call. *)

Scripts == {i \in Inspections : insp[i].pc \in BootCommands}

BootStep(i, pc) == insp' = [insp EXCEPT ![i].pc = pc]

\* diagnoseGuestAgent: whether the guest agent answers is part of the diagnosis.
\* Status, configuration and cloud-init are read too; nothing below depends on
\* them.
diagnoseGuestAgent(i, v, ping) ==
    /\ insp[i].pc = "free"
    /\ insp' = [insp EXCEPT ![i] = [NoCall EXCEPT !.pc = "probed", !.vm = v,
                                                 !.ping = ping]]
    /\ UNCHANGED <<local, host, history>>

\* diagnoseVmBoot runs the script whatever the agent said, as
\* inferRootDiskVolumeId always returns a volume ...
diagnoseVmBoot(i) ==
    /\ insp[i].pc = "probed"
    /\ insp' = [j \in Inspections |->
           IF j = i THEN [insp[i] EXCEPT !.pc = "umount", !.alone = Scripts = {}]
           ELSE IF j \in Scripts THEN [insp[j] EXCEPT !.alone = FALSE] ELSE insp[j]]
    /\ upset' = (upset \/ Scripts # {})
    /\ UNCHANGED <<local, host, dirty, stray>>

\* ... unless nodeTerminalRun is refused by the policy or gets no session, or the
\* script finds that it is not root: the diagnosis says so.
Unsupported(i) ==
    /\ insp[i].pc = "probed"
    /\ BootStep(i, "done")
    /\ UNCHANGED <<local, host, history>>

\* Mutant: the directory is not unmounted first.
UmountWorkdir_Skips(i) ==
    /\ insp[i].pc = "umount"
    /\ BootStep(i, "detach")
    /\ UNCHANGED <<local, host, history>>

UmountWorkdir(i) ==
    /\ insp[i].pc = "umount"
    /\ Unmount(insp[i].vm)
    /\ BootStep(i, "detach")
    /\ UNCHANGED <<local, dirty, stray>>

\* losetup -D: every device of the node, whoever attached it.
DetachAll(i) ==
    /\ insp[i].pc = "detach"
    /\ Detach({l \in Loops : loop[l] # NoVm})
    /\ BootStep(i, "attach")
    /\ UNCHANGED <<local, history>>

\* The script ends by itself.
End(i) ==
    /\ BootStep(i, "done")
    /\ dirty' = dirty \ {insp[i].vm} /\ stray' = FALSE
    /\ UNCHANGED upset

\* A disk that is not on the node, or no free device, ends the script.
NoDevice(i) ==
    /\ insp[i].pc = "attach"
    /\ insp[i].vm \notin local \/ \A l \in Loops : loop[l] # NoVm
    /\ End(i)
    /\ UNCHANGED <<local, host>>

\* losetup -Pf --show
Attach(i) ==
    /\ insp[i].pc = "attach" /\ insp[i].vm \in local
    /\ \E l \in Loops :
           /\ loop[l] = NoVm
           /\ loop' = [loop EXCEPT ![l] = insp[i].vm]
           /\ insp' = [insp EXCEPT ![i].pc = "mount", ![i].loop = {l}]
    /\ UNCHANGED <<local, lazy, mounts, history>>

\* The device or one of its partitions is mounted, with what is behind the
\* device by now; not if it is mounted there already.  From here on a trap
\* cleans up.
MountDisk(i) ==
    /\ insp[i].pc = "mount"
    /\ \E l \in insp[i].loop :
           /\ loop[l] # NoVm
           /\ \A n \in DOMAIN mounts[insp[i].vm] : mounts[insp[i].vm][n] # l
           /\ mounts' = [mounts EXCEPT ![insp[i].vm] = <<l>> \o @]
    /\ BootStep(i, "read")
    /\ UNCHANGED <<local, loop, lazy, history>>

\* Mutant: the script goes on if nothing could be mounted.
MountFails_GoesOn(i) ==
    /\ insp[i].pc = "mount"
    /\ BootStep(i, "read")
    /\ UNCHANGED <<local, host, history>>

\* Nothing that can be mounted holds an os-release: the device is detached.
MountFails(i) ==
    /\ insp[i].pc = "mount"
    /\ Detach(insp[i].loop \cap {l \in Loops : loop[l] # NoVm})
    /\ End(i)
    /\ UNCHANGED local

\* The sections are printed from what is mounted on the directory now, and
\* parseOfflineVmBootInspection takes them for the VM's.
ReadSections(i) ==
    /\ insp[i].pc = "read"
    /\ insp' = [insp EXCEPT ![i].pc = "unmount",
                            ![i].seen = IF mounts[insp[i].vm] = <<>> THEN {NoVm}
                                        ELSE {loop[Head(mounts[insp[i].vm])]}]
    /\ UNCHANGED <<local, host, history>>

\* cleanup, at the end of the script: umount, and losetup -d.
CleanupUmount(i) ==
    /\ insp[i].pc = "unmount"
    /\ Unmount(insp[i].vm)
    /\ BootStep(i, "release")
    /\ UNCHANGED <<local, dirty, stray>>

CleanupDetach(i) ==
    /\ insp[i].pc = "release"
    /\ Detach(insp[i].loop \cap {l \in Loops : loop[l] # NoVm})
    /\ End(i)
    /\ UNCHANGED local

\* The script is killed; the diagnosis reports the error.
Die(i) ==
    /\ i \in Scripts
    /\ insp' = [insp EXCEPT ![i] = NoCall]
    /\ dirty' = dirty \cup {insp[i].vm} /\ stray' = TRUE
    /\ UNCHANGED <<local, host, upset>>

Report(i) ==
    /\ insp[i].pc = "done"
    /\ insp' = [insp EXCEPT ![i] = NoCall]
    /\ UNCHANGED <<local, host, history>>

BootNext ==
    \E i \in Inspections :
        \/ \E v \in Vms, ping \in BOOLEAN : diagnoseGuestAgent(i, v, ping)
        \/ diagnoseVmBoot(i) \/ Unsupported(i)
        \/ UmountWorkdir(i) \/ DetachAll(i) \/ NoDevice(i) \/ Attach(i)
        \/ MountDisk(i) \/ MountFails(i) \/ ReadSections(i)
        \/ CleanupUmount(i) \/ CleanupDetach(i) \/ Die(i) \/ Report(i)

BootSpec == BootInit /\ [][BootNext]_bootVars

-----------------------------------------------------------------------------
(* Properties. *)

\* A diagnosis shows the disk of its own VM, whatever scripts that died or
\* overlapped, or an umount that failed, have left mounted or attached, if no
\* other script ran meanwhile (one that did may take the loop device over).
EvidenceIsOwn ==
    \A i \in Inspections :
        insp[i].seen # {} /\ insp[i].alone => insp[i].seen = {insp[i].vm}

\* What a script that died has left is taken away by the next one: as long as no
\* two overlap and no umount fails (diagnostics.ts:43 and 67 go on if one does,
\* and leave what was mounted to lie below the next), nothing stays mounted for a
\* VM whose last script ended by itself, and a device stays attached only for what
\* is still mounted.
LeftoversHeal ==
    ~upset /\ Scripts = {} =>
        /\ \A v \in Vms \ dirty : mounts[v] = <<>>
        /\ ~stray => {l \in Loops : loop[l] # NoVm} \subseteq Mounted(mounts)

\* "the node-side inspection path is only used when guest-agent and cloud-init
\* level signals are insufficient" (tools/boot/register.ts:19): the node mounts no
\* disk of a VM whose guest agent has answered.
FallbackOnly ==
    \A i \in Inspections : insp[i].pc = "read" => ~insp[i].ping
=============================================================================
