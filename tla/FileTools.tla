------------------------------- MODULE FileTools -------------------------------
(***************************************************************************)
(* proxmox_file_read and proxmox_file_write, and the cloud-init snippet    *)
(* tools built on them (src/src/services.ts).  One file is modelled, on a  *)
(* node, in a container or in a VM, and for the snippets the list of       *)
(* content types of their storage, which is on the node.                   *)
(*                                                                         *)
(* On a node and in a container a tool runs shell commands over SSH: the   *)
(* shell truncates the file and base64 fills it, and others may come in    *)
(* between.  A command may stop at any step; ssh.ts reports one that ended *)
(* by a signal as exit code 0.  The session may break or the call may be   *)
(* aborted while the command goes on.  In a VM the guest agent opens the   *)
(* file, fills it and closes it, and reads it at once; any of this may     *)
(* fail, and the answer may be lost.                                       *)
(***************************************************************************)
EXTENDS Naturals, FiniteSets

CONSTANTS
    Ops,           \* tool calls that can be under way together
    Types          \* content types of a storage, besides one it always has

ASSUME SnippetsIsType == "snippets" \in Types

VARIABLES
    place,         \* where the file is: node, lxc or vm
    file,          \* its content
    types,         \* the content types of the storage
    op,            \* the calls
    meant,         \* history: what the file should hold, if that is known
    wanted         \* history: the content types the administrator has set

filesVars == <<place, file, types, op, meant, wanted>>

\* text, word (it could be base64), big (more than the agent returns): contents,
\* by how often they are encoded as base64.  The others are never encoded; an
\* empty file stands also for a first part of what was to be written.
Text(base) == [base |-> base, depth |-> 0]
Contents == {Text(b) : b \in {"text", "word"}}
Absent == Text("absent")
Empty == Text("empty")
Garbled == Text("garbled")
Files == [base : {"text", "word"}, depth : 0..1]
         \cup {Text("big"), Absent, Empty, Garbled}

Encode(c) == [c EXCEPT !.depth = @ + 1]

\* decodeMaybeBase64Buffer: what looks like base64 is decoded.
decodeMaybeBase64(c) ==
    CASE c.depth > 0 -> [c EXCEPT !.depth = @ - 1]
      [] c = Text("word") -> Garbled
      [] OTHER -> c

Writing == {"write", "put", "delete"}
Kinds == Writing \cup {"read", "get"}

\* known: the content types the command has read; cut: a command was reported as
\* successful though it did not run to its end; gone: the caller has its answer
\* already.  History: alone, nothing else came to the file since it was opened for
\* writing; edited, an administrator has changed the content types since the put
\* began; raw and due, what the file a read has found held and should hold.
NoOp == [pc |-> "free", kind |-> "read", content |-> {}, known |-> {}, cut |-> FALSE,
         gone |-> FALSE, alone |-> TRUE, edited |-> FALSE, got |-> {}, raw |-> {},
         due |-> {}, result |-> "none"]

Commands == {"types", "set", "open", "fill", "look", "rm", "agent"}

FileCalls ==
    [pc : {"free", "exit", "done"} \cup Commands, kind : Kinds,
     content : SUBSET Contents, known : SUBSET Types, cut : BOOLEAN,
     gone : BOOLEAN, alone : BOOLEAN, edited : BOOLEAN, got : SUBSET Files,
     raw : SUBSET Files, due : SUBSET Files, result : {"none", "ok", "failed"}]

FilesTypeOK ==
    /\ place \in {"node", "lxc", "vm"} /\ file \in Files
    /\ types \in SUBSET Types /\ wanted \in SUBSET Types
    /\ op \in [Ops -> FileCalls]
    /\ meant \in SUBSET Files /\ Cardinality(meant) <= 1

FilesInit ==
    /\ place \in {"node", "lxc", "vm"}
    /\ file = Absent /\ meant = {Absent}
    /\ types \in IF place = "node" THEN SUBSET Types ELSE {Types}
    /\ wanted = types
    /\ op = [o \in Ops |-> NoOp]

-----------------------------------------------------------------------------
(* Calls. *)

\* What is left of a call the caller has already given up is forgotten.
Ended(q, result) ==
    IF q.gone THEN NoOp ELSE [q EXCEPT !.pc = "done", !.known = {}, !.result = result]

\* Everyone else who writes the file, or has written it, is no longer alone.
Exposed(q) == q.kind \in Writing /\ q.pc \in {"fill", "exit", "done"}
Disturb(o) == [p \in Ops |-> IF p # o /\ Exposed(op[p])
                             THEN [op[p] EXCEPT !.alone = FALSE] ELSE op[p]]

\* proxmoxFileWriteBytes, proxmoxFileReadBytes: the transport is chosen by the
\* kind of the target.  The lookups before may fail, and so may the policy.
Begin(o, kind, content) ==
    /\ op[o].pc = "free"
    /\ kind \in {"put", "get", "delete"} => place = "node"
    /\ op' = [op EXCEPT ![o] = [NoOp EXCEPT
           !.kind = kind,
           !.content = IF kind \in {"write", "put"} THEN {content} ELSE {},
           !.pc = IF kind \in {"put", "get", "delete"} THEN "types"
                  ELSE IF kind = "write" THEN "open"
                  ELSE IF place = "vm" THEN "agent" ELSE "look"]]
    /\ UNCHANGED <<place, file, types, meant, wanted>>

\* getSnippetStorageRoot has returned: the next command, if the call goes on.
Rooted(q) ==
    IF q.gone THEN NoOp
    ELSE [q EXCEPT !.known = {},
                   !.pc = CASE q.kind = "put" -> "open"
                            [] q.kind = "get" -> "look"
                            [] q.kind = "delete" -> "rm"]

\* getSnippetStorageRoot, its first half: the content types are read from
\* storage.cfg.  Without snippets a put goes on to add them, the others fail.
ReadTypes(o) ==
    /\ op[o].pc = "types"
    /\ op' = [op EXCEPT ![o] =
           IF "snippets" \in types THEN Rooted(@)
           ELSE IF op[o].kind = "put" THEN [op[o] EXCEPT !.pc = "set", !.known = types]
           ELSE Ended(@, "failed")]
    /\ UNCHANGED <<place, file, types, meant, wanted>>

\* Mutant: the list is not extended but replaced.
SetTypes_Replaces(o) ==
    /\ op[o].pc = "set"
    /\ types' = {"snippets"}
    /\ op' = [op EXCEPT ![o] = Rooted(@)]
    /\ UNCHANGED <<place, file, meant, wanted>>

\* pvesm set --content "$current,snippets"
SetTypes(o) ==
    /\ op[o].pc = "set"
    /\ types' = op[o].known \cup {"snippets"}
    /\ op' = [op EXCEPT ![o] = Rooted(@)]
    /\ UNCHANGED <<place, file, meant, wanted>>

\* The shell opens the file for base64 -d, or the guest agent does, and thereby
\* empties it.
Open(o) ==
    /\ op[o].pc = "open"
    /\ file' = Empty /\ meant' = {}
    /\ op' = [Disturb(o) EXCEPT ![o].pc = "fill",
              ![o].alone = \A p \in Ops \ {o} : op[p].pc # "fill"]
    /\ UNCHANGED <<place, types, wanted>>

\* POST agent/file-write: the server encodes the content and asks for it to be
\* encoded (encode: true), and the agent decodes it once.
Written(c) == IF place = "vm" THEN Encode(c) ELSE c

\* Mutant: the text is written as it was sent.
Fill_Encoded(o) ==
    /\ op[o].pc = "fill"
    /\ \E c \in op[o].content :
           file' = Encode(c) /\ meant' = IF op[o].alone THEN {c} ELSE {}
    /\ op' = [Disturb(o) EXCEPT ![o].pc = "exit"]
    /\ UNCHANGED <<place, types, wanted>>

\* It is filled.  If another has been there since, the file holds this content or
\* a mixture, or it was removed and what is filled is no longer the file.
Fill(o) ==
    /\ op[o].pc = "fill"
    /\ \E c \in op[o].content :
           IF op[o].alone
           THEN file' = Written(c) /\ meant' = {c}
           ELSE /\ file' \in (IF file = Absent THEN {file}
                              ELSE {Written(c), Garbled, file})
                /\ meant' = {}
    /\ op' = [Disturb(o) EXCEPT ![o].pc = "exit"]
    /\ UNCHANGED <<place, types, wanted>>

\* There is no file to read, or there is and the call gets this of it.
Found(q, got) ==
    IF file = Absent THEN Ended(q, "failed")
    ELSE [q EXCEPT !.pc = "exit", !.got = {got}, !.raw = {file}, !.due = meant]

\* base64 -w0 FILE, decoded by the server.
Look(o) ==
    /\ op[o].pc = "look"
    /\ op' = [op EXCEPT ![o] = Found(@, file)]
    /\ UNCHANGED <<place, file, types, meant, wanted>>

\* rm -f
Remove(o) ==
    /\ op[o].pc = "rm"
    /\ file' = Absent /\ meant' = {Absent}
    /\ op' = [Disturb(o) EXCEPT ![o].pc = "exit"]
    /\ UNCHANGED <<place, types, wanted>>

\* Mutant: what the agent returns is taken as it is.
AgentRead_Raw(o) ==
    /\ op[o].pc = "agent"
    /\ op' = [op EXCEPT ![o] = Found(@, file)]
    /\ UNCHANGED <<place, file, types, meant, wanted>>

\* GET agent/file-read returns the text of the file, only the first part of a big
\* one (truncated is not looked at); what looks like base64 is decoded.
AgentRead(o) ==
    /\ op[o].pc = "agent"
    /\ op' = [op EXCEPT ![o] =
           Found(@, IF file = Text("big") THEN Garbled ELSE decodeMaybeBase64(file))]
    /\ UNCHANGED <<place, file, types, meant, wanted>>

\* The command has run and its result arrives.
Exit(o) ==
    /\ op[o].pc = "exit"
    /\ op' = [op EXCEPT ![o] = Ended(@, "ok")]
    /\ UNCHANGED <<place, file, types, meant, wanted>>

\* A command stops with an error, or the agent does.
Fail(o) ==
    /\ op[o].pc \in Commands \cup {"exit"}
    /\ op' = [op EXCEPT ![o] = Ended(@, "failed")]
    /\ UNCHANGED <<place, file, types, meant, wanted>>

\* A command is ended by a signal, which counts as exit code 0 (ssh.ts:99), with
\* what it has printed: of a file nothing.
Kill(o) ==
    /\ op[o].pc \in {"open", "fill", "look", "rm"} /\ place # "vm"
    /\ op' = [op EXCEPT ![o] =
           Ended([op[o] EXCEPT !.cut = TRUE,
                               !.got = IF op[o].pc = "look" THEN {Empty} ELSE {}], "ok")]
    /\ UNCHANGED <<place, file, types, meant, wanted>>

\* If that was the command that finds the storage, the rest of the call works
\* below /snippets instead: a get finds nothing there, a put may write there, and
\* a delete removes nothing.
KillRoot(o) ==
    /\ op[o].pc \in {"types", "set"}
    /\ \E result \in [put |-> {"ok", "failed"}, get |-> {"failed"},
                      delete |-> {"ok"}][op[o].kind] :
           op' = [op EXCEPT ![o] = Ended([op[o] EXCEPT !.cut = TRUE], result)]
    /\ UNCHANGED <<place, file, types, meant, wanted>>

\* The session breaks or the call is aborted: the caller is told so (or, if the
\* stream closes without an exit status, of success, as in Kill), and the command
\* goes on; the call has no other effect on the file.
Leave(o) ==
    /\ op[o].pc \in Commands \ {"agent"} /\ ~op[o].gone
    /\ op' = [op EXCEPT ![o].gone = TRUE]
    /\ UNCHANGED <<place, file, types, meant, wanted>>

Return(o) ==
    /\ op[o].pc = "done"
    /\ op' = [op EXCEPT ![o] = NoOp]
    /\ UNCHANGED <<place, file, types, meant, wanted>>

\* A process in the guest or an administrator writes the file; big files exist
\* only this way.
OtherWrites(c) ==
    /\ file' = c /\ meant' = {c}
    /\ op' = [o \in Ops |-> IF Exposed(op[o]) THEN [op[o] EXCEPT !.alone = FALSE]
                            ELSE op[o]]
    /\ UNCHANGED <<place, types, wanted>>

\* An administrator changes the content types of the storage.
AdminEdits(ts) ==
    /\ place = "node" /\ ts # types /\ types' = ts /\ wanted' = ts
    /\ op' = [o \in Ops |-> IF op[o].kind = "put" THEN [op[o] EXCEPT !.edited = TRUE]
                            ELSE op[o]]
    /\ UNCHANGED <<place, file, meant>>

FilesNext ==
    \/ \E o \in Ops :
           \/ \E kind \in Kinds, c \in Contents : Begin(o, kind, c)
           \/ ReadTypes(o) \/ SetTypes(o) \/ Open(o) \/ Fill(o) \/ Look(o)
           \/ Remove(o) \/ AgentRead(o)
           \/ Exit(o) \/ Fail(o) \/ Kill(o) \/ KillRoot(o) \/ Leave(o)
           \/ Return(o)
    \/ \E c \in Contents \cup {Text("big")} : OtherWrites(c)
    \/ \E ts \in SUBSET Types : AdminEdits(ts)

FilesSpec == FilesInit /\ [][FilesNext]_filesVars

-----------------------------------------------------------------------------
(* Properties. *)

\* A read returns what the last one to write the file meant it to hold, on every
\* transport and whatever was aborted, lost, removed or rewritten meanwhile: the
\* encodings on the way cancel out, and a half-written file is never one that
\* anybody meant.  Excepted are a command ended by a signal, and in a VM a file
\* the server did not write that looks like base64 or is too big for the agent
\* (proxmoxFileReadBytes, decodeMaybeBase64Buffer).
ReadsTrue ==
    \A o \in Ops :
        /\ op[o].result = "ok" /\ op[o].kind \in {"read", "get"} /\ ~op[o].cut
        /\ ~(place = "vm" /\ op[o].raw \subseteq {Text("word"), Text("big")})
        => op[o].due \in {{}, op[o].got}

\* A write, put or delete that reports success has happened: unless another has
\* come to the file meanwhile or the command was ended by a signal, the file on
\* the node or in the container holds the content, or is gone, and a put leaves
\* snippets among the content types unless an administrator takes them away.
WritesLand ==
    \A o \in Ops :
        op[o].result = "ok" /\ ~op[o].cut /\ op[o].alone /\ place # "vm" =>
            /\ op[o].kind \in {"write", "put"} => file \in op[o].content
            /\ op[o].kind = "delete" => file = Absent
            /\ op[o].kind = "put" /\ ~op[o].edited => "snippets" \in types

\* The content types of a storage are read by one command and set by the next:
\* whatever other puts do meanwhile, also one that works with a list an
\* administrator has changed long ago, a put that changes the list leaves every
\* type the administrator wants, unless the administrator has changed the list
\* since that put began (getSnippetStorageRoot).
ContentTypesKept ==
    [][\A o \in Ops :
           op[o].pc = "set" /\ op'[o].pc # "set" /\ ~op[o].edited
           => types' = types \/ wanted \subseteq types']_filesVars

\* "Writes file bytes using node SSH, `pct exec`, or guest-agent file APIs"
\* (services.ts:1074): a file written through the guest agent holds the content.
GuestGetsContent ==
    \A o \in Ops :
        op[o].result = "ok" /\ op[o].kind = "write" /\ op[o].alone /\ place = "vm" =>
            file \in op[o].content
=============================================================================
