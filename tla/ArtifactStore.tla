---------------------------- MODULE ArtifactStore ----------------------------
(***************************************************************************)
(* ArtifactManager (src/src/artifacts.ts): tool results too large to be    *)
(* inlined, kept in memory or in a temporary file, and files linked into   *)
(* the same name space, each with a time after which it may not be read.   *)
(*                                                                         *)
(* Creating, reading and removing await the file system (or Proxmox, for a *)
(* file there) and interleave; between two awaits they run alone.  Of a    *)
(* file only its state is kept, and every artifact has one of its own:     *)
(* mkdtemp gives a fresh directory.  Ids are fresh, so an id is used once. *)
(***************************************************************************)
EXTENDS Naturals

CONSTANTS
    Ids,         \* artifacts
    Readers,     \* reads that can be under way together
    Ttl,         \* defaultTtlMs
    MaxTime      \* bound on the clock

ASSUME TtlNat == Ttl \in Nat
ASSUME ClockNat == MaxTime \in Nat

VARIABLES
    now,
    stage,       \* where the artifact's creation or removal stands
    held,        \* the artifacts map: ids with a record
    backing,     \* of the record: what is behind the artifact
    expiresAt,   \* of the record; Never if it does not expire
    file,        \* the file behind it
    reader,      \* the reads
    fate         \* history: what has befallen the artifact or its file

record == <<backing, expiresAt>>
vars == <<now, stage, held, record, file, reader, fate>>

Never == MaxTime + Ttl + 1

\* What linkLocalFile and linkProxmoxFile register: files of someone else.
Links == {"local_file", "proxmox_file"}
Backings == {"memory", "temp_file"} \cup Links

\* unwritten, unremoved: writing or deleting the file failed; expired: found so
\* by get; changed: rewritten or deleted by its owner; forgotten: lost in a restart.
Fates == {"unwritten", "expired", "removed", "unremoved", "changed", "forgotten"}

\* data: the whole payload; torn: less than that, returned as if it were all;
\* the others are errors.
Results == {"none", "data", "torn", "missing", "failed", "unknown", "expired"}

Resting == [pc |-> "idle", id |-> "none", result |-> "none"]

TypeOK ==
    /\ now \in 0..MaxTime
    /\ stage \in [Ids -> {"unborn", "writing", "settled", "removing"}]
    /\ held \in SUBSET Ids
    /\ backing \in [Ids -> Backings]
    /\ expiresAt \in [Ids -> 0..Never]
    /\ file \in [Ids -> {"absent", "partial", "whole"}]
    /\ reader \in [Readers ->
           [pc : {"idle", "reading", "done"}, id : Ids \cup {"none"},
            result : Results]]
    /\ fate \in [Ids -> SUBSET Fates]

Init ==
    /\ now = 0
    /\ stage = [i \in Ids |-> "unborn"]
    /\ held = {}
    /\ backing = [i \in Ids |-> "memory"]
    /\ expiresAt = [i \in Ids |-> Never]
    /\ file = [i \in Ids |-> "absent"]
    /\ reader = [r \in Readers |-> Resting]
    /\ fate = [i \in Ids |-> {}]

-----------------------------------------------------------------------------
(* Creating and linking. *)

Befalls(i, events) == fate' = [fate EXCEPT ![i] = @ \cup events]

\* createBaseRecord: expiry counts from here, before a file is written.
createBaseRecord(i, b, expires) ==
    /\ stage[i] = "unborn"
    /\ backing' = [backing EXCEPT ![i] = b]
    /\ expiresAt' = [expiresAt EXCEPT ![i] = IF expires THEN now + Ttl ELSE Never]

\* A small payload, or a link: the record is there at once.
CreateAtOnce(i, b, expires) ==
    /\ b # "temp_file"
    /\ createBaseRecord(i, b, expires)
    /\ stage' = [stage EXCEPT ![i] = "settled"]
    /\ held' = held \cup {i}
    /\ file' = [file EXCEPT ![i] = IF b \in Links THEN "whole" ELSE "absent"]
    /\ UNCHANGED <<now, reader, fate>>

\* A large payload is written to a temporary file first ...
CreateTempFile(i, expires) ==
    /\ createBaseRecord(i, "temp_file", expires)
    /\ stage' = [stage EXCEPT ![i] = "writing"]
    /\ file' = [file EXCEPT ![i] = "partial"]
    /\ UNCHANGED <<now, held, reader, fate>>

\* ... and then set in the map.
WriteEnds(i) ==
    /\ stage[i] = "writing"
    /\ stage' = [stage EXCEPT ![i] = "settled"]
    /\ file' = [file EXCEPT ![i] = "whole"]
    /\ held' = held \cup {i}
    /\ UNCHANGED <<now, record, reader, fate>>

\* mkdtemp or writeFile fails: the call ends, what was written stays.
WriteFails(i) ==
    /\ stage[i] = "writing"
    /\ stage' = [stage EXCEPT ![i] = "settled"]
    /\ \E f \in {"absent", "partial"} : file' = [file EXCEPT ![i] = f]
    /\ Befalls(i, {"unwritten"})
    /\ UNCHANGED <<now, held, record, reader>>

-----------------------------------------------------------------------------
(* Reading. *)

Finish(r, i, result) ==
    reader' = [reader EXCEPT ![r] = [pc |-> "done", id |-> i, result |-> result]]

Lapsed(i) == expiresAt[i] <= now

\* Mutant: get also deletes the file of an expired artifact.
get_Cleans(i) ==
    IF i \in held /\ Lapsed(i)
    THEN /\ held' = held \ {i} /\ Befalls(i, {"expired"})
         /\ file' = [file EXCEPT ![i] = IF backing[i] \in Links THEN @ ELSE "absent"]
    ELSE UNCHANGED <<held, fate, file>>

\* get drops the record of an expired artifact, not its file.
get(i) ==
    IF i \in held /\ Lapsed(i)
    THEN held' = held \ {i} /\ Befalls(i, {"expired"}) /\ UNCHANGED file
    ELSE UNCHANGED <<held, fate, file>>

\* A client reads an artifact it was given: a payload in memory is returned, a
\* file is awaited.
readArtifactBuffer(r, i) ==
    /\ reader[r].pc = "idle"
    /\ stage[i] \in {"settled", "removing"} /\ "unwritten" \notin fate[i]
    /\ get(i)
    /\ \/ i \notin held /\ Finish(r, i, "unknown")
       \/ i \in held /\ Lapsed(i) /\ Finish(r, i, "expired")
       \/ /\ i \in held /\ ~Lapsed(i) /\ backing[i] = "memory"
          /\ Finish(r, i, "data")
       \/ /\ i \in held /\ ~Lapsed(i) /\ backing[i] # "memory"
          /\ reader' = [reader EXCEPT ![r] =
                            [pc |-> "reading", id |-> i, result |-> "none"]]
    /\ UNCHANGED <<now, stage, record>>

\* fs.readFile gives what is in the file; any read may fail.
LocalRead(i) ==
    {"failed", CASE file[i] = "whole" -> "data"
                 [] file[i] = "partial" -> "torn"
                 [] OTHER -> "missing"}

\* proxmoxFileReadBytes may also return the first part of a file the guest agent
\* has truncated, or nothing at all when the command was killed on the node
\* (ssh.ts:99), and fails when the policy, the audit record or the request does.
RemoteRead(i) == LocalRead(i) \cup {"torn"}

\* The file has been read.
FileRead(r) ==
    LET i == reader[r].id IN
    /\ reader[r].pc = "reading"
    /\ \E result \in IF backing[i] = "proxmox_file" THEN RemoteRead(i) ELSE LocalRead(i) :
           Finish(r, i, result)
    /\ UNCHANGED <<now, stage, held, record, file, fate>>

ReadReturns(r) ==
    /\ reader[r].pc = "done"
    /\ reader' = [reader EXCEPT ![r] = Resting]
    /\ UNCHANGED <<now, stage, held, record, file, fate>>

-----------------------------------------------------------------------------
(* Removing, and what happens to files and to the server. *)

\* Mutant: cleanupPath is not looked at.
Cleanup_Any(i) == backing[i] # "memory"

\* cleanupPath: only a file the manager has written is deleted.
Cleanup(i) == backing[i] = "temp_file"

\* Mutant: only the record is removed.
remove_Record(i) ==
    /\ i \in held
    /\ held' = held \ {i}
    /\ Befalls(i, {"removed"})
    /\ UNCHANGED <<now, stage, record, file, reader>>

remove(i) ==
    /\ i \in held
    /\ held' = held \ {i}
    /\ stage' = [stage EXCEPT ![i] = IF Cleanup(i) THEN "removing" ELSE @]
    /\ Befalls(i, {"removed"})
    /\ UNCHANGED <<now, record, file, reader>>

RmEnds(i) ==
    /\ stage[i] = "removing"
    /\ stage' = [stage EXCEPT ![i] = "settled"]
    /\ \/ file' = [file EXCEPT ![i] = "absent"] /\ UNCHANGED fate
       \/ Befalls(i, {"unremoved"}) /\ UNCHANGED file
    /\ UNCHANGED <<now, held, record, reader>>

\* The owner of a linked file writes or deletes it.
LinkedFileChanges(i) ==
    /\ stage[i] # "unborn" /\ backing[i] \in Links
    /\ \E f \in {"absent", "partial", "whole"} : file' = [file EXCEPT ![i] = f]
    /\ Befalls(i, {"changed"})
    /\ UNCHANGED <<now, stage, held, record, reader>>

\* A restart forgets all records and every operation under way.
Restart ==
    /\ held' = {}
    /\ stage' = [i \in Ids |-> IF stage[i] = "unborn" THEN "unborn" ELSE "settled"]
    /\ reader' = [r \in Readers |-> Resting]
    /\ fate' = [i \in Ids |-> IF stage[i] = "unborn" THEN {}
                              ELSE fate[i] \cup {"forgotten"}]
    /\ UNCHANGED <<now, record, file>>

Tick ==
    /\ now < MaxTime /\ now' = now + 1
    /\ UNCHANGED <<stage, held, record, file, reader, fate>>

Next ==
    \/ \E i \in Ids :
           \/ \E b \in Backings, e \in BOOLEAN : CreateAtOnce(i, b, e)
           \/ \E e \in BOOLEAN : CreateTempFile(i, e)
           \/ WriteEnds(i) \/ WriteFails(i)
           \/ remove(i) \/ RmEnds(i) \/ LinkedFileChanges(i)
    \/ \E r \in Readers :
           \/ \E i \in Ids : readArtifactBuffer(r, i)
           \/ FileRead(r) \/ ReadReturns(r)
    \/ Restart \/ Tick

Spec == Init /\ [][Next]_vars

-----------------------------------------------------------------------------
(* Properties. *)

\* A read ends with the whole payload, or there is a reason: expired only after
\* its time, unknown only if it was removed, found expired or lost in a restart,
\* the file missing only if it was removed or changed by its owner, and less than
\* the whole only if the file is on Proxmox or its owner has rewritten it.  In
\* particular a read that get has let pass is not hurt by another one that finds
\* the artifact expired meanwhile, what the manager keeps itself is returned
\* whole, and what is in memory is never lost to an error of a file.
ReadsExplained ==
    \A r \in Readers :
        LET i == reader[r].id
        IN  /\ reader[r].result = "torn" =>
                   \/ backing[i] = "proxmox_file"
                   \/ backing[i] = "local_file" /\ "changed" \in fate[i]
            /\ reader[r].result = "failed" => backing[i] # "memory"
            /\ reader[r].result = "expired" => Lapsed(i)
            /\ reader[r].result = "unknown" =>
                   fate[i] \cap {"removed", "expired", "forgotten"} # {}
            /\ reader[r].result = "missing" =>
                   fate[i] \cap {"removed", "changed"} # {}

\* The manager deletes no file it did not write: a linked file goes only when
\* its owner deletes it, whatever is removed, expires or is read.
LinkedFilesKept ==
    \A i \in Ids :
        backing[i] \in Links /\ file[i] = "absent" => "changed" \in fate[i]

\* "Removes an artifact and any managed temp file behind it." (artifacts.ts:191):
\* a temporary file that no record and no operation under way accounts for is
\* one whose artifact was found expired, whose write or removal failed or whose
\* server was restarted, and never one that was simply removed.
FilesAccounted ==
    \A i \in Ids :
        /\ backing[i] = "temp_file" /\ file[i] # "absent"
        /\ i \notin held /\ stage[i] = "settled"
        => fate[i] \cap {"expired", "unwritten", "unremoved", "forgotten"} # {}
=============================================================================
