------------------------ MODULE SecretLifecycleProofs ------------------------
(***************************************************************************)
(* Proofs about the steady-state credentials for any number of overlapping *)
(* admin commands, keys and tokens.  Commands take no lock, so the         *)
(* argument is about the last one that writes the document: it validates   *)
(* after it has written, and whoever touches the host after that has still *)
(* to write.                                                               *)
(***************************************************************************)
EXTENDS SecretLifecycle, TLAPS

\* The script of enroll has a key, and the token it minted goes with that key.
Enrolling == {"keyed", "user", "deleted", "added", "write", "temp", "written", "checked"}
Minted == {"added", "write", "temp", "written", "checked"}

CommandsSound ==
    \A a \in Admins :
        /\ admin[a].pc # "free" /\ admin[a].op # "deprovision" => admin[a].key \in Keys
        /\ admin[a].pc \in Enrolling => admin[a].op # "deprovision"
        /\ admin[a].pc \in Minted => <<admin[a].token, admin[a].key>> \in issued

\* The command has still to write the document.
Unwritten(a) ==
    admin[a].pc \in {"read", "script", "keyed", "user", "deleted", "added", "write", "temp"}

\* The document is the one that the command wrote.
Wrote(a) ==
    document = [token |-> admin[a].token, key |-> admin[a].key, kind |-> admin[a].kind]

\* While all commands enroll and succeed: none is an orphan, and unless someone
\* has still to write the document or the one who wrote it to validate it, it
\* agrees with the host, in the token and then in the key.
LastWriterValidates ==
    period = "enrolled" =>
        /\ \A a \in Admins :
               admin[a].pc # "free" =>
                   /\ admin[a].alive /\ admin[a].op # "deprovision"
                   /\ Unwritten(a) \/ admin[a].pc \in {"written", "checked"}
        /\ \/ \E a \in Admins : Unwritten(a)
           \/ \E a \in Admins : admin[a].pc = "written" /\ Wrote(a)
           \/ document # NoDocument /\ document.token = hostToken
        /\ \/ \E a \in Admins : Unwritten(a)
           \/ \E a \in Admins : admin[a].pc \in {"written", "checked"} /\ Wrote(a)
           \/ document # NoDocument /\ (document.kind # "reference" => document.key = hostKey)

SecretInv == TypeOK /\ CommandsSound /\ PairsWhole /\ LastWriterValidates

-----------------------------------------------------------------------------
(* Each step keeps the invariant. *)

\* What a step may change in a command.
LEMMA CommandUpdates ==
    ASSUME NEW c \in Commands
    PROVE  /\ \A stage \in Stages : [c EXCEPT !.pc = stage] \in Commands
           /\ [c EXCEPT !.pc = "script", !.op = "enroll"] \in Commands
           /\ \A n \in Nat : [c EXCEPT !.pc = "added", !.token = n] \in Commands
           /\ [c EXCEPT !.alive = FALSE] \in Commands
<1>1. "script" \in Stages /\ "added" \in Stages
  BY DEF Stages, ScriptStages
<1> QED
  BY <1>1 DEF Commands

\* A command goes on to another stage, or ends.
LEMMA CommandTyped ==
    ASSUME TypeOK, NEW a \in Admins
    PROVE  /\ \A stage \in Stages : Go(a, stage) => admin' \in [Admins -> Commands]
           /\ End(a) => admin' \in [Admins -> Commands]
           /\ \A c \in Commands : admin' = [admin EXCEPT ![a] = c] => admin' \in [Admins -> Commands]
<1>1. admin[a] \in Commands
  BY DEF TypeOK
<1>2. ASSUME NEW stage \in Stages, Go(a, stage)
      PROVE  admin' \in [Admins -> Commands]
  <2>1. admin' = [admin EXCEPT ![a] = [admin[a] EXCEPT !.pc = stage]]
    BY <1>2 DEF Go
  <2>2. [admin[a] EXCEPT !.pc = stage] \in Commands
    BY <1>1, CommandUpdates
  <2> QED
    BY <2>1, <2>2 DEF TypeOK
<1>3. Free \in Commands
  BY DEF Free, Commands, Stages, Kinds
<1> QED
  BY <1>2, <1>3 DEF End, TypeOK

\* Every command and the server keep the types.
LEMMA TypeStep ==
    ASSUME TypeOK, CommandsSound, Next
    PROVE  TypeOK'
<1> USE KeysAndNoKey, MaxTokensNat DEF TypeOK, Stages, ScriptStages, host, ghost, vars
<1>1. ASSUME NEW a \in Admins, NEW op \in {"enroll", "rotate"},
             NEW kind \in Kinds, NEW key \in Keys, Begin(a, op, kind, key)
      PROVE  TypeOK'
  <2>1. [pc |-> IF op = "enroll" THEN "script" ELSE "read", op |-> op, kind |-> kind, key |-> key,
         token |-> 0, alive |-> TRUE] \in Commands
    BY DEF Commands
  <2> QED
    BY <1>1, <2>1, CommandTyped DEF Begin
<1>2. ASSUME NEW a \in Admins, Begin(a, "deprovision", "reference", NoKey)
      PROVE  TypeOK'
  <2>1. [pc |-> IF "deprovision" = "enroll" THEN "script" ELSE "read", op |-> "deprovision",
         kind |-> "reference", key |-> NoKey, token |-> 0, alive |-> TRUE] \in Commands
    BY DEF Commands, Kinds
  <2> QED
    BY <1>2, <2>1, CommandTyped DEF Begin
<1>3. ASSUME NEW a \in Admins, ReadDocument(a)
      PROVE  TypeOK'
  <2>1. [admin[a] EXCEPT !.pc = "script", !.op = "enroll"] \in Commands
    BY CommandUpdates
  <2>2. admin' = [admin EXCEPT ![a].pc = "script", ![a].op = "enroll"] =>
            admin' = [admin EXCEPT ![a] = [admin[a] EXCEPT !.pc = "script", !.op = "enroll"]]
    OBVIOUS
  <2>3. admin' \in [Admins -> Commands]
    BY <1>3, <2>1, <2>2, CommandTyped DEF ReadDocument
  <2> QED
    BY <1>3, <2>3 DEF ReadDocument
<1>4. ASSUME NEW a \in Admins, InstallKey(a)
      PROVE  TypeOK'
  <2>1. admin[a].key \in Keys \cup {NoKey}
    BY DEF Commands
  <2> QED
    BY <1>4, <2>1, CommandTyped DEF InstallKey
<1>5. ASSUME NEW a \in Admins, AddUser(a)
      PROVE  TypeOK'
  BY <1>5, CommandTyped DEF AddUser
<1>6. ASSUME NEW a \in Admins, DeleteToken(a)
      PROVE  TypeOK'
  BY <1>6, CommandTyped DEF DeleteToken
<1>7. ASSUME NEW a \in Admins, AddToken(a)
      PROVE  TypeOK'
  <2>1. minted' \in Nat /\ minted' = minted + 1
    BY <1>7 DEF AddToken
  <2>2. admin[a].key \in Keys
    BY <1>7 DEF AddToken, CommandsSound, Enrolling
  <2>3. [admin[a] EXCEPT !.pc = "added", !.token = minted'] \in Commands
    BY <2>1, CommandUpdates
  <2>4. admin' = [admin EXCEPT ![a] = [admin[a] EXCEPT !.pc = "added", !.token = minted']]
    BY <1>7 DEF AddToken
  <2>5. admin' \in [Admins -> Commands]
    BY <2>3, <2>4
  <2> QED
    BY <1>7, <2>1, <2>5, <2>2 DEF AddToken
<1>8. ASSUME NEW a \in Admins, RemoveToken(a)
      PROVE  TypeOK'
  BY <1>8, CommandTyped DEF RemoveToken
<1>9. ASSUME NEW a \in Admins, RemoveUser(a)
      PROVE  TypeOK'
  <2>1. admin' \in [Admins -> Commands]
    BY <1>9, CommandTyped DEF RemoveUser
  <2>2. apiUser' \in BOOLEAN
    BY <1>9, Zenon DEF RemoveUser
  <2>3. hostToken' \in Nat
    BY <1>9 DEF RemoveUser
  <2> QED
    BY <1>9, <2>1, <2>2, <2>3 DEF RemoveUser
<1>10. ASSUME NEW a \in Admins, RemoveShellUser(a)
      PROVE  TypeOK'
  BY <1>10, CommandTyped DEF RemoveShellUser
<1>11. ASSUME NEW a \in Admins, ScriptDone(a)
      PROVE  TypeOK'
  BY <1>11, CommandTyped DEF ScriptDone
<1>12. ASSUME NEW a \in Admins, WriteTemp(a)
      PROVE  TypeOK'
  BY <1>12, CommandTyped DEF WriteTemp
<1>13. ASSUME NEW a \in Admins, Rename(a)
      PROVE  TypeOK'
  <2>1. document' \in Document
    BY <1>13 DEF Rename, Commands, CommandsSound, Enrolling, Document
  <2> QED
    BY <1>13, <2>1, CommandTyped DEF Rename
<1>14. ASSUME NEW a \in Admins, validateApiToken(a)
      PROVE  TypeOK'
  BY <1>14, CommandTyped DEF validateApiToken
<1>15. ASSUME NEW a \in Admins, validateShellKey(a)
      PROVE  TypeOK'
  BY <1>15, CommandTyped DEF validateShellKey
<1>16. ASSUME NEW a \in Admins, EraseDocument(a)
      PROVE  TypeOK'
  BY <1>16, CommandTyped DEF EraseDocument
<1>17. ASSUME NEW a \in Admins, Fail(a)
      PROVE  TypeOK'
  <2>1. [admin[a] EXCEPT !.alive = FALSE] \in Commands
    BY CommandUpdates
  <2>2. admin' = [admin EXCEPT ![a].alive = FALSE] =>
            admin' = [admin EXCEPT ![a] = [admin[a] EXCEPT !.alive = FALSE]]
    OBVIOUS
  <2> QED
    BY <1>17, <2>1, <2>2, CommandTyped DEF Fail
<1>18. ASSUME NEW a \in Admins, OrphanEnds(a)
      PROVE  TypeOK'
  BY <1>18, CommandTyped DEF OrphanEnds
<1>19. CASE StartServer
  BY <1>19 DEF StartServer, ShellOf, Document
<1>20. CASE StopServer
  BY <1>20 DEF StopServer, Off
<1>21. CASE Reload
  BY <1>21 DEF Reload, Document
<1> QED
  BY <1>1, <1>2, <1>3, <1>4, <1>5, <1>6, <1>7, <1>8, <1>9, <1>10, <1>11, <1>12, <1>13,
     <1>14, <1>15, <1>16, <1>17, <1>18, <1>19, <1>20, <1>21 DEF Next, AdminStep

\* A command keeps its key, and its token goes with it.
LEMMA CommandsStep ==
    ASSUME TypeOK, CommandsSound, Next
    PROVE  CommandsSound'
<1> USE KeysAndNoKey DEF TypeOK, Commands, CommandsSound, Enrolling, Minted, Free, host,
        ghost, vars
<1>1. ASSUME NEW a \in Admins, NEW op \in {"enroll", "rotate"},
             NEW kind \in Kinds, NEW key \in Keys, Begin(a, op, kind, key)
      PROVE  CommandsSound'
  BY <1>1 DEF Begin
<1>2. ASSUME NEW a \in Admins, Begin(a, "deprovision", "reference", NoKey)
      PROVE  CommandsSound'
  BY <1>2 DEF Begin
<1>3. ASSUME NEW a \in Admins, ReadDocument(a)
      PROVE  CommandsSound'
  BY <1>3 DEF ReadDocument, Go, End
<1>4. ASSUME NEW a \in Admins, InstallKey(a)
      PROVE  CommandsSound'
  BY <1>4 DEF InstallKey, Go
<1>5. ASSUME NEW a \in Admins, AddUser(a)
      PROVE  CommandsSound'
  BY <1>5 DEF AddUser, Go
<1>6. ASSUME NEW a \in Admins, DeleteToken(a)
      PROVE  CommandsSound'
  BY <1>6 DEF DeleteToken, Go
<1>7. ASSUME NEW a \in Admins, AddToken(a)
      PROVE  CommandsSound'
  BY <1>7 DEF AddToken
<1>8. ASSUME NEW a \in Admins, RemoveToken(a)
      PROVE  CommandsSound'
  BY <1>8 DEF RemoveToken, Go
<1>9. ASSUME NEW a \in Admins, RemoveUser(a)
      PROVE  CommandsSound'
  BY <1>9 DEF RemoveUser, Go
<1>10. ASSUME NEW a \in Admins, RemoveShellUser(a)
      PROVE  CommandsSound'
  BY <1>10 DEF RemoveShellUser, Go
<1>11. ASSUME NEW a \in Admins, ScriptDone(a)
      PROVE  CommandsSound'
  BY <1>11 DEF ScriptDone, Go
<1>12. ASSUME NEW a \in Admins, WriteTemp(a)
      PROVE  CommandsSound'
  BY <1>12 DEF WriteTemp, Go
<1>13. ASSUME NEW a \in Admins, Rename(a)
      PROVE  CommandsSound'
  BY <1>13 DEF Rename, Go
<1>14. ASSUME NEW a \in Admins, validateApiToken(a)
      PROVE  CommandsSound'
  BY <1>14 DEF validateApiToken, Go, End
<1>15. ASSUME NEW a \in Admins, validateShellKey(a)
      PROVE  CommandsSound'
  BY <1>15 DEF validateShellKey, End
<1>16. ASSUME NEW a \in Admins, EraseDocument(a)
      PROVE  CommandsSound'
  BY <1>16 DEF EraseDocument, End
<1>17. ASSUME NEW a \in Admins, Fail(a)
      PROVE  CommandsSound'
  BY <1>17 DEF Fail, End
<1>18. ASSUME NEW a \in Admins, OrphanEnds(a)
      PROVE  CommandsSound'
  BY <1>18 DEF OrphanEnds, End
<1>19. CASE StartServer
  BY <1>19 DEF StartServer, ShellOf
<1>20. CASE StopServer
  BY <1>20 DEF StopServer
<1>21. CASE Reload
  BY <1>21 DEF Reload
<1> QED
  BY <1>1, <1>2, <1>3, <1>4, <1>5, <1>6, <1>7, <1>8, <1>9, <1>10, <1>11, <1>12, <1>13,
     <1>14, <1>15, <1>16, <1>17, <1>18, <1>19, <1>20, <1>21 DEF Next, AdminStep

\* The document and the server take over whole pairs.
LEMMA PairsStep ==
    ASSUME TypeOK, CommandsSound, PairsWhole, Next
    PROVE  PairsWhole'
<1> USE KeysAndNoKey DEF PairsWhole, TypeOK, Commands, CommandsSound, Minted, Document,
        NoDocument, Off, host, ghost, vars
<1>1. ASSUME NEW a \in Admins, NEW op \in {"enroll", "rotate"},
             NEW kind \in Kinds, NEW key \in Keys, Begin(a, op, kind, key)
      PROVE  PairsWhole'
  BY <1>1 DEF Begin
<1>2. ASSUME NEW a \in Admins, Begin(a, "deprovision", "reference", NoKey)
      PROVE  PairsWhole'
  BY <1>2 DEF Begin
<1>3. ASSUME NEW a \in Admins, ReadDocument(a)
      PROVE  PairsWhole'
  BY <1>3 DEF ReadDocument, Go, End
<1>4. ASSUME NEW a \in Admins, InstallKey(a)
      PROVE  PairsWhole'
  BY <1>4 DEF InstallKey, Go
<1>5. ASSUME NEW a \in Admins, AddUser(a)
      PROVE  PairsWhole'
  BY <1>5 DEF AddUser, Go
<1>6. ASSUME NEW a \in Admins, DeleteToken(a)
      PROVE  PairsWhole'
  BY <1>6 DEF DeleteToken, Go
<1>7. ASSUME NEW a \in Admins, AddToken(a)
      PROVE  PairsWhole'
  BY <1>7 DEF AddToken
<1>8. ASSUME NEW a \in Admins, RemoveToken(a)
      PROVE  PairsWhole'
  BY <1>8 DEF RemoveToken, Go
<1>9. ASSUME NEW a \in Admins, RemoveUser(a)
      PROVE  PairsWhole'
  BY <1>9 DEF RemoveUser, Go
<1>10. ASSUME NEW a \in Admins, RemoveShellUser(a)
      PROVE  PairsWhole'
  BY <1>10 DEF RemoveShellUser, Go
<1>11. ASSUME NEW a \in Admins, ScriptDone(a)
      PROVE  PairsWhole'
  BY <1>11 DEF ScriptDone, Go
<1>12. ASSUME NEW a \in Admins, WriteTemp(a)
      PROVE  PairsWhole'
  BY <1>12 DEF WriteTemp, Go
<1>13. ASSUME NEW a \in Admins, Rename(a)
      PROVE  PairsWhole'
  BY <1>13 DEF Rename, Go
<1>14. ASSUME NEW a \in Admins, validateApiToken(a)
      PROVE  PairsWhole'
  BY <1>14 DEF validateApiToken, Go, End
<1>15. ASSUME NEW a \in Admins, validateShellKey(a)
      PROVE  PairsWhole'
  BY <1>15 DEF validateShellKey, End
<1>16. ASSUME NEW a \in Admins, EraseDocument(a)
      PROVE  PairsWhole'
  BY <1>16 DEF EraseDocument, End
<1>17. ASSUME NEW a \in Admins, Fail(a)
      PROVE  PairsWhole'
  BY <1>17 DEF Fail, End
<1>18. ASSUME NEW a \in Admins, OrphanEnds(a)
      PROVE  PairsWhole'
  BY <1>18 DEF OrphanEnds, End
<1>19. CASE StartServer
  BY <1>19 DEF StartServer, ShellOf
<1>20. CASE StopServer
  BY <1>20 DEF StopServer
<1>21. CASE Reload
  BY <1>21 DEF Reload
<1> QED
  BY <1>1, <1>2, <1>3, <1>4, <1>5, <1>6, <1>7, <1>8, <1>9, <1>10, <1>11, <1>12, <1>13,
     <1>14, <1>15, <1>16, <1>17, <1>18, <1>19, <1>20, <1>21 DEF Next, AdminStep

\* The last writer validates what it wrote.
LEMMA WriterStep ==
    ASSUME TypeOK, CommandsSound, LastWriterValidates, Next
    PROVE  LastWriterValidates'
<1> USE KeysAndNoKey DEF LastWriterValidates, Unwritten, Wrote, TypeOK, Commands,
        CommandsSound, Document, NoDocument, Free, host, ghost, vars
<1>1. ASSUME NEW a \in Admins, NEW op \in {"enroll", "rotate"},
             NEW kind \in Kinds, NEW key \in Keys, Begin(a, op, kind, key)
      PROVE  LastWriterValidates'
  <2> USE <1>1 DEF Begin
  <2>1. /\ admin'[a].pc \in {"read", "script"} /\ admin'[a].alive /\ admin'[a].op # "deprovision"
        /\ \A b \in Admins : b # a => admin'[b] = admin[b]
    OBVIOUS
  <2>2. Unwritten(a)'
    BY <2>1
  <2>3. ASSUME NEW b \in Admins, admin'[b].pc # "free", period' = "enrolled"
        PROVE  /\ admin'[b].alive /\ admin'[b].op # "deprovision"
               /\ Unwritten(b)' \/ admin'[b].pc \in {"written", "checked"}
    <3>1. CASE b = a
      BY <2>1, <2>2, <3>1
    <3>2. CASE b # a
      BY <2>1, <2>3, <3>2 DEF Quiet
    <3> QED
      BY <3>1, <3>2
  <2> QED
    BY <2>2, <2>3
<1>2. ASSUME NEW a \in Admins, Begin(a, "deprovision", "reference", NoKey)
      PROVE  LastWriterValidates'
  BY <1>2 DEF Begin
<1>3. ASSUME NEW a \in Admins, ReadDocument(a)
      PROVE  LastWriterValidates'
  BY <1>3 DEF ReadDocument, Go, End
<1>4. ASSUME NEW a \in Admins, InstallKey(a)
      PROVE  LastWriterValidates'
  BY <1>4 DEF InstallKey, Go
<1>5. ASSUME NEW a \in Admins, AddUser(a)
      PROVE  LastWriterValidates'
  BY <1>5 DEF AddUser, Go
<1>6. ASSUME NEW a \in Admins, DeleteToken(a)
      PROVE  LastWriterValidates'
  BY <1>6 DEF DeleteToken, Go
<1>7. ASSUME NEW a \in Admins, AddToken(a)
      PROVE  LastWriterValidates'
  BY <1>7 DEF AddToken
<1>8. ASSUME NEW a \in Admins, RemoveToken(a)
      PROVE  LastWriterValidates'
  BY <1>8 DEF RemoveToken, Go
<1>9. ASSUME NEW a \in Admins, RemoveUser(a)
      PROVE  LastWriterValidates'
  BY <1>9 DEF RemoveUser, Go
<1>10. ASSUME NEW a \in Admins, RemoveShellUser(a)
      PROVE  LastWriterValidates'
  BY <1>10 DEF RemoveShellUser, Go
<1>11. ASSUME NEW a \in Admins, ScriptDone(a)
      PROVE  LastWriterValidates'
  BY <1>11 DEF ScriptDone, Go
<1>12. ASSUME NEW a \in Admins, WriteTemp(a)
      PROVE  LastWriterValidates'
  BY <1>12 DEF WriteTemp, Go
<1>13. ASSUME NEW a \in Admins, Rename(a)
      PROVE  LastWriterValidates'
  BY <1>13 DEF Rename, Go
<1>14. ASSUME NEW a \in Admins, validateApiToken(a)
      PROVE  LastWriterValidates'
  <2> USE <1>14 DEF validateApiToken
  <2>1. CASE admin[a].kind = "reference" /\ End(a)
    <3>1. admin'[a].pc = "free" /\ \A b \in Admins : b # a => admin'[b] = admin[b]
      BY <2>1 DEF End
    <3>2. ASSUME period = "enrolled", Wrote(a)
          PROVE  document # NoDocument /\ document.token = hostToken /\ document.kind = "reference"
      BY <2>1, <3>2
    <3>3. ASSUME NEW b \in Admins, Unwritten(b)
          PROVE  Unwritten(b)'
      BY <3>1, <3>3
    <3> QED
      BY <3>1, <3>2, <3>3
  <2>2. CASE admin[a].kind # "reference" /\ Go(a, "checked")
    BY <2>2 DEF Go
  <2> QED
    BY <2>1, <2>2
<1>15. ASSUME NEW a \in Admins, validateShellKey(a)
      PROVE  LastWriterValidates'
  BY <1>15 DEF validateShellKey, End
<1>16. ASSUME NEW a \in Admins, EraseDocument(a)
      PROVE  LastWriterValidates'
  BY <1>16 DEF EraseDocument, End
<1>17. ASSUME NEW a \in Admins, Fail(a)
      PROVE  LastWriterValidates'
  BY <1>17 DEF Fail, End
<1>18. ASSUME NEW a \in Admins, OrphanEnds(a)
      PROVE  LastWriterValidates'
  BY <1>18 DEF OrphanEnds, End
<1>19. CASE StartServer
  BY <1>19 DEF StartServer, ShellOf
<1>20. CASE StopServer
  BY <1>20 DEF StopServer
<1>21. CASE Reload
  BY <1>21 DEF Reload
<1> HIDE DEF LastWriterValidates, Unwritten, Wrote, TypeOK, Commands, CommandsSound
<1> QED
  BY <1>1, <1>2, <1>3, <1>4, <1>5, <1>6, <1>7, <1>8, <1>9, <1>10, <1>11, <1>12, <1>13,
     <1>14, <1>15, <1>16, <1>17, <1>18, <1>19, <1>20, <1>21 DEF Next, AdminStep

-----------------------------------------------------------------------------
(* The theorems. *)

\* The invariant of the admin commands, whichever overlap, fail or are killed.
THEOREM SecretInvariant == Spec => []SecretInv
<1>1. Init => SecretInv
  <2> SUFFICES ASSUME Init
               PROVE  SecretInv
    OBVIOUS
  <2>1. TypeOK
    BY DEF Init, TypeOK, Commands, Stages, ScriptStages, Kinds, Free, Off
  <2>2. CommandsSound /\ PairsWhole /\ LastWriterValidates
    BY DEF Init, CommandsSound, Enrolling, Minted, PairsWhole, LastWriterValidates, Free,
       Off
  <2> QED
    BY <2>1, <2>2 DEF SecretInv
<1>2. SecretInv /\ [Next]_vars => SecretInv'
  <2> SUFFICES ASSUME SecretInv, [Next]_vars
               PROVE  SecretInv'
    OBVIOUS
  <2>1. CASE Next
    BY <2>1, TypeStep, CommandsStep, PairsStep, WriterStep DEF SecretInv
  <2>2. CASE UNCHANGED vars
    BY <2>2 DEF vars, host, ghost, SecretInv, TypeOK, CommandsSound, PairsWhole,
       LastWriterValidates, Unwritten, Wrote
  <2> QED
    BY <2>1, <2>2
<1> QED
  BY <1>1, <1>2, PTL DEF Spec

\* The document and the server never hold the token of one enrollment next to
\* the shell key of another.
THEOREM PairsStayWhole == Spec => []PairsWhole
BY SecretInvariant, PTL DEF SecretInv

\* Without a lock, enrollments that all report success leave the document in
\* agreement with the host.
THEOREM StoreAgrees == Spec => []StoreAgreesWithHost
<1>1. SecretInv => StoreAgreesWithHost
  BY DEF SecretInv, LastWriterValidates, Unwritten, StoreAgreesWithHost, Quiet
<1> QED
  BY <1>1, SecretInvariant, PTL
=============================================================================
