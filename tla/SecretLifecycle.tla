--------------------------- MODULE SecretLifecycle ---------------------------
(***************************************************************************)
(* Steady-state credentials: the admin commands that create, replace and   *)
(* remove them (src/src/admin-enroll.ts, run by src/src/admin-cli.ts), the *)
(* secret document they are kept in (src/src/admin-secrets.ts) and the     *)
(* server that loads them (src/src/secrets.ts, src/src/startup.ts).        *)
(*                                                                         *)
(* Every admin command is a process of its own.  It runs a script on the   *)
(* host over SSH, one command after the other, and goes on when the script *)
(* has ended; if it dies before that, the script may go on without it.     *)
(* Nothing keeps two commands apart.  The configuration the server builds  *)
(* has one cluster, so one host and one document are modelled; names,      *)
(* expiry dates and the sudoers file are left out.                         *)
(***************************************************************************)
EXTENDS Naturals

CONSTANTS
    Admins,      \* admin commands that can be under way together
    Keys,        \* shell key pairs
    NoKey,
    MaxTokens    \* bound on the tokens the host mints

ASSUME KeysAndNoKey == NoKey \notin Keys
ASSUME MaxTokensNat == MaxTokens \in Nat

VARIABLES
    admin,       \* the admin commands
    document,    \* the secret document, NoDocument if there is none
    apiUser,     \* host: does the API user exist?
    hostToken,   \* host: the token it accepts, 0 for none
    hostKey,     \* host: authorized_keys of the shell user
    minted,      \* host: tokens minted so far
    server,      \* the MCP server and the secrets it uses
    issued,      \* token and key that one script put on the host
    period       \* enrolled: only enroll and rotate, all successful, since
                 \* all commands were last at rest

host == <<apiUser, hostToken, hostKey, minted>>
ghost == <<issued, period>>
vars == <<admin, document, host, server, ghost>>

\* How the shell identity is stored: a key with a pinned host key, one
\* without, or only a reference to a key kept elsewhere.
Kinds == {"key", "unpinned", "reference"}

ScriptStages == {"script", "keyed", "user", "deleted", "added",
                 "untokened", "unusered", "cleared"}
Stages == {"free", "read", "write", "temp", "written", "checked", "erase"} \cup ScriptStages

Commands == [pc : Stages, op : {"enroll", "rotate", "deprovision"}, kind : Kinds,
             key : Keys \cup {NoKey}, token : Nat, alive : BOOLEAN]

Document == [token : Nat, key : Keys, kind : Kinds]
NoDocument == [token |-> 0, key |-> NoKey, kind |-> "reference"]

Off == [pc |-> "down", token |-> 0, shell |-> NoKey, wanted |-> 0]
Free == [pc |-> "free", op |-> "enroll", kind |-> "key", key |-> NoKey,
         token |-> 0, alive |-> FALSE]

TypeOK ==
    /\ admin \in [Admins -> Commands]
    /\ document \in Document \cup {NoDocument}
    /\ apiUser \in BOOLEAN /\ hostToken \in Nat /\ minted \in Nat
    /\ hostKey \in Keys \cup {NoKey}
    /\ server \in [pc : {"down", "serving"}, token : Nat,
                   shell : Keys \cup {NoKey}, wanted : Nat]
    /\ issued \in SUBSET (Nat \X Keys)
    /\ period \in {"enrolled", "mixed"}

Init ==
    /\ admin = [a \in Admins |-> Free]
    /\ document = NoDocument
    /\ apiUser = FALSE /\ hostToken = 0 /\ hostKey = NoKey /\ minted = 0
    /\ server = Off
    /\ issued = {} /\ period = "mixed"

-----------------------------------------------------------------------------
(* The admin commands. *)

Go(a, stage) == admin' = [admin EXCEPT ![a].pc = stage]
End(a) == admin' = [admin EXCEPT ![a] = Free]

Quiet == \A a \in Admins : admin[a].pc = "free"

\* A command is given.
Begin(a, op, kind, key) ==
    /\ admin[a].pc = "free"
    /\ admin' = [admin EXCEPT ![a] =
           [pc |-> IF op = "enroll" THEN "script" ELSE "read", op |-> op,
            kind |-> kind, key |-> key, token |-> 0, alive |-> TRUE]]
    /\ period' = IF op # "deprovision" /\ (Quiet \/ period = "enrolled")
                 THEN "enrolled" ELSE "mixed"
    /\ UNCHANGED <<document, host, server, issued>>

\* rotate reads the document and goes on as enroll; deprovision stops if the
\* document holds no record of the identity.
ReadDocument(a) ==
    /\ admin[a].pc = "read"
    /\ \/ /\ admin[a].op = "rotate"
          /\ admin' = [admin EXCEPT ![a].pc = "script", ![a].op = "enroll"]
          /\ UNCHANGED period
       \/ /\ admin[a].op = "deprovision" /\ document # NoDocument
          /\ Go(a, "script") /\ UNCHANGED period
       \/ /\ admin[a].op = "deprovision" /\ document = NoDocument
          /\ End(a) /\ period' = "mixed"
    /\ UNCHANGED <<document, host, server, issued>>

\* The script of enroll and rotate: the shell user and its authorized_keys ...
InstallKey(a) ==
    /\ admin[a].pc = "script" /\ admin[a].op = "enroll"
    /\ Go(a, "keyed")
    /\ hostKey' = admin[a].key
    /\ UNCHANGED <<document, apiUser, hostToken, minted, server, ghost>>

\* ... pveum user add ...
AddUser(a) ==
    /\ admin[a].pc = "keyed"
    /\ Go(a, "user")
    /\ apiUser' = TRUE
    /\ UNCHANGED <<document, hostToken, hostKey, minted, server, ghost>>

\* ... pveum user token delete ...
DeleteToken(a) ==
    /\ admin[a].pc = "user"
    /\ Go(a, "deleted")
    /\ hostToken' = 0
    /\ UNCHANGED <<document, apiUser, hostKey, minted, server, ghost>>

\* ... pveum user token add, which fails without the user or if the id exists.
AddToken(a) ==
    /\ admin[a].pc = "deleted"
    /\ apiUser /\ hostToken = 0 /\ minted < MaxTokens
    /\ minted' = minted + 1
    /\ hostToken' = minted'
    /\ admin' = [admin EXCEPT ![a].pc = "added", ![a].token = minted']
    /\ issued' = issued \cup {<<minted', admin[a].key>>}
    /\ UNCHANGED <<document, apiUser, hostKey, server, period>>

\* The script of deprovision ignores the errors of its commands, so each one
\* may leave the host as it was: pveum user token delete ...
RemoveToken(a) ==
    /\ admin[a].pc = "script" /\ admin[a].op = "deprovision"
    /\ Go(a, "untokened")
    /\ hostToken' \in {0, hostToken}
    /\ UNCHANGED <<document, apiUser, hostKey, minted, server, ghost>>

\* ... pveum user delete, with the tokens of the user ...
RemoveUser(a) ==
    /\ admin[a].pc = "untokened"
    /\ Go(a, "unusered")
    /\ \/ apiUser' = FALSE /\ hostToken' = 0
       \/ UNCHANGED <<apiUser, hostToken>>
    /\ UNCHANGED <<document, hostKey, minted, server, ghost>>

\* ... userdel -r, which also fails while the user has a process.
RemoveShellUser(a) ==
    /\ admin[a].pc = "unusered"
    /\ Go(a, "cleared")
    /\ hostKey' \in {NoKey, hostKey}
    /\ UNCHANGED <<document, apiUser, hostToken, minted, server, ghost>>

\* The script has ended well and the command has its output.
ScriptDone(a) ==
    /\ admin[a].pc \in {"added", "cleared"} /\ admin[a].alive
    /\ Go(a, IF admin[a].pc = "added" THEN "write" ELSE "erase")
    /\ UNCHANGED <<document, host, server, ghost>>

\* atomicWriteJson: a temporary file first, which nobody reads ...
WriteTemp(a) ==
    /\ admin[a].pc = "write"
    /\ Go(a, "temp")
    /\ UNCHANGED <<document, host, server, ghost>>

\* Mutant: the new token is put next to the shell record of the old document.
Rename_KeepsKey(a) ==
    /\ admin[a].pc = "temp"
    /\ Go(a, "written")
    /\ document' = [token |-> admin[a].token, kind |-> admin[a].kind,
                    key |-> IF document = NoDocument THEN admin[a].key ELSE document.key]
    /\ UNCHANGED <<host, server, ghost>>

\* ... renamed to replace the document, with nothing of the old one in it.
Rename(a) ==
    /\ admin[a].pc = "temp"
    /\ Go(a, "written")
    /\ document' = [token |-> admin[a].token, key |-> admin[a].key, kind |-> admin[a].kind]
    /\ UNCHANGED <<host, server, ghost>>

\* Mutant: the host's answer is not looked at.
validateApiToken_Blind(a) ==
    /\ admin[a].pc = "written"
    /\ IF admin[a].kind = "reference" THEN End(a) ELSE Go(a, "checked")
    /\ UNCHANGED <<document, host, server, ghost>>

\* The new token is tried; that is all for a shell reference.
validateApiToken(a) ==
    /\ admin[a].pc = "written"
    /\ admin[a].token = hostToken
    /\ IF admin[a].kind = "reference" THEN End(a) ELSE Go(a, "checked")
    /\ UNCHANGED <<document, host, server, ghost>>

\* The new key is tried.
validateShellKey(a) ==
    /\ admin[a].pc = "checked"
    /\ admin[a].key = hostKey
    /\ End(a)
    /\ UNCHANGED <<document, host, server, ghost>>

\* deprovision ends by deleting the document.
EraseDocument(a) ==
    /\ admin[a].pc = "erase"
    /\ document' = NoDocument
    /\ End(a)
    /\ UNCHANGED <<host, server, ghost>>

\* The command fails or is killed, for whatever reason; a script that is under
\* way may go on without it.
Fail(a) ==
    /\ admin[a].pc # "free" /\ admin[a].alive
    /\ \/ End(a)
       \/ admin[a].pc \in ScriptStages /\ admin' = [admin EXCEPT ![a].alive = FALSE]
    /\ period' = "mixed"
    /\ UNCHANGED <<document, host, server, issued>>

\* A script nobody waits for ends, at its end or before.
OrphanEnds(a) ==
    /\ admin[a].pc # "free" /\ ~admin[a].alive
    /\ End(a)
    /\ UNCHANGED <<document, host, server, ghost>>

-----------------------------------------------------------------------------
(* The server. *)

\* bundleFromAdminSecretDocument and applyRuntimeShellSecret: only a key with
\* a pinned host key becomes a shell profile.
ShellOf(d) == IF d.kind = "key" THEN d.key ELSE NoKey

\* initializeRuntimeConfig: without an API token the server does not start.
StartServer ==
    /\ server.pc = "down"
    /\ document # NoDocument
    /\ server' = [pc |-> "serving", token |-> document.token,
                  shell |-> ShellOf(document), wanted |-> 0]
    /\ UNCHANGED <<admin, document, host, ghost>>

StopServer ==
    /\ server.pc = "serving"
    /\ server' = Off
    /\ UNCHANGED <<admin, document, host, ghost>>

\* SIGHUP: reloadSecrets passes over every cluster whose auth is no longer a
\* secret_ref, which is every cluster that was loaded before.  Only what the
\* reload was meant to load is noted.
Reload ==
    /\ server.pc = "serving"
    /\ document # NoDocument
    /\ server' = [server EXCEPT !.wanted = document.token]
    /\ UNCHANGED <<admin, document, host, ghost>>

AdminStep(a) ==
    \/ \E op \in {"enroll", "rotate"}, kind \in Kinds, key \in Keys :
          Begin(a, op, kind, key)
    \/ Begin(a, "deprovision", "reference", NoKey)
    \/ ReadDocument(a)
    \/ InstallKey(a) \/ AddUser(a) \/ DeleteToken(a) \/ AddToken(a)
    \/ RemoveToken(a) \/ RemoveUser(a) \/ RemoveShellUser(a)
    \/ ScriptDone(a) \/ WriteTemp(a) \/ Rename(a)
    \/ validateApiToken(a) \/ validateShellKey(a) \/ EraseDocument(a)
    \/ Fail(a) \/ OrphanEnds(a)

Next ==
    \/ \E a \in Admins : AdminStep(a)
    \/ StartServer \/ StopServer \/ Reload

Spec == Init /\ [][Next]_vars
-----------------------------------------------------------------------------
(* Properties. *)

\* Commands need no lock: if every enroll and rotate that ran since all were
\* at rest has reported success, however they overlapped, the document holds
\* the credentials the host accepts.  It rests on enroll writing the document
\* before it validates, and validating in the order token, key.
StoreAgreesWithHost ==
    Quiet /\ period = "enrolled" =>
        /\ document # NoDocument
        /\ document.token = hostToken
        /\ document.kind # "reference" => document.key = hostKey

\* The token and the shell key of the document, and those of the server, were
\* put on the host by one and the same script, whatever commands overlapped,
\* failed or were killed in between (enroll, atomicWriteJson,
\* bundleFromAdminSecretDocument).
PairsWhole ==
    /\ document # NoDocument => <<document.token, document.key>> \in issued
    /\ server.shell # NoKey => <<server.token, server.shell>> \in issued

\* Claimed by docs/operations.md ("send `SIGHUP` to trigger secret reload from
\* the configured backend"): after a reload the server uses the token that was
\* stored when it reloaded.
ReloadTakesEffect == server.wanted # 0 => server.token = server.wanted
=============================================================================
