------------------------- MODULE NodeOperationsProofs -------------------------
(***************************************************************************)
(* Proofs about the file tools, for any number of calls and content types, *)
(* and about the boot inspection, for any number of calls, VMs and loop    *)
(* devices.                                                                *)
(***************************************************************************)
EXTENDS NodeOperations, FiniteSetTheorems, SequenceTheorems, TLAPS

-----------------------------------------------------------------------------
(* The file tools: the invariant. *)

\* Which call runs which command, and that it has no result before its end.
Stage(q) ==
    /\ q.pc # "done" => q.result = "none"
    /\ q.pc \in {"types", "set", "look", "rm"} => place # "vm"
    /\ q.pc = "types" => q.kind \in {"put", "get", "delete"}
    /\ q.pc = "set" => q.kind = "put"
    /\ q.pc \in {"open", "fill"} => q.kind \in {"write", "put"}
    /\ q.pc = "look" => q.kind \in {"read", "get"}
    /\ q.pc = "rm" => q.kind = "delete"
    /\ q.pc = "agent" => place = "vm" /\ q.kind = "read"

\* What a read has, a write has left and a put has made sure of.
ReadTrue(q) ==
    /\ q.kind \in {"read", "get"}
    /\ ~(place = "vm" /\ q.raw \subseteq {Text("word"), Text("big")})
    => q.due \in {{}, q.got}

WriteLanded(q) ==
    q.alone /\ place # "vm" =>
        /\ q.kind \in {"write", "put"} => file \in q.content
        /\ q.kind = "delete" => file = Absent

PutRooted(q) == q.kind = "put" /\ ~q.edited => "snippets" \in types

\* What a call that ends with success has to show.
Landed(q) == ~q.cut => ReadTrue(q) /\ WriteLanded(q) /\ PutRooted(q)

CallInv(q) ==
    /\ Stage(q)
    /\ q.pc = "exit" \/ q.result = "ok" => Landed(q)
    /\ q.pc \in {"open", "fill"} => PutRooted(q)
    /\ q.pc = "set" /\ ~q.edited => q.known = wanted

\* The file holds what was meant, if that is known: as it is, or in a VM as the
\* server decodes it.
FileMeant ==
    IF place = "vm"
    THEN file \in {Text("word"), Text("big")} \/ meant \in {{}, {decodeMaybeBase64(file)}}
    ELSE meant \in {{}, {file}}

\* A list without snippets is the administrator's: no put has changed it since.
ListWanted == "snippets" \notin types => types = wanted

FilesInv ==
    /\ FilesTypeOK /\ FileMeant /\ ListWanted
    /\ \A o \in Ops : CallInv(op[o])

-----------------------------------------------------------------------------
(* The file tools: what the operators on a call's record do. *)

\* The other contents of a file are not absent, and an encoding is undone by one
\* decoding.
LEMMA FileFacts ==
    /\ Contents \subseteq Files /\ {Absent, Empty, Garbled, Text("big")} \subseteq Files
    /\ \A c \in Contents : Encode(c) \in Files /\ decodeMaybeBase64(Encode(c)) = c
    /\ \A c \in {Text("text"), Absent, Empty, Garbled} : decodeMaybeBase64(c) = c
    /\ \A c \in Files : decodeMaybeBase64(c) \in Files
    /\ \A c \in Contents : c = Text("text") \/ c = Text("word")
<1> USE DEF Text, Contents, Absent, Empty, Garbled, Files, Encode, decodeMaybeBase64
<1>1. Contents \subseteq Files /\ {Absent, Empty, Garbled, Text("big")} \subseteq Files
  OBVIOUS
<1>2. \A c \in Contents : c = Text("text") \/ c = Text("word")
  OBVIOUS
<1>3. ASSUME NEW c \in Contents
      PROVE  Encode(c) \in Files /\ decodeMaybeBase64(Encode(c)) = c
  <2>1. PICK b \in {"text", "word"} : c = [base |-> b, depth |-> 0]
    OBVIOUS
  <2> DEFINE e == [base |-> b, depth |-> 1]
  <2>2. Encode(c) = e
    BY <2>1
  <2>3. decodeMaybeBase64(e) = [base |-> b, depth |-> 0] /\ e \in Files
    OBVIOUS
  <2> HIDE DEF Encode, decodeMaybeBase64, e, Files
  <2> QED
    BY <2>1, <2>2, <2>3
<1>4. \A c \in {Text("text"), Absent, Empty, Garbled} : decodeMaybeBase64(c) = c
  OBVIOUS
<1>5. \A c \in Files : decodeMaybeBase64(c) \in Files
  OBVIOUS
<1> QED
  BY <1>1, <1>2, <1>3, <1>4, <1>5

\* A call that is free.
LEMMA NoOpCall == NoOp \in FileCalls /\ CallInv(NoOp)
<1>1. NoOp \in FileCalls
  BY DEF NoOp, FileCalls, Kinds, Writing
<1>2. NoOp.pc = "free" /\ NoOp.result = "none"
  BY DEF NoOp
<1> QED
  BY <1>1, <1>2 DEF CallInv, Stage, Commands

\* A call ends with success only if it has something to show.
LEMMA EndedCall ==
    ASSUME NEW q \in FileCalls, NEW result \in {"ok", "failed"}, result = "ok" => Landed(q)
    PROVE  Ended(q, result) \in FileCalls /\ CallInv(Ended(q, result))
<1>1. CASE q.gone
  BY <1>1, NoOpCall DEF Ended
<1>2. CASE ~q.gone
  <2> DEFINE d == [q EXCEPT !.pc = "done", !.known = {}, !.result = result]
  <2>1. /\ d \in FileCalls /\ d.pc = "done" /\ d.result = result /\ d.kind = q.kind
        /\ d.content = q.content /\ d.cut = q.cut /\ d.alone = q.alone /\ d.edited = q.edited
        /\ d.got = q.got /\ d.raw = q.raw /\ d.due = q.due
    BY DEF FileCalls
  <2>2. Ended(q, result) = d
    BY <1>2 DEF Ended
  <2> HIDE DEF d
  <2>3. CallInv(d)
    BY <2>1 DEF CallInv, Stage, Commands, Landed, ReadTrue, WriteLanded, PutRooted
  <2> QED
    BY <2>1, <2>2, <2>3
<1> QED
  BY <1>1, <1>2

\* The storage has snippets among its content types.
LEMMA RootedCall ==
    ASSUME NEW q \in FileCalls, q.kind \in {"put", "get", "delete"}, q.result = "none",
           "snippets" \in types, place # "vm"
    PROVE  Rooted(q) \in FileCalls /\ CallInv(Rooted(q))
<1>1. CASE q.gone
  BY <1>1, NoOpCall DEF Rooted
<1>2. CASE ~q.gone
  <2> DEFINE pc == CASE q.kind = "put" -> "open" [] q.kind = "get" -> "look" [] q.kind = "delete" -> "rm"
             d == [q EXCEPT !.known = {}, !.pc = pc]
  <2>1. /\ pc \in Commands
        /\ pc \notin {"set", "exit", "done", "types", "agent"}
        /\ pc \in {"open", "fill"} => q.kind = "put"
        /\ pc = "look" => q.kind = "get"
        /\ pc = "rm" => q.kind = "delete"
    BY DEF Commands
  <2> HIDE DEF pc
  <2>2. d \in FileCalls /\ d.pc = pc /\ d.result = "none" /\ d.kind = q.kind
    BY <2>1 DEF FileCalls
  <2>3. Rooted(q) = d
    BY <1>2 DEF Rooted, pc
  <2> HIDE DEF d
  <2>4. CallInv(d)
    BY <2>1, <2>2 DEF CallInv, Stage, Commands, PutRooted
  <2> QED
    BY <2>2, <2>3, <2>4
<1> QED
  BY <1>1, <1>2

\* A file is read that holds what was meant.
LEMMA FoundCall ==
    ASSUME FilesTypeOK, NEW q \in FileCalls, q.kind \in {"read", "get"}, q.result = "none",
           NEW got \in Files,
           ~(place = "vm" /\ file \in {Text("word"), Text("big")}) => meant \in {{}, {got}}
    PROVE  Found(q, got) \in FileCalls /\ CallInv(Found(q, got))
<1>1. CASE file = Absent
  BY <1>1, EndedCall DEF Found
<1>2. CASE file # Absent
  <2> DEFINE d == [q EXCEPT !.pc = "exit", !.got = {got}, !.raw = {file}, !.due = meant]
  <2>1. /\ d \in FileCalls /\ d.pc = "exit" /\ d.result = "none" /\ d.kind = q.kind
        /\ d.got = {got} /\ d.raw = {file} /\ d.due = meant
    BY DEF FileCalls, FilesTypeOK
  <2>2. Found(q, got) = d
    BY <1>2 DEF Found
  <2> HIDE DEF d
  <2>3. ReadTrue(d)
    BY <2>1 DEF ReadTrue
  <2>4. CallInv(d)
    BY <2>1, <2>3 DEF CallInv, Stage, Commands, Landed, WriteLanded, PutRooted
  <2> QED
    BY <2>1, <2>2, <2>4
<1> QED
  BY <1>1, <1>2

-----------------------------------------------------------------------------
(* The file tools: every step keeps the invariant. *)

\* A step of call o that leaves the file and the storage alone.
FileMoves(o) ==
    /\ \E r \in FileCalls : op' = [op EXCEPT ![o] = r] /\ CallInv(r)
    /\ UNCHANGED <<place, file, types, meant, wanted>>

\* Such a step keeps the invariant.
LEMMA FileMovesStep ==
    ASSUME FilesInv, NEW o \in Ops, FileMoves(o)
    PROVE  FilesInv'
<1> USE DEF FilesInv
<1>1. PICK r \in FileCalls : op' = [op EXCEPT ![o] = r] /\ CallInv(r)
  BY DEF FileMoves
<1>2. UNCHANGED <<place, file, types, meant, wanted>>
  BY DEF FileMoves
<1>3. FilesTypeOK' /\ FileMeant' /\ ListWanted'
  BY <1>1, <1>2 DEF FilesTypeOK, FileMeant, ListWanted
<1>4. ASSUME NEW p \in Ops
      PROVE  CallInv(op[p])'
  <2>1. CallInv(op'[p])
    BY <1>1 DEF FilesTypeOK
  <2> QED
    BY <1>2, <2>1 DEF CallInv, Stage, Landed, ReadTrue, WriteLanded, PutRooted
<1> QED
  BY <1>3, <1>4

\* A step by which a file is written or removed, by call o: everyone else who
\* had written it is no longer alone.
FileChanges(o) ==
    /\ \E r \in FileCalls : op' = [Disturb(o) EXCEPT ![o] = r] /\ CallInv(r)'
    /\ file' \in Files
    /\ meant' = {} \/ \E c \in Files : meant' = {c}
    /\ UNCHANGED <<place, types, wanted>>

\* The calls that no longer are alone stay as they should be.
LEMMA DisturbedCall ==
    ASSUME NEW q \in FileCalls, CallInv(q), UNCHANGED <<place, types, wanted>>
    PROVE  /\ ~Exposed(q) => CallInv(q)'
           /\ [q EXCEPT !.alone = FALSE] \in FileCalls
           /\ CallInv([q EXCEPT !.alone = FALSE])'
<1>1. ASSUME ~Exposed(q)
      PROVE  CallInv(q)'
  <2>1. q.pc = "exit" \/ q.result = "ok" => q.kind \in {"read", "get"}
    BY <1>1 DEF CallInv, Stage, Exposed, FileCalls, Kinds
  <2> QED
    BY <2>1 DEF CallInv, Stage, Commands, Landed, ReadTrue, WriteLanded, PutRooted
<1> DEFINE d == [q EXCEPT !.alone = FALSE]
<1>2. /\ d \in FileCalls /\ d.pc = q.pc /\ d.result = q.result /\ d.kind = q.kind
      /\ d.content = q.content /\ d.cut = q.cut /\ d.alone = FALSE /\ d.edited = q.edited
      /\ d.got = q.got /\ d.raw = q.raw /\ d.due = q.due /\ d.known = q.known
  BY DEF FileCalls
<1> HIDE DEF d
<1>3. PICK x : x = d
  OBVIOUS
<1>4. CallInv(x)'
  BY <1>2, <1>3 DEF CallInv, Stage, Landed, ReadTrue, WriteLanded, PutRooted
<1> QED
  BY <1>1, <1>2, <1>3, <1>4 DEF d

\* Such a step keeps the invariant, if the file then holds what is meant.
LEMMA FileChangesStep ==
    ASSUME FilesInv, NEW o \in Ops, FileChanges(o), FileMeant'
    PROVE  FilesInv'
<1> USE DEF FilesInv
<1>1. PICK r \in FileCalls : op' = [Disturb(o) EXCEPT ![o] = r] /\ CallInv(r)'
  BY DEF FileChanges
<1>2. ASSUME NEW p \in Ops
      PROVE  op'[p] \in FileCalls /\ CallInv(op[p])'
  <2>1. CASE p = o
    <3>1. op'[p] = r
      BY <1>1, <2>1 DEF Disturb
    <3> QED
      BY <1>1, <3>1 DEF CallInv, Stage, Landed, ReadTrue, WriteLanded, PutRooted
  <2>2. CASE p # o
    <3>1. PICK q \in FileCalls : q = op[p] /\ CallInv(q)
      BY DEF FilesTypeOK
    <3>2. PICK x : x = IF Exposed(q) THEN [q EXCEPT !.alone = FALSE] ELSE q
      OBVIOUS
    <3>3. op'[p] = x
      BY <1>1, <2>2, <3>1, <3>2 DEF Disturb
    <3>4. x \in FileCalls /\ CallInv(x)'
      BY <3>1, <3>2, DisturbedCall DEF FileChanges
    <3> QED
      BY <3>3, <3>4 DEF CallInv, Stage, Landed, ReadTrue, WriteLanded, PutRooted
  <2> QED
    BY <2>1, <2>2
<1>3. FilesTypeOK'
  <2>1. op' \in [Ops -> FileCalls]
    BY <1>1, <1>2 DEF Disturb
  <2>2. meant' \in SUBSET Files /\ Cardinality(meant') <= 1
    <3>1. CASE meant' = {}
      BY <3>1, FS_EmptySet
    <3>2. ASSUME NEW c \in Files, meant' = {c}
          PROVE  meant' \in SUBSET Files /\ Cardinality(meant') <= 1
      <4>1. Cardinality({c}) = 1
        BY FS_Singleton
      <4> QED
        BY <3>2, <4>1
    <3> QED
      BY <3>1, <3>2 DEF FileChanges
  <2> QED
    BY <2>1, <2>2 DEF FileChanges, FilesTypeOK
<1> QED
  BY <1>2, <1>3 DEF FileChanges, ListWanted

\* The call that has written or removed the file, or has opened it.
LEMMA WrittenCall ==
    ASSUME NEW q \in FileCalls, CallInv(q), NEW pc \in {"fill", "exit"}, NEW alone \in BOOLEAN,
           q.pc \in {"open", "fill", "rm"}, q.kind \in Writing,
           pc = "fill" => q.pc = "open",
           UNCHANGED <<place, types, wanted>>,
           pc = "exit" /\ alone /\ place # "vm" =>
               IF q.kind = "delete" THEN file' = Absent ELSE file' \in q.content
    PROVE  /\ [q EXCEPT !.pc = pc, !.alone = alone] \in FileCalls
           /\ CallInv([q EXCEPT !.pc = pc, !.alone = alone])'
<1> DEFINE d == [q EXCEPT !.pc = pc, !.alone = alone]
<1>1. /\ d \in FileCalls /\ d.pc = pc /\ d.result = q.result /\ d.kind = q.kind
      /\ d.content = q.content /\ d.cut = q.cut /\ d.alone = alone /\ d.edited = q.edited
  BY DEF FileCalls, Commands
<1> HIDE DEF d
<1>2. PICK x : x = d
  OBVIOUS
<1>3. q.result = "none" /\ (PutRooted(q)' \/ q.kind # "put")
  BY DEF CallInv, Stage, Commands, PutRooted, Writing
<1>4. Stage(x)' /\ PutRooted(x)'
  BY <1>1, <1>2, <1>3 DEF CallInv, Stage, Commands, PutRooted
<1>5. x.pc = "exit" => Landed(x)'
  BY <1>1, <1>2, <1>4 DEF Landed, ReadTrue, WriteLanded, Writing
<1>6. CallInv(x)'
  BY <1>1, <1>2, <1>3, <1>4, <1>5 DEF CallInv
<1> QED
  BY <1>1, <1>2, <1>6 DEF d

\* The steps that write or remove the file.
LEMMA WriteStep ==
    ASSUME FilesInv, NEW o \in Ops, Open(o) \/ Fill(o) \/ Remove(o)
    PROVE  FilesInv'
<1> USE DEF FilesInv
<1>1. PICK q \in FileCalls : q = op[o] /\ CallInv(q)
  BY DEF FilesTypeOK
<1>2. Disturb(o)[o] = q /\ DOMAIN Disturb(o) = Ops
  BY <1>1 DEF Disturb
<1>3. ASSUME NEW pc \in {"fill", "exit"}, NEW alone \in BOOLEAN,
             op' = [Disturb(o) EXCEPT ![o] = [q EXCEPT !.pc = pc, !.alone = alone]],
             q.pc \in {"open", "fill", "rm"}, q.kind \in Writing,
             pc = "fill" => q.pc = "open",
             pc = "exit" /\ alone /\ place # "vm" =>
                 IF q.kind = "delete" THEN file' = Absent ELSE file' \in q.content,
             file' \in Files, meant' = {} \/ \E c \in Files : meant' = {c},
             UNCHANGED <<place, types, wanted>>, FileMeant'
      PROVE  FilesInv'
  <2>1. PICK r : r = [q EXCEPT !.pc = pc, !.alone = alone]
    OBVIOUS
  <2>2. [q EXCEPT !.pc = pc, !.alone = alone] \in FileCalls /\ CallInv([q EXCEPT !.pc = pc, !.alone = alone])'
    BY <1>1, <1>3, WrittenCall
  <2>3. r \in FileCalls /\ CallInv(r)' /\ op' = [Disturb(o) EXCEPT ![o] = r]
    BY <1>3, <2>1, <2>2
  <2>4. FileChanges(o)
    BY <1>3, <2>3 DEF FileChanges
  <2> QED
    BY <1>3, <2>4, FileChangesStep
<1>4. q.alone \in BOOLEAN /\ [q EXCEPT !.pc = "exit"] = [q EXCEPT !.pc = "exit", !.alone = q.alone]
  BY DEF FileCalls
<1>5. ASSUME op' = [Disturb(o) EXCEPT ![o].pc = "exit"]
      PROVE  op' = [Disturb(o) EXCEPT ![o] = [q EXCEPT !.pc = "exit", !.alone = q.alone]]
  BY <1>2, <1>4, <1>5
<1>6. CASE Open(o)
  <2> DEFINE alone == \A p \in Ops \ {o} : op[p].pc # "fill"
  <2>1. op' = [Disturb(o) EXCEPT ![o] = [q EXCEPT !.pc = "fill", !.alone = alone]]
    BY <1>2, <1>6 DEF Open
  <2>2. alone \in BOOLEAN
    OBVIOUS
  <2> HIDE DEF alone
  <2>3. q.pc = "open" /\ q.kind \in Writing
    BY <1>1, <1>6 DEF Open, CallInv, Stage, Writing
  <2>4. /\ file' \in Files /\ meant' = {} /\ UNCHANGED <<place, types, wanted>>
    BY <1>6, FileFacts DEF Open
  <2>5. FileMeant'
    BY <2>4 DEF FileMeant
  <2> QED
    BY <1>3, <2>1, <2>2, <2>3, <2>4, <2>5
<1>7. CASE Fill(o)
  <2>1. PICK c \in q.content :
            /\ q.alone => file' = Written(c) /\ meant' = {c}
            /\ ~q.alone => file' \in {Written(c), Garbled, file} /\ meant' = {}
    BY <1>1, <1>7 DEF Fill
  <2>2. q.pc = "fill" /\ q.kind \in {"write", "put"} /\ UNCHANGED <<place, types, wanted>>
    BY <1>1, <1>7 DEF Fill, CallInv, Stage
  <2>3. PICK w \in Files :
            w = Written(c) /\ (IF place = "vm" THEN decodeMaybeBase64(w) = c ELSE w = c)
    BY FileFacts DEF Written, FileCalls
  <2>4. c \in Contents /\ c \in Files /\ file' \in Files
    BY <2>1, <2>3, FileFacts DEF FileCalls, FilesTypeOK
  <2>5. FileMeant'
    BY <2>1, <2>2, <2>3, FileFacts DEF FileMeant
  <2>6. op' = [Disturb(o) EXCEPT ![o] = [q EXCEPT !.pc = "exit", !.alone = q.alone]]
    BY <1>5, <1>7 DEF Fill
  <2>7. q.alone /\ place # "vm" => file' \in q.content
    BY <2>1, <2>3
  <2> QED
    BY <1>3, <1>4, <2>1, <2>2, <2>4, <2>5, <2>6, <2>7 DEF Writing
<1>8. CASE Remove(o)
  <2>1. /\ q.pc = "rm" /\ q.kind = "delete" /\ UNCHANGED <<place, types, wanted>>
        /\ file' = Absent /\ meant' = {Absent}
    BY <1>1, <1>8 DEF Remove, CallInv, Stage
  <2>2. FileMeant' /\ Absent \in Files
    BY <2>1, FileFacts DEF FileMeant
  <2>3. op' = [Disturb(o) EXCEPT ![o] = [q EXCEPT !.pc = "exit", !.alone = q.alone]]
    BY <1>5, <1>8 DEF Remove
  <2> QED
    BY <1>3, <1>4, <2>1, <2>2, <2>3 DEF Writing
<1> QED
  BY <1>6, <1>7, <1>8

\* The steps of a call that leave the file and the storage alone.
LEMMA QuietStep ==
    ASSUME FilesInv, NEW o \in Ops,
           \/ \E kind \in Kinds, c \in Contents : Begin(o, kind, c)
           \/ ReadTypes(o) \/ Look(o) \/ AgentRead(o) \/ Exit(o) \/ Fail(o)
           \/ Kill(o) \/ KillRoot(o) \/ Leave(o) \/ Return(o)
    PROVE  FileMoves(o)
<1> USE DEF FilesInv
<1>1. PICK q \in FileCalls : q = op[o] /\ CallInv(q)
  BY DEF FilesTypeOK
<1>2. ASSUME NEW r, op' = [op EXCEPT ![o] = r], r \in FileCalls, CallInv(r),
             UNCHANGED <<place, file, types, meant, wanted>>
      PROVE  FileMoves(o)
  BY <1>2 DEF FileMoves
<1>3. ASSUME NEW kind \in Kinds, NEW c \in Contents, Begin(o, kind, c)
      PROVE  FileMoves(o)
  <2> DEFINE content == IF kind \in {"write", "put"} THEN {c} ELSE {}
             pc == IF kind \in {"put", "get", "delete"} THEN "types"
                   ELSE IF kind = "write" THEN "open"
                   ELSE IF place = "vm" THEN "agent" ELSE "look"
             d == [NoOp EXCEPT !.kind = kind, !.content = content, !.pc = pc]
  <2>1. /\ op' = [op EXCEPT ![o] = d] /\ UNCHANGED <<place, file, types, meant, wanted>>
        /\ kind \in {"put", "get", "delete"} => place = "node"
    BY <1>3 DEF Begin
  <2>2. /\ content \in SUBSET Contents /\ pc \in Commands \ {"set", "fill", "rm"}
        /\ pc = "types" => kind \in {"put", "get", "delete"}
        /\ pc \in {"types", "look"} => place # "vm"
        /\ pc = "open" => kind = "write"
        /\ pc = "look" => kind = "read"
        /\ pc = "agent" => place = "vm" /\ kind = "read"
    BY <2>1 DEF Commands, Kinds, Writing
  <2> HIDE DEF content, pc
  <2>3. d \in FileCalls /\ d.pc = pc /\ d.kind = kind /\ d.result = "none"
    BY <2>2, NoOpCall DEF NoOp, FileCalls
  <2> HIDE DEF d
  <2>4. CallInv(d)
    BY <2>2, <2>3 DEF CallInv, Stage, PutRooted, Commands
  <2> QED
    BY <1>2, <2>1, <2>3, <2>4
<1>4. CASE ReadTypes(o)
  <2>1. /\ q.pc = "types" /\ q.kind \in {"put", "get", "delete"} /\ q.result = "none"
        /\ place # "vm" /\ UNCHANGED <<place, file, types, meant, wanted>>
    BY <1>1, <1>4 DEF ReadTypes, CallInv, Stage, Commands
  <2>2. CASE "snippets" \in types
    <3>1. op' = [op EXCEPT ![o] = Rooted(q)]
      BY <1>1, <1>4, <2>2 DEF ReadTypes
    <3> QED
      BY <1>2, <2>1, <2>2, <3>1, RootedCall
  <2>3. CASE "snippets" \notin types /\ q.kind = "put"
    <3> DEFINE d == [q EXCEPT !.pc = "set", !.known = types]
    <3>1. op' = [op EXCEPT ![o] = d]
      BY <1>1, <1>4, <2>3 DEF ReadTypes
    <3>2. d \in FileCalls /\ d.pc = "set" /\ d.kind = "put" /\ d.result = "none" /\ d.known = types
      BY <2>1, <2>3 DEF FileCalls, Commands, FilesTypeOK
    <3> HIDE DEF d
    <3>3. CallInv(d)
      BY <2>1, <2>3, <3>2 DEF CallInv, Stage, ListWanted
    <3> QED
      BY <1>2, <2>1, <3>1, <3>2, <3>3
  <2>4. CASE "snippets" \notin types /\ q.kind # "put"
    <3>1. op' = [op EXCEPT ![o] = Ended(q, "failed")]
      BY <1>1, <1>4, <2>4 DEF ReadTypes
    <3> QED
      BY <1>2, <2>1, <3>1, EndedCall
  <2> QED
    BY <2>2, <2>3, <2>4
<1>5. CASE Look(o)
  <2>1. op' = [op EXCEPT ![o] = Found(q, file)] /\ UNCHANGED <<place, file, types, meant, wanted>>
    BY <1>1, <1>5 DEF Look
  <2>2. q.kind \in {"read", "get"} /\ q.result = "none" /\ file \in Files /\ place # "vm"
    BY <1>1, <1>5 DEF Look, CallInv, Stage, Commands, FilesTypeOK
  <2> QED
    BY <1>2, <2>1, <2>2, FoundCall DEF FileMeant
<1>6. CASE AgentRead(o)
  <2> DEFINE got == IF file = Text("big") THEN Garbled ELSE decodeMaybeBase64(file)
  <2>1. op' = [op EXCEPT ![o] = Found(q, got)] /\ UNCHANGED <<place, file, types, meant, wanted>>
    BY <1>1, <1>6 DEF AgentRead
  <2>2. q.kind = "read" /\ q.result = "none" /\ place = "vm"
    BY <1>1, <1>6 DEF AgentRead, CallInv, Stage
  <2>3. got \in Files /\ (file \notin {Text("word"), Text("big")} => meant \in {{}, {got}})
    BY <2>2, FileFacts DEF FileMeant, FilesTypeOK
  <2> HIDE DEF got
  <2> QED
    BY <1>2, <2>1, <2>2, <2>3, FoundCall
<1>7. CASE Exit(o)
  <2>1. op' = [op EXCEPT ![o] = Ended(q, "ok")] /\ UNCHANGED <<place, file, types, meant, wanted>>
    BY <1>1, <1>7 DEF Exit
  <2>2. Landed(q)
    BY <1>1, <1>7 DEF Exit, CallInv
  <2> QED
    BY <1>2, <2>1, <2>2, EndedCall
<1>8. CASE Fail(o)
  <2>1. op' = [op EXCEPT ![o] = Ended(q, "failed")] /\ UNCHANGED <<place, file, types, meant, wanted>>
    BY <1>1, <1>8 DEF Fail
  <2> QED
    BY <1>2, <2>1, EndedCall
<1>9. CASE Kill(o)
  <2> DEFINE got == IF q.pc = "look" THEN {Empty} ELSE {}
             d == [q EXCEPT !.cut = TRUE, !.got = got]
  <2>1. op' = [op EXCEPT ![o] = Ended(d, "ok")] /\ UNCHANGED <<place, file, types, meant, wanted>>
    BY <1>1, <1>9 DEF Kill
  <2>2. got \in SUBSET Files
    BY FileFacts
  <2> HIDE DEF got
  <2>3. d \in FileCalls /\ d.cut
    BY <2>2 DEF FileCalls
  <2> HIDE DEF d
  <2> QED
    BY <1>2, <2>1, <2>3, EndedCall DEF Landed
<1>10. CASE KillRoot(o)
  <2> DEFINE d == [q EXCEPT !.cut = TRUE]
  <2>1. q.kind \in {"put", "get", "delete"} /\ UNCHANGED <<place, file, types, meant, wanted>>
    BY <1>1, <1>10 DEF KillRoot, CallInv, Stage
  <2>2. PICK result \in {"ok", "failed"} : op' = [op EXCEPT ![o] = Ended(d, result)]
    <3> DEFINE results == [put |-> {"ok", "failed"}, get |-> {"failed"}, delete |-> {"ok"}]
    <3>1. \E result \in results[q.kind] : op' = [op EXCEPT ![o] = Ended(d, result)]
      BY <1>1, <1>10 DEF KillRoot
    <3>2. results[q.kind] \subseteq {"ok", "failed"}
      <4>1. CASE q.kind = "put"
        BY <4>1
      <4>2. CASE q.kind = "get"
        BY <4>2
      <4>3. CASE q.kind = "delete"
        BY <4>3
      <4> QED
        BY <2>1, <4>1, <4>2, <4>3
    <3> HIDE DEF results
    <3> QED
      BY <3>1, <3>2
  <2>3. d \in FileCalls /\ d.cut
    BY DEF FileCalls
  <2> HIDE DEF d
  <2> QED
    BY <1>2, <2>1, <2>2, <2>3, EndedCall DEF Landed
<1>11. CASE Leave(o)
  <2> DEFINE d == [q EXCEPT !.gone = TRUE]
  <2>1. op' = [op EXCEPT ![o] = d] /\ UNCHANGED <<place, file, types, meant, wanted>>
    BY <1>1, <1>11 DEF Leave
  <2>2. /\ d \in FileCalls /\ d.pc = q.pc /\ d.result = q.result /\ d.kind = q.kind
        /\ d.content = q.content /\ d.cut = q.cut /\ d.alone = q.alone /\ d.edited = q.edited
        /\ d.got = q.got /\ d.raw = q.raw /\ d.due = q.due /\ d.known = q.known
    BY DEF FileCalls
  <2> HIDE DEF d
  <2>3. CallInv(d)
    BY <1>1, <2>2 DEF CallInv, Stage, Landed, ReadTrue, WriteLanded, PutRooted
  <2> QED
    BY <1>2, <2>1, <2>2, <2>3
<1>12. CASE Return(o)
  BY <1>2, <1>12, NoOpCall DEF Return
<1> QED
  BY <1>3, <1>4, <1>5, <1>6, <1>7, <1>8, <1>9, <1>10, <1>11, <1>12

\* The steps that change the storage or, from outside, the file.
LEMMA SetTypesStep ==
    ASSUME FilesInv, NEW o \in Ops, SetTypes(o)
    PROVE  FilesInv' /\ (~op[o].edited => wanted \subseteq types')
<1> USE DEF FilesInv
<1>1. PICK q \in FileCalls : q = op[o] /\ CallInv(q)
  BY DEF FilesTypeOK
<1>2. /\ q.pc = "set" /\ types' = q.known \cup {"snippets"} /\ UNCHANGED <<place, file, meant, wanted>>
      /\ op' = [op EXCEPT ![o] = Rooted(q)]
  BY <1>1 DEF SetTypes
<1>3. q.kind = "put" /\ q.result = "none" /\ place # "vm" /\ (~q.edited => q.known = wanted)
  BY <1>1, <1>2 DEF CallInv, Stage, Commands
<1>4. types' \in SUBSET Types
  BY <1>2, SnippetsIsType DEF FileCalls
<1>5. PICK r : r = Rooted(q)
  OBVIOUS
<1>6. r \in FileCalls /\ CallInv(r)'
  <2>1. CASE q.gone
    <3>1. r = NoOp
      BY <1>5, <2>1 DEF Rooted
    <3>2. r \in FileCalls /\ r.pc = "free" /\ r.result = "none"
      BY <3>1, NoOpCall DEF NoOp
    <3> QED
      BY <3>2 DEF CallInv, Stage, Commands
  <2>2. CASE ~q.gone
    <3>1. r = [q EXCEPT !.known = {}, !.pc = "open"]
      BY <1>3, <1>5, <2>2 DEF Rooted
    <3>2. r \in FileCalls /\ r.pc = "open" /\ r.kind = "put" /\ r.result = "none"
      BY <1>3, <3>1 DEF FileCalls, Commands
    <3> QED
      BY <1>2, <1>3, <3>2 DEF CallInv, Stage, PutRooted
  <2> QED
    BY <2>1, <2>2
<1>7. ASSUME NEW p \in Ops
      PROVE  op'[p] \in FileCalls /\ CallInv(op[p])'
  <2>1. CASE p = o
    <3>1. op'[p] = r
      BY <1>2, <1>5, <2>1 DEF FilesTypeOK
    <3> QED
      BY <1>6, <3>1 DEF CallInv, Stage, Landed, ReadTrue, WriteLanded, PutRooted
  <2>2. CASE p # o
    <3>1. op'[p] = op[p] /\ op[p] \in FileCalls /\ CallInv(op[p])
      BY <1>2, <2>2 DEF FilesTypeOK
    <3> QED
      BY <1>2, <3>1 DEF CallInv, Stage, Landed, ReadTrue, WriteLanded, PutRooted
  <2> QED
    BY <2>1, <2>2
<1>8. FilesTypeOK' /\ FileMeant' /\ ListWanted'
  BY <1>2, <1>4, <1>7 DEF FilesTypeOK, FileMeant, ListWanted
<1> QED
  BY <1>1, <1>2, <1>3, <1>7, <1>8

\* Someone else writes the file: nobody who has written it is alone any more.
LEMMA OtherWritesStep ==
    ASSUME FilesInv, NEW c \in Contents \cup {Text("big")}, OtherWrites(c)
    PROVE  FilesInv'
<1> USE DEF FilesInv
<1>1. /\ file' = c /\ meant' = {c} /\ UNCHANGED <<place, types, wanted>> /\ c \in Files
      /\ op' = [o \in Ops |-> IF Exposed(op[o]) THEN [op[o] EXCEPT !.alone = FALSE] ELSE op[o]]
  BY FileFacts DEF OtherWrites
<1>2. ASSUME NEW p \in Ops
      PROVE  op'[p] \in FileCalls /\ CallInv(op[p])'
  <2>1. PICK q \in FileCalls : q = op[p] /\ CallInv(q)
    BY DEF FilesTypeOK
  <2>2. PICK x : x = IF Exposed(q) THEN [q EXCEPT !.alone = FALSE] ELSE q
    OBVIOUS
  <2>3. op'[p] = x
    BY <1>1, <2>1, <2>2
  <2>4. x \in FileCalls /\ CallInv(x)'
    BY <1>1, <2>1, <2>2, DisturbedCall
  <2> QED
    BY <2>3, <2>4 DEF CallInv, Stage, Landed, ReadTrue, WriteLanded, PutRooted
<1>3. FilesTypeOK'
  <2>1. op' \in [Ops -> FileCalls]
    BY <1>1, <1>2
  <2>2. Cardinality({c}) = 1
    BY FS_Singleton
  <2> QED
    BY <1>1, <2>1, <2>2 DEF FilesTypeOK
<1>4. FileMeant' /\ ListWanted'
  BY <1>1, FileFacts DEF FileMeant, ListWanted
<1> QED
  BY <1>2, <1>3, <1>4

\* The administrator changes the list: every put under way is marked.
LEMMA AdminEditsStep ==
    ASSUME FilesInv, NEW ts \in SUBSET Types, AdminEdits(ts)
    PROVE  FilesInv'
<1> USE DEF FilesInv
<1>1. /\ types' = ts /\ wanted' = ts /\ UNCHANGED <<place, file, meant>>
      /\ op' = [o \in Ops |-> IF op[o].kind = "put" THEN [op[o] EXCEPT !.edited = TRUE] ELSE op[o]]
  BY DEF AdminEdits
<1>2. ASSUME NEW p \in Ops
      PROVE  op'[p] \in FileCalls /\ CallInv(op[p])'
  <2>1. PICK q \in FileCalls : q = op[p] /\ CallInv(q)
    BY DEF FilesTypeOK
  <2>2. PICK x : x = IF q.kind = "put" THEN [q EXCEPT !.edited = TRUE] ELSE q
    OBVIOUS
  <2>3. op'[p] = x
    BY <1>1, <2>1, <2>2
  <2>4. /\ x \in FileCalls /\ x.pc = q.pc /\ x.result = q.result /\ x.kind = q.kind
        /\ x.content = q.content /\ x.cut = q.cut /\ x.alone = q.alone
        /\ x.got = q.got /\ x.raw = q.raw /\ x.due = q.due /\ x.known = q.known
        /\ q.kind = "put" => x.edited
    BY <2>2 DEF FileCalls
  <2>5. CallInv(x)'
    BY <1>1, <2>1, <2>4 DEF CallInv, Stage, Landed, ReadTrue, WriteLanded, PutRooted
  <2> QED
    BY <2>3, <2>4, <2>5 DEF CallInv, Stage, Landed, ReadTrue, WriteLanded, PutRooted
<1>3. FilesTypeOK' /\ FileMeant' /\ ListWanted'
  BY <1>1, <1>2 DEF FilesTypeOK, FileMeant, ListWanted
<1> QED
  BY <1>2, <1>3

\* Every step of the file tools keeps the invariant; a step that sets the content
\* types without an edit in between leaves what the administrator wants.
LEMMA FilesStep ==
    ASSUME FilesInv, FilesNext
    PROVE  FilesInv'
<1>1. ASSUME NEW o \in Ops,
             \/ \E kind \in Kinds, c \in Contents : Begin(o, kind, c)
             \/ ReadTypes(o) \/ Look(o) \/ AgentRead(o) \/ Exit(o) \/ Fail(o)
             \/ Kill(o) \/ KillRoot(o) \/ Leave(o) \/ Return(o)
      PROVE  FilesInv'
  BY <1>1, QuietStep, FileMovesStep
<1>2. ASSUME NEW o \in Ops, Open(o) \/ Fill(o) \/ Remove(o)
      PROVE  FilesInv'
  BY <1>2, WriteStep
<1>3. ASSUME NEW o \in Ops, SetTypes(o)
      PROVE  FilesInv'
  BY <1>3, SetTypesStep
<1> QED
  BY <1>1, <1>2, <1>3, OtherWritesStep, AdminEditsStep DEF FilesNext

\* The invariant of the file tools: a file holds what was meant or nobody knows,
\* and a call that has ended has what it claims.
THEOREM FilesInvariant == FilesSpec => []FilesInv
<1>1. FilesInit => FilesInv
  <2> SUFFICES ASSUME FilesInit
               PROVE  FilesInv
    OBVIOUS
  <2>1. Cardinality({Absent}) = 1
    BY FS_Singleton
  <2>2. FilesTypeOK
    BY <2>1, NoOpCall, FileFacts DEF FilesInit, FilesTypeOK
  <2>3. FileMeant /\ ListWanted
    BY FileFacts DEF FilesInit, FileMeant, ListWanted
  <2> QED
    BY <2>2, <2>3, NoOpCall DEF FilesInit, FilesInv
<1>2. FilesInv /\ [FilesNext]_filesVars => FilesInv'
  <2> SUFFICES ASSUME FilesInv, [FilesNext]_filesVars
               PROVE  FilesInv'
    OBVIOUS
  <2>1. CASE FilesNext
    BY <2>1, FilesStep
  <2>2. CASE UNCHANGED filesVars
    BY <2>2 DEF filesVars, FilesInv, FilesTypeOK, FileMeant, ListWanted, CallInv, Stage,
       Landed,
       ReadTrue, WriteLanded, PutRooted
  <2> QED
    BY <2>1, <2>2
<1> QED
  BY <1>1, <1>2, PTL DEF FilesSpec

\* A read returns what the last one to write the file meant it to hold.
THEOREM ReadsAreTrue == FilesSpec => []ReadsTrue
<1>1. FilesInv => ReadsTrue
  BY DEF FilesInv, CallInv, Landed, ReadTrue, ReadsTrue
<1> QED
  BY <1>1, FilesInvariant, PTL

\* A write, put or delete that reports success has happened.
THEOREM WritesHaveLanded == FilesSpec => []WritesLand
<1>1. FilesInv => WritesLand
  BY DEF FilesInv, CallInv, Landed, WriteLanded, PutRooted, WritesLand
<1> QED
  BY <1>1, FilesInvariant, PTL

\* A put that changes the content types leaves those the administrator wants.
THEOREM ContentTypesAreKept == FilesSpec => ContentTypesKept
<1>1. FilesInv /\ [FilesNext]_filesVars =>
          [\A o \in Ops : op[o].pc = "set" /\ op'[o].pc # "set" /\ ~op[o].edited
                             => types' = types \/ wanted \subseteq types']_filesVars
  <2> SUFFICES ASSUME FilesInv, FilesNext, NEW o \in Ops,
                      op[o].pc = "set", op'[o].pc # "set", ~op[o].edited, types' # types
               PROVE  wanted \subseteq types'
    BY DEF filesVars
  <2>1. ASSUME NEW p \in Ops, SetTypes(p)
        PROVE  wanted \subseteq types'
    <3>1. p = o
      BY <2>1 DEF SetTypes, FilesInv, FilesTypeOK
    <3> QED
      BY <2>1, <3>1, SetTypesStep
  <2>2. ASSUME NEW ts \in SUBSET Types, AdminEdits(ts)
        PROVE  FALSE
    <3>1. op'[o] = IF op[o].kind = "put" THEN [op[o] EXCEPT !.edited = TRUE] ELSE op[o]
      BY <2>2 DEF AdminEdits
    <3> QED
      BY <3>1 DEF FilesInv, FilesTypeOK, FileCalls
  <2>3. UNCHANGED types \/ (\E p \in Ops : SetTypes(p)) \/ \E ts \in SUBSET Types : AdminEdits(ts)
    BY DEF FilesNext, Begin, ReadTypes, Open, Fill, Look, Remove, AgentRead,
       Exit, Fail,
       Kill, KillRoot, Leave, Return, OtherWrites
  <2> QED
    BY <2>1, <2>2, <2>3
<1> QED
  BY <1>1, FilesInvariant, PTL DEF FilesSpec, ContentTypesKept

-----------------------------------------------------------------------------
(* The boot inspection: the invariant. *)

Attached == {l \in Loops : loop[l] # NoVm}

\* What is mounted is attached, and what is to be detached is, too.
HostOK ==
    /\ loop \in [Loops -> Vms \cup {NoVm}] /\ lazy \in SUBSET Loops
    /\ mounts \in [Vms -> Seq(Loops)]
    /\ \A l \in lazy : loop[l] # NoVm
    /\ \A v \in Vms : \A n \in DOMAIN mounts[v] : loop[mounts[v][n]] # NoVm

\* What a call holds before and once its script runs.
Inspects(q) ==
    /\ q.pc # "free" => q.vm \in Vms
    /\ q.pc \in {"free", "probed"} => q.seen = {}
    /\ q.pc \in {"mount", "read", "unmount", "release"} => \E l \in Loops : q.loop = {l}

\* A script that was alone all the time still is.
AloneRuns ==
    \A i, j \in Inspections : i \in Scripts /\ insp[i].alone /\ j \in Scripts => j = i

\* What a script that runs alone has attached and mounted is its own disk.
Own(q) ==
    q.alone =>
        /\ q.pc = "mount" => \A l \in q.loop : loop[l] = q.vm
        /\ q.pc = "read" => mounts[q.vm] # <<>> /\ loop[Head(mounts[q.vm])] = q.vm
        /\ q.seen \in {{}, {q.vm}}

\* How far the only script has come with the leftovers and its own disk.
Heals(q) ==
    /\ q.alone
    /\ q.pc \in {"detach", "attach", "mount", "release"} => mounts[q.vm] = <<>>
    /\ q.pc \in {"read", "unmount"} => \E l \in q.loop : mounts[q.vm] = <<l>>
    /\ q.pc \in {"attach", "read", "unmount"} => Attached \subseteq Mounted(mounts)
    /\ q.pc \in {"mount", "release"} => Attached \subseteq Mounted(mounts) \cup q.loop

OneEach == \A v \in Vms : mounts[v] = <<>> \/ \E l \in Loops : mounts[v] = <<l>>

\* If no two scripts overlapped and no umount failed, a VM has at most one leftover, and that only
\* after a script that died; the same of the devices.
Tidy ==
    /\ \A i \in Scripts : Heals(insp[i])
    /\ OneEach
    /\ \A v \in Vms \ dirty : mounts[v] = <<>> \/ \E i \in Scripts : insp[i].vm = v
    /\ ~stray /\ Scripts = {} => Attached \subseteq Mounted(mounts)

BootInv ==
    /\ BootTypeOK /\ HostOK
    /\ \A i \in Inspections : Inspects(insp[i]) /\ Own(insp[i])
    /\ AloneRuns
    /\ ~upset => Tidy

-----------------------------------------------------------------------------
(* The boot inspection: the node's commands. *)

\* What a mount puts on top, and an unmount takes away.
LEMMA SeqFacts ==
    /\ \A s \in Seq(Loops) : s # <<>> =>
           /\ Head(s) \in Loops /\ Tail(s) \in Seq(Loops) /\ 1 \in DOMAIN s /\ s[1] = Head(s)
           /\ \A n \in DOMAIN Tail(s) : \E m \in DOMAIN s : s[m] = Tail(s)[n]
    /\ \A s \in Seq(Loops), l \in Loops :
           /\ <<l>> \o s \in Seq(Loops) /\ <<l>> \o s # <<>> /\ Head(<<l>> \o s) = l
           /\ \A n \in DOMAIN (<<l>> \o s) :
                  (<<l>> \o s)[n] = l \/ \E m \in DOMAIN s : s[m] = (<<l>> \o s)[n]
    /\ \A l \in Loops : Tail(<<l>>) = <<>> /\ <<l>> \o <<>> = <<l>> /\ <<l>> # <<>>
    /\ \A l \in Loops : DOMAIN <<l>> = {1} /\ <<l>>[1] = l
<1>1. ASSUME NEW s \in Seq(Loops), s # <<>>
      PROVE  /\ Head(s) \in Loops /\ Tail(s) \in Seq(Loops) /\ 1 \in DOMAIN s /\ s[1] = Head(s)
             /\ \A n \in DOMAIN Tail(s) : \E m \in DOMAIN s : s[m] = Tail(s)[n]
  <2>1. Len(s) \in Nat /\ Len(s) > 0 /\ DOMAIN s = 1..Len(s)
    BY <1>1, EmptySeq
  <2>2. Head(s) \in Loops /\ Tail(s) \in Seq(Loops) /\ 1 \in DOMAIN s /\ s[1] = Head(s)
    BY <1>1, <2>1
  <2>3. DOMAIN Tail(s) = 1..(Len(s) - 1) /\ \A n \in 1..(Len(s) - 1) : Tail(s)[n] = s[n + 1]
    BY <1>1, <2>1
  <2>4. \A n \in 1..(Len(s) - 1) : n + 1 \in DOMAIN s
    BY <2>1
  <2> QED
    BY <2>2, <2>3, <2>4
<1>2. ASSUME NEW s \in Seq(Loops), NEW l \in Loops
      PROVE  /\ <<l>> \o s \in Seq(Loops) /\ <<l>> \o s # <<>> /\ Head(<<l>> \o s) = l
             /\ \A n \in DOMAIN (<<l>> \o s) :
                    (<<l>> \o s)[n] = l \/ \E m \in DOMAIN s : s[m] = (<<l>> \o s)[n]
  <2> DEFINE t == <<l>> \o s
  <2>1. <<l>> \in Seq(Loops) /\ Len(<<l>>) = 1 /\ <<l>>[1] = l
    OBVIOUS
  <2>2. t \in Seq(Loops) /\ Len(t) = Len(s) + 1 /\ Len(s) \in Nat /\ DOMAIN t = 1..(Len(s) + 1)
        /\ DOMAIN s = 1..Len(s)
    BY <2>1
  <2>3. \A n \in 1..(Len(s) + 1) : t[n] = IF n <= 1 THEN <<l>>[n] ELSE s[n - 1]
    BY <2>1
  <2>4. t[1] = l
    BY <2>1, <2>2, <2>3
  <2> HIDE DEF t
  <2>5. t # <<>> /\ Head(t) = l
    BY <2>2, <2>4
  <2>6. ASSUME NEW n \in DOMAIN t, t[n] # l
        PROVE  \E m \in DOMAIN s : s[m] = t[n]
    <3>1. n \in 1..(Len(s) + 1) /\ n # 1
      BY <2>2, <2>4, <2>6
    <3>2. n - 1 \in DOMAIN s /\ t[n] = s[n - 1]
      BY <2>2, <2>3, <3>1
    <3> QED
      BY <3>2
  <2> QED
    BY <2>2, <2>5, <2>6 DEF t
<1>3. \A l \in Loops : Tail(<<l>>) = <<>> /\ <<l>> \o <<>> = <<l>> /\ <<l>> # <<>>
  OBVIOUS
<1>4. \A l \in Loops : DOMAIN <<l>> = {1} /\ <<l>>[1] = l
  OBVIOUS
<1> QED
  BY <1>1, <1>2, <1>3, <1>4

\* Detaching leaves what is mounted.
LEMMA DetachEffect ==
    ASSUME HostOK, NEW ls \in SUBSET Loops, Detach(ls)
    PROVE  /\ HostOK' /\ UNCHANGED mounts
           /\ Attached' \subseteq Attached
           /\ Attached' \cap ls \subseteq Mounted(mounts)
<1> USE DEF HostOK
<1>1. /\ loop' = [l \in Loops |-> IF l \in ls \ Mounted(mounts) THEN NoVm ELSE loop[l]]
      /\ lazy' = {l \in lazy \cup ls : loop'[l] # NoVm}
      /\ UNCHANGED mounts
  BY DEF Detach
<1>2. ASSUME NEW v \in Vms, NEW n \in DOMAIN mounts[v]
      PROVE  mounts[v][n] \in Loops /\ mounts[v][n] \in Mounted(mounts)
  <2>1. mounts[v] \in Seq(Loops)
    OBVIOUS
  <2>2. mounts[v][n] \in Loops
    BY <2>1
  <2> QED
    BY <2>2 DEF Mounted
<1>3. loop' \in [Loops -> Vms \cup {NoVm}] /\ lazy' \in SUBSET Loops /\ \A l \in lazy' : loop'[l] # NoVm
  BY <1>1
<1>4. \A v \in Vms : \A n \in DOMAIN mounts[v] : loop'[mounts[v][n]] # NoVm
  BY <1>1, <1>2
<1>5. Attached' \subseteq Attached /\ Attached' \cap ls \subseteq Mounted(mounts)
  BY <1>1 DEF Attached
<1> QED
  BY <1>1, <1>3, <1>4, <1>5

\* Unmounting takes away what was mounted last, and then what was to be detached.
LEMMA UnmountEffect ==
    ASSUME HostOK, NEW v \in Vms, Unmount(v)
    PROVE  /\ HostOK' /\ Attached' \subseteq Attached
           /\ \A w \in Vms \ {v} : mounts'[w] = mounts[w]
           /\ upset' \in {upset, TRUE}
           /\ ~upset' => IF mounts[v] = <<>> THEN mounts'[v] = <<>> ELSE mounts'[v] = Tail(mounts[v])
           /\ mounts'[v] \in {mounts[v], Tail(mounts[v])}
<1> USE DEF HostOK
<1>1. CASE ((mounts[v] = <<>> /\ UNCHANGED upset) \/ upset' = TRUE) /\ UNCHANGED host
  BY <1>1 DEF host, Attached
<1>2. CASE /\ mounts[v] # <<>>
           /\ mounts' = [mounts EXCEPT ![v] = Tail(mounts[v])]
           /\ loop' = [l \in Loops |-> IF l \in lazy \ Mounted(mounts') THEN NoVm ELSE loop[l]]
           /\ lazy' = {l \in lazy : loop'[l] # NoVm}
           /\ UNCHANGED upset
  <2>1. mounts' \in [Vms -> Seq(Loops)]
    BY <1>2, SeqFacts
  <2>2. \A w \in Vms : w # v => mounts'[w] = mounts[w]
    BY <1>2
  <2>3. mounts'[v] = Tail(mounts[v])
    BY <1>2
  <2>4. loop' \in [Loops -> Vms \cup {NoVm}] /\ lazy' \in SUBSET Loops /\ \A l \in lazy' : loop'[l] # NoVm
    BY <1>2
  <2>5. ASSUME NEW w \in Vms, NEW n \in DOMAIN mounts'[w]
        PROVE  loop'[mounts'[w][n]] # NoVm
    <3>1. mounts'[w][n] \in Loops
      BY <2>1
    <3>2. mounts'[w][n] \in Mounted(mounts')
      BY <3>1 DEF Mounted
    <3>3. \E m \in DOMAIN mounts[w] : mounts[w][m] = mounts'[w][n]
      <4>1. CASE w = v
        BY <1>2, <2>3, <4>1, SeqFacts
      <4>2. CASE w # v
        BY <2>2, <4>2
      <4> QED
        BY <4>1, <4>2
    <3>4. loop[mounts'[w][n]] # NoVm
      BY <3>3
    <3> QED
      BY <1>2, <3>1, <3>2, <3>4
  <2>6. Attached' \subseteq Attached
    BY <1>2 DEF Attached
  <2> QED
    BY <1>2, <2>1, <2>2, <2>3, <2>4, <2>5, <2>6
<1> QED
  BY <1>1, <1>2 DEF Unmount

-----------------------------------------------------------------------------
(* The boot inspection: every step keeps the invariant. *)

\* A script is the only one if none overlapped, or if it was alone so far.
LEMMA OnlyScript ==
    ASSUME BootInv, NEW i \in Scripts, ~upset \/ insp[i].alone
    PROVE  insp[i].alone /\ Scripts = {i}
BY DEF BootInv, Tidy, Heals, AloneRuns, Scripts

\* What the calls know that run no command of a script.
LEMMA OtherCall ==
    ASSUME BootInv, NEW i \in Scripts, NEW j \in Inspections, j # i
    PROVE  /\ Inspects(insp[j])
           /\ insp[j].alone => /\ insp[j].pc \notin BootCommands
                               /\ insp[j].seen \in {{}, {insp[j].vm}}
BY DEF BootInv, AloneRuns, Own, Scripts

\* Script i goes on.
LEMMA ScriptGoesOn ==
    ASSUME BootInv, NEW i \in Scripts, NEW r \in BootCalls, insp' = [insp EXCEPT ![i] = r],
           r.pc \in BootCommands, r.vm = insp[i].vm, r.alone = insp[i].alone,
           Inspects(r), Own(r)', HostOK', UNCHANGED <<local, dirty, stray>>,
           upset' \in {upset, TRUE},
           ~upset' => /\ Heals(r)' /\ OneEach'
                      /\ \A v \in Vms \ {r.vm} : mounts'[v] = mounts[v]
    PROVE  BootInv'
<1>1. i \in Inspections /\ insp \in [Inspections -> BootCalls]
  BY DEF Scripts, BootInv, BootTypeOK
<1>2. Scripts' = Scripts /\ insp'[i] = r /\ \A j \in Inspections : j # i => insp'[j] = insp[j]
  BY <1>1 DEF Scripts
<1>3. BootTypeOK'
  BY <1>1 DEF BootInv, BootTypeOK, HostOK
<1>4. ASSUME NEW j \in Inspections
      PROVE  (Inspects(insp[j]) /\ Own(insp[j]))'
  <2>1. CASE j = i
    BY <1>2, <2>1 DEF Inspects, Own
  <2>2. CASE j # i
    <3>1. /\ Inspects(insp[j])
          /\ insp[j].alone => /\ insp[j].pc \notin BootCommands
                              /\ insp[j].seen \in {{}, {insp[j].vm}}
      BY <2>2, OtherCall
    <3> QED
      BY <1>2, <2>2, <3>1 DEF Inspects, Own, BootCommands
  <2> QED
    BY <2>1, <2>2
<1>5. AloneRuns'
  BY <1>2 DEF BootInv, AloneRuns
<1>6. ASSUME ~upset'
      PROVE  Tidy'
  <2> ~upset
    BY <1>6
  <2>1. Scripts = {i}
    BY <1>6, OnlyScript
  <2>2. \A j \in Scripts' : Heals(insp[j])'
    BY <1>2, <1>6, <2>1 DEF Heals
  <2>3. ASSUME NEW v \in Vms \ dirty
        PROVE  mounts'[v] = <<>> \/ \E j \in Scripts' : insp'[j].vm = v
    <3>1. CASE v = r.vm
      BY <1>2, <2>1, <3>1
    <3>2. CASE v # r.vm
      BY <1>2, <1>6, <2>1, <3>2 DEF BootInv, Tidy
    <3> QED
      BY <3>1, <3>2
  <2> QED
    BY <1>2, <1>6, <2>1, <2>2, <2>3 DEF Tidy
<1> QED
  BY <1>3, <1>4, <1>5, <1>6 DEF BootInv

\* Script i ends by itself, with its directory unmounted and its device detached.
LEMMA ScriptEnds ==
    ASSUME BootInv, NEW i \in Scripts, End(i), HostOK', UNCHANGED <<local, mounts>>,
           ~upset => mounts[insp[i].vm] = <<>> /\ Attached' \subseteq Mounted(mounts)
    PROVE  BootInv'
<1>1. i \in Inspections /\ insp \in [Inspections -> BootCalls] /\ insp[i].pc \in BootCommands
  BY DEF Scripts, BootInv, BootTypeOK
<1>2. PICK r : r = [insp[i] EXCEPT !.pc = "done"]
  OBVIOUS
<1>3. /\ r \in BootCalls /\ r.pc = "done" /\ r.vm = insp[i].vm /\ r.seen = insp[i].seen
      /\ r.alone = insp[i].alone /\ r.vm \in Vms
  BY <1>1, <1>2 DEF BootCalls, BootInv, Inspects, BootCommands
<1>4. /\ insp' = [insp EXCEPT ![i] = r] /\ dirty' = dirty \ {r.vm} /\ stray' = FALSE /\ UNCHANGED upset
  BY <1>1, <1>2, <1>3 DEF End, BootStep
<1>5. Scripts' = Scripts \ {i} /\ insp'[i] = r /\ \A j \in Inspections : j # i => insp'[j] = insp[j]
  BY <1>1, <1>3, <1>4 DEF Scripts, BootCommands
<1>6. BootTypeOK'
  BY <1>1, <1>3, <1>4 DEF BootInv, BootTypeOK, HostOK
<1>7. ASSUME NEW j \in Inspections
      PROVE  (Inspects(insp[j]) /\ Own(insp[j]))'
  <2>1. CASE j = i
    <3>1. Own(insp[i])
      BY <1>1 DEF BootInv
    <3> QED
      BY <1>3, <1>5, <2>1, <3>1 DEF Inspects, Own
  <2>2. CASE j # i
    <3>1. /\ Inspects(insp[j])
          /\ insp[j].alone => /\ insp[j].pc \notin BootCommands
                              /\ insp[j].seen \in {{}, {insp[j].vm}}
      BY <2>2, OtherCall
    <3> QED
      BY <1>5, <2>2, <3>1 DEF Inspects, Own, BootCommands
  <2> QED
    BY <2>1, <2>2
<1>8. AloneRuns'
  BY <1>5 DEF BootInv, AloneRuns
<1>9. ASSUME ~upset
      PROVE  Tidy'
  <2>1. Scripts = {i} /\ Scripts' = {}
    BY <1>5, <1>9, OnlyScript
  <2>2. Tidy
    BY <1>9 DEF BootInv
  <2>3. \A v \in Vms \ dirty' : mounts'[v] = <<>>
    BY <1>3, <1>4, <1>9, <2>1, <2>2 DEF Tidy
  <2>4. OneEach'
    BY <2>2 DEF Tidy, OneEach
  <2>5. Attached' \subseteq Mounted(mounts)'
    BY <1>9 DEF Mounted
  <2> QED
    BY <2>1, <2>3, <2>4, <2>5 DEF Tidy
<1> QED
  BY <1>4, <1>6, <1>7, <1>8, <1>9 DEF BootInv

\* A script dies and leaves what it has set up.
LEMMA DieStep ==
    ASSUME BootInv, NEW i \in Inspections, Die(i)
    PROVE  BootInv'
<1>1. i \in Scripts /\ insp \in [Inspections -> BootCalls] /\ insp[i].vm \in Vms
  BY DEF Die, Scripts, BootInv, BootTypeOK, Inspects, BootCommands
<1>2. /\ NoCall \in BootCalls /\ NoCall.pc = "free" /\ NoCall.seen = {} /\ NoCall.vm = NoVm
  BY DEF NoCall, BootCalls
<1>3. /\ insp' = [insp EXCEPT ![i] = NoCall] /\ dirty' = dirty \cup {insp[i].vm} /\ stray' = TRUE
      /\ UNCHANGED <<local, loop, lazy, mounts, upset>>
  BY DEF Die, host
<1>4. Scripts' = Scripts \ {i} /\ insp'[i] = NoCall /\ \A j \in Inspections : j # i => insp'[j] = insp[j]
  BY <1>1, <1>2, <1>3 DEF Scripts, BootCommands
<1>5. BootTypeOK' /\ HostOK'
  BY <1>1, <1>2, <1>3 DEF BootInv, BootTypeOK, HostOK
<1>6. ASSUME NEW j \in Inspections
      PROVE  (Inspects(insp[j]) /\ Own(insp[j]))'
  BY <1>2, <1>3, <1>4 DEF BootInv, Inspects, Own
<1>7. AloneRuns'
  BY <1>4 DEF BootInv, AloneRuns
<1>8. ASSUME ~upset
      PROVE  Tidy'
  <2>1. Scripts = {i} /\ Scripts' = {}
    BY <1>1, <1>4, <1>8, OnlyScript
  <2>2. Tidy
    BY <1>8 DEF BootInv
  <2> QED
    BY <1>3, <2>1, <2>2 DEF Tidy, OneEach
<1> QED
  BY <1>3, <1>5, <1>6, <1>7, <1>8 DEF BootInv

\* A call begins, ends or is refused: the scripts are not concerned.
LEMMA OutsideStep ==
    ASSUME BootInv, NEW i \in Inspections, NEW r \in BootCalls, insp' = [insp EXCEPT ![i] = r],
           i \notin Scripts, r.pc \notin BootCommands, r.pc # "free" => r.vm \in Vms,
           r.seen = {}, UNCHANGED <<local, host, history>>
    PROVE  BootInv'
<1>1. insp \in [Inspections -> BootCalls]
  BY DEF BootInv, BootTypeOK
<1>2. Scripts' = Scripts /\ insp'[i] = r /\ \A j \in Inspections : j # i => insp'[j] = insp[j]
  BY <1>1 DEF Scripts
<1>3. BootTypeOK' /\ HostOK'
  BY <1>1 DEF BootInv, BootTypeOK, HostOK, host, history
<1>4. ASSUME NEW j \in Inspections
      PROVE  (Inspects(insp[j]) /\ Own(insp[j]))'
  <2>1. CASE j = i
    BY <1>2, <2>1 DEF Inspects, Own, BootCommands
  <2>2. CASE j # i
    BY <1>2, <2>2 DEF BootInv, Inspects, Own, host
  <2> QED
    BY <2>1, <2>2
<1>5. \A j \in Scripts : j \in Inspections /\ insp'[j] = insp[j]
  BY <1>2 DEF Scripts
<1>6. AloneRuns'
  BY <1>2, <1>5 DEF BootInv, AloneRuns
<1>7. ASSUME ~upset
      PROVE  Tidy'
  <2>1. Tidy
    BY <1>7 DEF BootInv
  <2>2. \A j \in Scripts' : Heals(insp[j])'
    BY <1>2, <1>5, <2>1 DEF Tidy, Heals, Attached, Mounted, host
  <2> QED
    BY <1>2, <1>5, <2>1, <2>2 DEF Tidy, OneEach, Attached, Mounted, host, history
<1> QED
  BY <1>3, <1>4, <1>6, <1>7 DEF BootInv, history

\* The script begins: it is alone, or no longer is anyone.
LEMMA BeginStep ==
    ASSUME BootInv, NEW i \in Inspections, diagnoseVmBoot(i)
    PROVE  BootInv'
<1>1. /\ insp \in [Inspections -> BootCalls] /\ insp[i].pc = "probed" /\ i \notin Scripts
      /\ insp[i].vm \in Vms /\ insp[i].seen = {}
  BY DEF diagnoseVmBoot, BootInv, BootTypeOK, Inspects, Scripts, BootCommands
<1>2. PICK r : r = [insp[i] EXCEPT !.pc = "umount", !.alone = Scripts = {}]
  OBVIOUS
<1>3. /\ r \in BootCalls /\ r.pc = "umount" /\ r.vm = insp[i].vm /\ r.seen = {}
      /\ r.alone = (Scripts = {})
  BY <1>1, <1>2 DEF BootCalls, BootCommands
<1>4. insp' = [j \in Inspections |->
          IF j = i THEN r
          ELSE IF j \in Scripts THEN [insp[j] EXCEPT !.alone = FALSE] ELSE insp[j]]
  BY <1>2 DEF diagnoseVmBoot
<1>5. /\ upset' = (upset \/ Scripts # {}) /\ upset \in BOOLEAN
      /\ UNCHANGED <<local, loop, lazy, mounts, dirty, stray>>
  BY DEF diagnoseVmBoot, host, BootInv, BootTypeOK
<1>6. insp'[i] = r
  BY <1>4
<1>7. ASSUME NEW j \in Inspections \ {i}
      PROVE  /\ insp'[j] \in BootCalls /\ insp'[j].pc = insp[j].pc /\ insp'[j].vm = insp[j].vm
             /\ insp'[j].seen = insp[j].seen /\ insp'[j].loop = insp[j].loop
             /\ IF j \in Scripts THEN insp'[j].alone = FALSE ELSE insp'[j] = insp[j]
  <2>1. insp[j] \in BootCalls
    BY <1>1
  <2>2. CASE j \in Scripts
    <3>1. insp'[j] = [insp[j] EXCEPT !.alone = FALSE]
      BY <1>4, <2>2
    <3> QED
      BY <2>1, <2>2, <3>1 DEF BootCalls
  <2>3. CASE j \notin Scripts
    BY <1>4, <2>1, <2>3
  <2> QED
    BY <2>2, <2>3
<1>8. Scripts' = Scripts \cup {i}
  BY <1>3, <1>6, <1>7 DEF Scripts, BootCommands
<1>9. BootTypeOK' /\ HostOK'
  <2>1. insp' \in [Inspections -> BootCalls]
    <3>1. \A j \in Inspections : insp'[j] \in BootCalls
      BY <1>3, <1>6, <1>7
    <3> QED
      BY <1>4, <3>1
  <2>2. HostOK'
    BY <1>5 DEF BootInv, HostOK
  <2>3. upset' \in BOOLEAN
    BY <1>5
  <2> QED
    BY <1>5, <2>1, <2>2, <2>3 DEF BootInv, BootTypeOK, HostOK
<1>10. ASSUME NEW j \in Inspections
       PROVE  (Inspects(insp[j]) /\ Own(insp[j]))'
  <2>1. CASE j = i
    BY <1>1, <1>3, <1>6, <2>1 DEF Inspects, Own
  <2>2. CASE j # i
    <3>1. Inspects(insp[j]) /\ Own(insp[j])
      BY DEF BootInv
    <3>2. Inspects(insp[j])'
      BY <1>7, <2>2, <3>1 DEF Inspects
    <3>3. Own(insp[j])'
      BY <1>5, <1>7, <2>2, <3>1 DEF Own
    <3> QED
      BY <3>2, <3>3
  <2> QED
    BY <2>1, <2>2
<1>11. AloneRuns'
  <2> SUFFICES ASSUME NEW j \in Inspections, NEW k \in Inspections, j \in Scripts',
                      insp'[j].alone, k \in Scripts'
               PROVE  k = j
    BY DEF AloneRuns
  <2>1. j = i
    BY <1>7, <1>8
  <2>2. Scripts = {}
    BY <1>3, <1>6, <2>1
  <2> QED
    BY <1>8, <2>1, <2>2
<1>12. ASSUME ~upset'
       PROVE  Tidy'
  <2>1. ~upset /\ Scripts = {} /\ Scripts' = {i}
    BY <1>5, <1>8, <1>12
  <2>2. Tidy
    BY <2>1 DEF BootInv
  <2>3. \A j \in Scripts' : Heals(insp[j])'
    BY <1>3, <1>6, <2>1 DEF Heals
  <2>4. OneEach'
    BY <1>5, <2>2 DEF Tidy, OneEach
  <2>5. \A v \in Vms \ dirty' : mounts'[v] = <<>>
    BY <1>5, <2>1, <2>2 DEF Tidy
  <2> QED
    BY <2>1, <2>3, <2>4, <2>5 DEF Tidy
<1> QED
  BY <1>9, <1>10, <1>11, <1>12 DEF BootInv

\* What BootStep changes of a script.
LEMMA BootStepCall ==
    ASSUME BootInv, NEW i \in Scripts, NEW pc \in BootCommands, BootStep(i, pc)
    PROVE  \E r \in BootCalls :
               /\ insp' = [insp EXCEPT ![i] = r]
               /\ r.pc = pc /\ r.vm = insp[i].vm /\ r.alone = insp[i].alone
               /\ r.loop = insp[i].loop /\ r.seen = insp[i].seen
<1>1. i \in Inspections /\ insp \in [Inspections -> BootCalls]
  BY DEF Scripts, BootInv, BootTypeOK
<1>2. PICK r : r = [insp[i] EXCEPT !.pc = pc]
  OBVIOUS
<1>3. /\ r \in BootCalls
      /\ r.pc = pc /\ r.vm = insp[i].vm /\ r.alone = insp[i].alone
      /\ r.loop = insp[i].loop /\ r.seen = insp[i].seen
  BY <1>1, <1>2 DEF BootCalls
<1>4. insp' = [insp EXCEPT ![i] = r]
  BY <1>1, <1>2 DEF BootStep
<1> QED
  BY <1>3, <1>4

\* What a script that runs knows of itself and of the node.
LEMMA ScriptKnows ==
    ASSUME BootInv, NEW i \in Inspections, insp[i].pc \in BootCommands
    PROVE  /\ i \in Scripts /\ insp[i] \in BootCalls /\ insp[i].vm \in Vms /\ HostOK
           /\ Inspects(insp[i]) /\ Own(insp[i])
           /\ ~upset => Tidy /\ Heals(insp[i]) /\ OneEach
<1>1. /\ i \in Scripts /\ insp[i] \in BootCalls /\ insp[i].vm \in Vms /\ HostOK
      /\ Inspects(insp[i]) /\ Own(insp[i])
  BY DEF Scripts, BootInv, BootTypeOK, Inspects, BootCommands
<1>2. ASSUME ~upset
      PROVE  Tidy /\ Heals(insp[i]) /\ OneEach
  <2>1. Scripts = {i} /\ Tidy
    BY <1>1, <1>2, OnlyScript DEF BootInv
  <2> QED
    BY <2>1 DEF Tidy
<1> QED
  BY <1>1, <1>2

\* The directory is unmounted, at the beginning and at the end of a script.
LEMMA UmountSteps ==
    ASSUME BootInv, NEW i \in Inspections, UmountWorkdir(i) \/ CleanupUmount(i)
    PROVE  BootInv'
<1>1. insp[i].pc \in {"umount", "unmount"} /\ insp[i].pc \in BootCommands
  BY DEF UmountWorkdir, CleanupUmount, BootCommands
<1>2. PICK pc \in BootCommands : /\ pc = IF insp[i].pc = "umount" THEN "detach" ELSE "release"
                                 /\ BootStep(i, pc)
  BY <1>1 DEF UmountWorkdir, CleanupUmount, BootCommands
<1>3. Unmount(insp[i].vm) /\ UNCHANGED <<local, dirty, stray>>
  BY DEF UmountWorkdir, CleanupUmount
<1>4. PICK v \in Vms : v = insp[i].vm
  BY <1>1, ScriptKnows
<1>6. /\ HostOK' /\ Attached' \subseteq Attached
      /\ \A w \in Vms \ {v} : mounts'[w] = mounts[w]
      /\ upset' \in {upset, TRUE}
      /\ ~upset' => IF mounts[v] = <<>> THEN mounts'[v] = <<>> ELSE mounts'[v] = Tail(mounts[v])
  <2>1. HostOK /\ Unmount(v)
    BY <1>1, <1>3, <1>4, ScriptKnows
  <2> QED
    BY <2>1, UnmountEffect
<1>7. i \in Scripts
  BY <1>1, ScriptKnows
<1>8. PICK r \in BootCalls :
          /\ insp' = [insp EXCEPT ![i] = r]
          /\ r.pc = pc /\ r.vm = insp[i].vm /\ r.alone = insp[i].alone
          /\ r.loop = insp[i].loop /\ r.seen = insp[i].seen
  BY <1>2, <1>7, BootStepCall
<1>9. Inspects(r) /\ Own(r)'
  BY <1>1, <1>2, <1>8, ScriptKnows DEF Inspects, Own
<1>10. ASSUME ~upset'
       PROVE  Heals(r)' /\ OneEach'
  <2>1. /\ Heals(insp[i]) /\ OneEach /\ insp[i] \in BootCalls
        /\ mounts \in [Vms -> Seq(Loops)]
    <3>1. upset \in BOOLEAN
      BY DEF BootInv, BootTypeOK
    <3>2. ~upset
      BY <1>6, <1>10, <3>1
    <3>3. HostOK /\ Heals(insp[i]) /\ OneEach /\ insp[i] \in BootCalls
      BY <1>1, <3>2, ScriptKnows
    <3> QED
      BY <3>3 DEF HostOK
  <2>2. mounts'[v] = <<>>
    BY <1>6, <1>10, <2>1, SeqFacts DEF OneEach
  <2>3. OneEach'
    BY <1>6, <2>1, <2>2 DEF OneEach
  <2>4. CASE insp[i].pc = "umount"
    BY <1>2, <1>4, <1>8, <2>1, <2>2, <2>3, <2>4 DEF Heals
  <2>5. CASE insp[i].pc = "unmount"
    <3>1. PICK l \in insp[i].loop : mounts[v] = <<l>>
      BY <1>4, <2>1, <2>5 DEF Heals
    <3>2. Mounted(mounts) \subseteq Mounted(mounts') \cup {l}
      <4>1. l \in Loops /\ DOMAIN mounts[v] = {1} /\ mounts[v][1] = l
        BY <2>1, <3>1, SeqFacts DEF BootCalls
      <4> QED
        BY <1>6, <4>1 DEF Mounted
    <3>3. Attached \subseteq Mounted(mounts)
      BY <2>1, <2>5 DEF Heals
    <3>4. Attached' \subseteq Mounted(mounts') \cup r.loop
      BY <1>6, <1>8, <3>1, <3>2, <3>3
    <3> QED
      BY <1>2, <1>4, <1>8, <2>1, <2>2, <2>3, <2>5, <3>4 DEF Heals, Mounted
  <2> QED
    BY <1>1, <2>3, <2>4, <2>5
<1> QED
  BY <1>2, <1>3, <1>4, <1>6, <1>7, <1>8, <1>9, <1>10, ScriptGoesOn

\* losetup -D
LEMMA DetachAllStep ==
    ASSUME BootInv, NEW i \in Inspections, DetachAll(i)
    PROVE  BootInv'
<1>1. insp[i].pc = "detach" /\ insp[i].pc \in BootCommands /\ "attach" \in BootCommands
  BY DEF DetachAll, BootCommands
<1>2. /\ BootStep(i, "attach") /\ Detach(Attached) /\ UNCHANGED <<local, history>>
      /\ Attached \in SUBSET Loops
  BY DEF DetachAll, Attached
<1>3. i \in Scripts /\ HostOK
  BY <1>1, ScriptKnows
<1>4. HostOK' /\ UNCHANGED mounts /\ Attached' \subseteq Mounted(mounts)
  <2>1. PICK ls \in SUBSET Loops : ls = Attached
    BY <1>2
  <2>2. Detach(ls)
    BY <1>2, <2>1
  <2> QED
    BY <1>3, <2>1, <2>2, DetachEffect
<1>5. PICK r \in BootCalls :
          /\ insp' = [insp EXCEPT ![i] = r]
          /\ r.pc = "attach" /\ r.vm = insp[i].vm /\ r.alone = insp[i].alone
          /\ r.loop = insp[i].loop /\ r.seen = insp[i].seen
  BY <1>1, <1>2, <1>3, BootStepCall
<1>6. Inspects(r) /\ Own(r)'
  BY <1>1, <1>5, ScriptKnows DEF Inspects, Own
<1>7. ASSUME ~upset
      PROVE  Heals(r)' /\ OneEach'
  <2>1. Heals(insp[i]) /\ OneEach
    BY <1>1, <1>7, ScriptKnows
  <2> QED
    BY <1>1, <1>4, <1>5, <2>1 DEF Heals, OneEach, Mounted
<1> QED
  BY <1>1, <1>2, <1>3, <1>4, <1>5, <1>6, <1>7, ScriptGoesOn DEF history

\* losetup -Pf
LEMMA AttachStep ==
    ASSUME BootInv, NEW i \in Inspections, Attach(i)
    PROVE  BootInv'
<1>1. insp[i].pc = "attach" /\ insp[i].pc \in BootCommands /\ "mount" \in BootCommands
  BY DEF Attach, BootCommands
<1>2. PICK l \in Loops : /\ loop[l] = NoVm
                         /\ loop' = [loop EXCEPT ![l] = insp[i].vm]
                         /\ insp' = [insp EXCEPT ![i].pc = "mount", ![i].loop = {l}]
  BY DEF Attach
<1>3. UNCHANGED <<local, lazy, mounts, history>>
  BY DEF Attach
<1>4. /\ i \in Scripts /\ insp[i] \in BootCalls /\ insp[i].vm \in Vms /\ HostOK
      /\ insp[i].vm # NoVm /\ insp \in [Inspections -> BootCalls]
  BY <1>1, ScriptKnows, NoVmIsNone DEF BootInv, BootTypeOK
<1>5. HostOK' /\ Attached' = Attached \cup {l} /\ loop'[l] = insp[i].vm
  BY <1>2, <1>3, <1>4 DEF HostOK, Attached
<1>6. PICK r : r = [insp[i] EXCEPT !.pc = "mount", !.loop = {l}]
  OBVIOUS
<1>7. /\ r \in BootCalls /\ r.pc = "mount" /\ r.vm = insp[i].vm /\ r.alone = insp[i].alone
      /\ r.loop = {l} /\ r.seen = insp[i].seen
  BY <1>1, <1>4, <1>6 DEF BootCalls
<1>8. insp' = [insp EXCEPT ![i] = r]
  BY <1>2, <1>4, <1>6
<1>9. Inspects(r) /\ Own(r)'
  BY <1>1, <1>4, <1>5, <1>7, ScriptKnows DEF Inspects, Own
<1>10. ASSUME ~upset
       PROVE  Heals(r)' /\ OneEach'
  <2>1. Heals(insp[i]) /\ OneEach
    BY <1>1, <1>10, ScriptKnows
  <2> QED
    BY <1>1, <1>3, <1>5, <1>7, <2>1 DEF Heals, OneEach, Mounted
<1> QED
  BY <1>1, <1>3, <1>4, <1>5, <1>7, <1>8, <1>9, <1>10, ScriptGoesOn DEF history

\* The device is mounted on the directory, which is empty if no two overlapped.
LEMMA MountStep ==
    ASSUME BootInv, NEW i \in Inspections, MountDisk(i)
    PROVE  BootInv'
<1>1. insp[i].pc = "mount" /\ insp[i].pc \in BootCommands /\ "read" \in BootCommands
  BY DEF MountDisk, BootCommands
<1>2. /\ i \in Scripts /\ insp[i] \in BootCalls /\ HostOK
      /\ Own(insp[i]) /\ Inspects(insp[i])
  BY <1>1, ScriptKnows
<1>3. PICK v \in Vms : v = insp[i].vm
  BY <1>1, ScriptKnows
<1>4. PICK l \in insp[i].loop :
          loop[l] # NoVm /\ mounts' = [mounts EXCEPT ![v] = <<l>> \o mounts[v]]
  BY <1>3 DEF MountDisk
<1>5. BootStep(i, "read") /\ UNCHANGED <<local, loop, lazy, history>>
  BY DEF MountDisk
<1>6. l \in Loops /\ mounts \in [Vms -> Seq(Loops)]
  BY <1>2, <1>4 DEF BootCalls, HostOK
<1>7. /\ mounts' \in [Vms -> Seq(Loops)]
      /\ mounts'[v] = <<l>> \o mounts[v] /\ mounts'[v] # <<>> /\ Head(mounts'[v]) = l
      /\ \A w \in Vms \ {v} : mounts'[w] = mounts[w]
  BY <1>4, <1>6, SeqFacts
<1>8. ASSUME NEW w \in Vms, NEW n \in DOMAIN mounts'[w]
      PROVE  loop'[mounts'[w][n]] # NoVm
  <2>1. mounts'[w][n] = l \/ \E m \in DOMAIN mounts[w] : mounts[w][m] = mounts'[w][n]
    <3>1. CASE w = v
      BY <1>6, <1>7, <3>1, SeqFacts
    <3>2. CASE w # v
      BY <1>7, <3>2
    <3> QED
      BY <3>1, <3>2
  <2> QED
    BY <1>2, <1>4, <1>5, <2>1 DEF HostOK
<1>9. HostOK'
  BY <1>2, <1>5, <1>7, <1>8 DEF HostOK
<1>10. PICK r \in BootCalls :
          /\ insp' = [insp EXCEPT ![i] = r]
          /\ r.pc = "read" /\ r.vm = insp[i].vm /\ r.alone = insp[i].alone
          /\ r.loop = insp[i].loop /\ r.seen = insp[i].seen
  BY <1>1, <1>2, <1>5, BootStepCall
<1>11. Inspects(r) /\ Own(r)'
  <2>1. Inspects(r)
    BY <1>1, <1>2, <1>10 DEF Inspects
  <2>2. insp[i].alone => loop[l] = v
    BY <1>1, <1>2, <1>3, <1>4 DEF Own
  <2>3. Own(r)'
    BY <1>2, <1>3, <1>5, <1>7, <1>10, <2>2 DEF Own
  <2> QED
    BY <2>1, <2>3
<1>12. ASSUME ~upset
       PROVE  Heals(r)' /\ OneEach'
  <2>1. Heals(insp[i]) /\ OneEach
    BY <1>1, <1>12, ScriptKnows
  <2>2. mounts[v] = <<>> /\ Attached \subseteq Mounted(mounts) \cup insp[i].loop
    BY <1>1, <1>3, <2>1 DEF Heals
  <2>3. mounts'[v] = <<l>> /\ insp[i].loop = {l}
    BY <1>1, <1>2, <1>4, <1>6, <1>7, <2>2, SeqFacts DEF Inspects
  <2>4. l \in Mounted(mounts') /\ Mounted(mounts) \subseteq Mounted(mounts')
    <3>1. DOMAIN mounts'[v] = {1} /\ mounts'[v][1] = l /\ DOMAIN mounts[v] = {}
      BY <1>6, <2>2, <2>3, SeqFacts
    <3> QED
      BY <1>6, <1>7, <3>1 DEF Mounted
  <2>5. OneEach'
    BY <1>6, <1>7, <2>1, <2>3 DEF OneEach
  <2>6. Attached' \subseteq Mounted(mounts)'
    BY <1>5, <2>2, <2>3, <2>4 DEF Attached, Mounted
  <2> QED
    BY <1>3, <1>10, <2>1, <2>3, <2>5, <2>6 DEF Heals
<1> QED
  BY <1>1, <1>2, <1>3, <1>5, <1>7, <1>9, <1>10, <1>11, <1>12, ScriptGoesOn DEF history

\* The sections are read from what is mounted: the VM's own disk for a script alone.
LEMMA ReadStep ==
    ASSUME BootInv, NEW i \in Inspections, ReadSections(i)
    PROVE  BootInv'
<1>1. insp[i].pc = "read" /\ insp[i].pc \in BootCommands /\ "unmount" \in BootCommands
  BY DEF ReadSections, BootCommands
<1>2. /\ i \in Scripts /\ insp[i] \in BootCalls /\ HostOK /\ insp[i].vm \in Vms
      /\ Own(insp[i]) /\ Inspects(insp[i]) /\ insp \in [Inspections -> BootCalls]
  BY <1>1, ScriptKnows DEF BootInv, BootTypeOK
<1>3. PICK got : got = IF mounts[insp[i].vm] = <<>> THEN {NoVm}
                       ELSE {loop[Head(mounts[insp[i].vm])]}
  OBVIOUS
<1>4. insp' = [insp EXCEPT ![i].pc = "unmount", ![i].seen = got]
  BY <1>3 DEF ReadSections
<1>5. UNCHANGED <<local, loop, lazy, mounts, history>>
  BY DEF ReadSections, host
<1>6. got \in SUBSET (Vms \cup {NoVm})
  <2>1. mounts[insp[i].vm] # <<>> => Head(mounts[insp[i].vm]) \in Loops
    BY <1>2, SeqFacts DEF HostOK
  <2> QED
    BY <1>2, <1>3, <2>1 DEF HostOK
<1>7. insp[i].alone => got = {insp[i].vm}
  BY <1>1, <1>2, <1>3 DEF Own
<1>8. PICK r : r = [insp[i] EXCEPT !.pc = "unmount", !.seen = got]
  OBVIOUS
<1>9. /\ r \in BootCalls /\ r.pc = "unmount" /\ r.vm = insp[i].vm /\ r.alone = insp[i].alone
      /\ r.loop = insp[i].loop /\ r.seen = got
  BY <1>1, <1>2, <1>6, <1>8 DEF BootCalls
<1>10. insp' = [insp EXCEPT ![i] = r]
  BY <1>2, <1>4, <1>8
<1>11. Inspects(r) /\ Own(r)' /\ HostOK'
  BY <1>1, <1>2, <1>5, <1>7, <1>9 DEF Inspects, Own, HostOK
<1>12. ASSUME ~upset
       PROVE  Heals(r)' /\ OneEach'
  <2>1. Heals(insp[i]) /\ OneEach
    BY <1>1, <1>12, ScriptKnows
  <2> QED
    BY <1>1, <1>5, <1>9, <2>1 DEF Heals, OneEach, Mounted, Attached
<1> QED
  BY <1>1, <1>2, <1>5, <1>9, <1>10, <1>11, <1>12, ScriptGoesOn DEF history

\* The ways a script ends by itself.
LEMMA EndSteps ==
    ASSUME BootInv, NEW i \in Inspections, NoDevice(i) \/ MountFails(i) \/ CleanupDetach(i)
    PROVE  BootInv'
<1>1. /\ insp[i].pc \in {"attach", "mount", "release"} /\ insp[i].pc \in BootCommands
      /\ End(i) /\ UNCHANGED local
  BY DEF NoDevice, MountFails, CleanupDetach, BootCommands
<1>2. i \in Scripts /\ insp[i] \in BootCalls /\ HostOK
  BY <1>1, ScriptKnows
<1>3. ~upset => Heals(insp[i])
  BY <1>1, ScriptKnows
<1>4. CASE NoDevice(i)
  <2>1. UNCHANGED <<loop, lazy, mounts>> /\ insp[i].pc = "attach"
    BY <1>4 DEF NoDevice, host
  <2>2. HostOK' /\ Attached' = Attached
    BY <1>2, <2>1 DEF HostOK, Attached
  <2>3. ~upset => mounts[insp[i].vm] = <<>> /\ Attached' \subseteq Mounted(mounts)
    BY <1>3, <2>1, <2>2 DEF Heals
  <2> QED
    BY <1>1, <1>2, <2>1, <2>2, <2>3, ScriptEnds
<1>5. CASE MountFails(i) \/ CleanupDetach(i)
  <2>1. Detach(insp[i].loop \cap Attached) /\ insp[i].pc \in {"mount", "release"}
    BY <1>5 DEF MountFails, CleanupDetach, Attached
  <2>2. PICK ls \in SUBSET Loops : ls = insp[i].loop \cap Attached
    BY DEF Attached
  <2>3. /\ HostOK' /\ UNCHANGED mounts
        /\ Attached' \subseteq Attached
        /\ Attached' \cap ls \subseteq Mounted(mounts)
    BY <1>2, <2>1, <2>2, DetachEffect
  <2>4. ~upset => mounts[insp[i].vm] = <<>> /\ Attached' \subseteq Mounted(mounts)
    BY <1>3, <2>1, <2>2, <2>3 DEF Heals
  <2> QED
    BY <1>1, <1>2, <2>3, <2>4, ScriptEnds
<1> QED
  BY <1>4, <1>5

\* The steps of a call before and after its script.
LEMMA CallSteps ==
    ASSUME BootInv, NEW i \in Inspections,
           \/ \E v \in Vms, ping \in BOOLEAN : diagnoseGuestAgent(i, v, ping)
           \/ Unsupported(i) \/ Report(i)
    PROVE  BootInv'
<1>1. /\ insp \in [Inspections -> BootCalls] /\ i \notin Scripts
      /\ UNCHANGED <<local, host, history>>
  BY DEF BootInv, BootTypeOK, diagnoseGuestAgent, Unsupported, Report, Scripts, BootCommands
<1>2. ASSUME NEW v \in Vms, NEW ping \in BOOLEAN, diagnoseGuestAgent(i, v, ping)
      PROVE  BootInv'
  <2>1. PICK r : r = [NoCall EXCEPT !.pc = "probed", !.vm = v, !.ping = ping]
    OBVIOUS
  <2>2. /\ r \in BootCalls /\ r.pc = "probed" /\ r.vm = v /\ r.seen = {}
        /\ r.pc \notin BootCommands
    BY <2>1 DEF NoCall, BootCalls, BootCommands
  <2>3. insp' = [insp EXCEPT ![i] = r]
    BY <1>2, <2>1 DEF diagnoseGuestAgent
  <2> QED
    BY <1>1, <2>2, <2>3, OutsideStep
<1>3. CASE Unsupported(i)
  <2>1. PICK r : r = [insp[i] EXCEPT !.pc = "done"]
    OBVIOUS
  <2>2. insp[i].seen = {} /\ insp[i].vm \in Vms
    BY <1>3 DEF Unsupported, BootInv, Inspects
  <2>3. /\ r \in BootCalls /\ r.pc = "done" /\ r.vm \in Vms /\ r.seen = {}
        /\ r.pc \notin BootCommands
    BY <1>1, <2>1, <2>2 DEF BootCalls, BootCommands
  <2>4. insp' = [insp EXCEPT ![i] = r]
    BY <1>1, <1>3, <2>1 DEF Unsupported, BootStep
  <2> QED
    BY <1>1, <2>3, <2>4, OutsideStep
<1>4. CASE Report(i)
  <2>1. /\ NoCall \in BootCalls /\ NoCall.pc = "free" /\ NoCall.seen = {}
        /\ NoCall.pc \notin BootCommands
    BY DEF NoCall, BootCalls, BootCommands
  <2>2. insp' = [insp EXCEPT ![i] = NoCall]
    BY <1>4 DEF Report
  <2> QED
    BY <1>1, <2>1, <2>2, OutsideStep
<1> QED
  BY <1>2, <1>3, <1>4

\* The invariant holds at the start.
LEMMA BootInitInv == BootInit => BootInv
<1> SUFFICES ASSUME BootInit PROVE BootInv
  OBVIOUS
<1>1. /\ NoCall \in BootCalls /\ NoCall.pc = "free" /\ NoCall.seen = {}
      /\ NoCall.pc \notin BootCommands
  BY DEF NoCall, BootCalls, BootCommands
<1>2. insp = [i \in Inspections |-> NoCall] /\ Scripts = {}
  BY <1>1 DEF BootInit, Scripts
<1>3. HostOK
  BY DEF BootInit, HostOK
<1>4. BootTypeOK
  <2>1. /\ local \in SUBSET Vms /\ insp \in [Inspections -> BootCalls]
        /\ upset = FALSE /\ dirty = {} /\ stray = FALSE
    BY <1>1, <1>2 DEF BootInit
  <2> QED
    BY <1>3, <2>1 DEF BootTypeOK, HostOK
<1>5. \A i \in Inspections : Inspects(insp[i]) /\ Own(insp[i])
  BY <1>1, <1>2 DEF Inspects, Own
<1>6. AloneRuns /\ Tidy
  BY <1>2 DEF BootInit, AloneRuns, Tidy, OneEach, Attached
<1> QED
  BY <1>3, <1>4, <1>5, <1>6 DEF BootInv

\* Every step of the boot inspections keeps the invariant.
LEMMA BootNextInv == BootInv /\ [BootNext]_bootVars => BootInv'
<1> SUFFICES ASSUME BootInv, [BootNext]_bootVars PROVE BootInv'
  OBVIOUS
<1>1. CASE BootNext
  <2>1. PICK i \in Inspections :
          \/ \E v \in Vms, ping \in BOOLEAN : diagnoseGuestAgent(i, v, ping)
          \/ diagnoseVmBoot(i) \/ Unsupported(i)
          \/ UmountWorkdir(i) \/ DetachAll(i) \/ NoDevice(i) \/ Attach(i)
          \/ MountDisk(i) \/ MountFails(i) \/ ReadSections(i)
          \/ CleanupUmount(i) \/ CleanupDetach(i) \/ Die(i) \/ Report(i)
    BY <1>1 DEF BootNext
  <2> QED
    BY <2>1, CallSteps, BeginStep, UmountSteps, DetachAllStep, AttachStep, MountStep,
       ReadStep, EndSteps, DieStep
<1>2. CASE UNCHANGED bootVars
  BY <1>2 DEF bootVars, host, history, BootInv, BootTypeOK, HostOK, Inspects, Own,
     AloneRuns,
     Tidy, Heals, OneEach, Attached, Mounted, Scripts
<1> QED
  BY <1>1, <1>2

-----------------------------------------------------------------------------
(* The boot inspection: the theorems. *)

\* The inductive invariant of the boot inspections, for any number of them, of
\* VMs and of loop devices.
THEOREM BootInvariant == BootSpec => []BootInv
BY BootInitInv, BootNextInv, PTL DEF BootSpec

\* A diagnosis whose script ran alone shows the disk of its own VM, whatever is
\* left mounted and attached (diagnoseVmBoot and its script).
THEOREM EvidenceIsTheVms == BootSpec => []EvidenceIsOwn
<1>1. BootInv => EvidenceIsOwn
  BY DEF BootInv, Own, EvidenceIsOwn
<1> QED
  BY <1>1, BootInvariant, PTL

\* The leftovers of a script that died are taken away by the next one that runs to
\* its end, as long as no two scripts overlap.
THEOREM LeftoversAreTaken == BootSpec => []LeftoversHeal
<1>1. BootInv => LeftoversHeal
  BY DEF BootInv, Tidy, Attached, LeftoversHeal
<1> QED
  BY <1>1, BootInvariant, PTL

-----------------------------------------------------------------------------
(* Both together. *)

\* A behaviour of both is one of each.
LEMMA BothSpecs == Spec => FilesSpec /\ BootSpec
<1>1. Init => FilesInit /\ BootInit
  BY DEF Init
<1>2. [Next]_vars => [FilesNext]_filesVars /\ [BootNext]_bootVars
  BY DEF Next, vars
<1> QED
  BY <1>1, <1>2, PTL DEF Spec, FilesSpec, BootSpec

\* Types of both, and what is mounted is attached, in every behaviour of the node's
\* tools: losetup -D and -d never detach a device under a mounted directory.
THEOREM NodeTypes == Spec => []TypeOK
<1>1. FilesInv /\ BootInv => TypeOK
  BY DEF FilesInv, BootInv, TypeOK
<1> QED
  BY <1>1, BothSpecs, FilesInvariant, BootInvariant, PTL
=============================================================================
