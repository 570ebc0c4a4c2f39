------------------------------- MODULE Tools -------------------------------
(***************************************************************************)
(* The tools of one RunAttempt's work phase: the ToolRegistry over the       *)
(* project's workspace (on the host or through the sandbox), and what the    *)
(* work loop keeps of each call, the written paths and the declared             *)
(* verification contract.                                                    *)
(*                                                                         *)
(* A file is a sequence of tokens, Missing or Directory.  `bad` is a byte    *)
(* that is no UTF-8 and `sub` the character that decoding puts in its place. *)
(***************************************************************************)
EXTENDS VerificationContract, Integers, Sequences, FiniteSets

CONSTANTS
    WorkFiles,     \* paths the model names
    ShellContents, \* what a shell command may leave in a file
    Texts,         \* what the model writes, as a whole or in place of a token
    ByteCap,       \* FILE_READ_MAX_BYTES, FILE_WRITE_MAX_BYTES
    RawContracts   \* contracts the model declares, as their raw checks

Tokens == {"x", "y", "bad", "sub"}
Missing == <<"missing">>
Directory == <<"directory">>

ASSUME ByteCapAssumption == ByteCap \in Nat
ASSUME ContentsAssumption == ShellContents \subseteq Seq(Tokens) /\ Texts \subseteq Seq(Tokens)
ASSUME RawContractsAssumption == RawContracts \subseteq Seq(RawChecks)

VARIABLES
    contents,   \* the workspace
    grounded,   \* _grounded_paths
    writtenPaths, \* written_paths, which become deliverable.artifact_refs
    contract,   \* declared_contract, the usable checks
    reply       \* what the last call came back with

toolVars == <<contents, grounded, writtenPaths, contract, reply>>

ToolsTypeOK ==
    /\ contents \in [WorkFiles -> Seq(Tokens) \cup {Missing, Directory}]
    /\ grounded \subseteq WorkFiles
    /\ writtenPaths \in Seq(WorkFiles) /\ IsInjective(writtenPaths)
    /\ contract \in Seq({"command", "judge"})
    /\ reply \in {"none", "ok", "error", "raised"}

ToolsInit ==
    /\ contents \in [WorkFiles -> ShellContents \cup {Missing, Directory}]
    /\ grounded = {}
    /\ writtenPaths = <<>> /\ contract = <<>>
    /\ reply = "none"

IsFile(p) == contents[p] \notin {Missing, Directory}

Decoded(bytes) == [i \in DOMAIN bytes |-> IF bytes[i] = "bad" THEN "sub" ELSE bytes[i]]

\* A ToolError is text for the model; any other exception ends the work phase.
Answer(result) ==
    /\ reply # "raised"
    /\ reply' = result

(* Mutant: every write is noted.                                            *)
NotedAgain(p) == writtenPaths' = Append(writtenPaths, p)

\* The loop notes the path of a write that succeeded, once.
Noted(p) ==
    writtenPaths' = IF p \in Range(writtenPaths) THEN writtenPaths ELSE Append(writtenPaths, p)

FileRead(p) ==
    /\ \/ IsFile(p) /\ grounded' = grounded \cup {p} /\ Answer("ok")
       \/ ~IsFile(p) /\ grounded' = grounded /\ Answer("error")
    /\ UNCHANGED <<contents, writtenPaths, contract>>

\* The whole file; a directory in its place raises what nobody translates.
FileWrite(p, text) ==
    /\ \/ /\ Len(text) <= ByteCap /\ contents[p] # Directory
          /\ contents' = [contents EXCEPT ![p] = text]
          /\ grounded' = grounded \cup {p}
          /\ Noted(p)
          /\ Answer("ok")
       \/ /\ Len(text) > ByteCap \/ contents[p] = Directory
          /\ Answer(IF Len(text) > ByteCap THEN "error" ELSE "raised")
          /\ UNCHANGED <<contents, grounded, writtenPaths>>
    /\ UNCHANGED contract

\* What file_edit works on: one byte more than may be written is read, and a
\* file that long is refused.
ReadForEdit(p) ==
    SubSeq(contents[p], 1, IF Len(contents[p]) > ByteCap THEN ByteCap + 1 ELSE Len(contents[p]))
(* Mutant: what was read is one byte longer than may be.                    *)
EditableCut(p) == IsFile(p) /\ Len(ReadForEdit(p)) <= ByteCap + 1

Editable(p) == IsFile(p) /\ Len(ReadForEdit(p)) <= ByteCap

Occurrences(text, token) == Cardinality({i \in DOMAIN text : text[i] = token})

\* The first occurrence is the only one, or all are meant.
Replaced(text, old, new) ==
    FlattenSeq([i \in DOMAIN text |-> IF text[i] = old THEN new ELSE <<text[i]>>])

FileEdit(p, old, new, replaceAll) ==
    LET text == Decoded(ReadForEdit(p))
        count == IF Editable(p) THEN Occurrences(text, old) ELSE 0
        updated == Replaced(text, old, new)
        done == /\ new # <<old>> /\ p \in grounded
                /\ count = 1 \/ (count > 1 /\ replaceAll)
                /\ Len(updated) <= ByteCap
    IN  /\ IF done
           THEN /\ contents' = [contents EXCEPT ![p] = updated]
                /\ Noted(p)
                /\ Answer("ok")
           ELSE /\ Answer("error")
                /\ UNCHANGED <<contents, writtenPaths>>
        /\ UNCHANGED <<grounded, contract>>

\* A command the denylist matches is refused; any other does what it does, in
\* the time it has, and its files are nobody's.
ShellExec(p, content) ==
    /\ \/ Answer("error") /\ UNCHANGED contents
       \/ /\ \E result \in {"ok", "error"} : Answer(result)
          /\ contents' = [contents EXCEPT ![p] = content]
    /\ UNCHANGED <<grounded, writtenPaths, contract>>

\* The last usable contract counts; one without a usable check changes nothing.
DeclareVerification(raw) ==
    LET checks == ParseVerificationContract(raw)
    IN  /\ contract' = IF checks = <<>> THEN contract ELSE checks
        /\ Answer(IF checks = <<>> THEN "error" ELSE "ok")
        /\ UNCHANGED <<contents, grounded, writtenPaths>>

ToolsNext ==
    \/ \E p \in WorkFiles :
          \/ FileRead(p)
          \/ \E text \in Texts : FileWrite(p, text)
          \/ \E old \in {"x", "y", "sub"}, new \in Texts, replaceAll \in BOOLEAN :
                FileEdit(p, old, new, replaceAll)
          \/ \E content \in ShellContents \cup {Missing} : ShellExec(p, content)
    \/ \E raw \in RawContracts : DeclareVerification(raw)

ToolsSpec == ToolsInit /\ [][ToolsNext]_toolVars

\* file_edit "changes only what you specify": every other token of the file is
\* there as often as before and no other file changes, however long the file has
\* become since it was read and whatever a shell command did to it.  (Bytes that
\* are no UTF-8 come back as replacement characters.)
EditTouchesOnlyItsTarget ==
    [][\A p \in WorkFiles, old \in {"x", "y", "sub"}, new \in Texts, replaceAll \in BOOLEAN :
          (FileEdit(p, old, new, replaceAll) /\ reply' = "ok")
          => /\ \A t \in {"x", "y"} \ ({old} \cup Range(new)) :
                   Occurrences(contents'[p], t) = Occurrences(contents[p], t)
             /\ \A q \in WorkFiles \ {p} : contents'[q] = contents[q]]_toolVars

=============================================================================
