------------------------------- MODULE AppDir -------------------------------
(***************************************************************************)
(* The workspace's ./app directory: what the compiler emits                *)
(* (packages/compiler/src/compile.ts), `openrupiv generate` writes and     *)
(* the runtime reads (mounted read-only by the workspace's Compose file).  *)
(***************************************************************************)
EXTENDS Integers, Sequences, FiniteSets

CONSTANTS Specs,       \* specs that pass validateSpec
          Compilable,  \* ... the ones compileApp accepts
          NoFile       \* the contents of a file that is not there

ASSUME AppDirAssumption == Compilable \subseteq Specs

VARIABLE app   \* the directory: file name to contents

\* The files the runtime reads, in the order they are written (compileApp sorts
\* by path), and a migration a developer adds by hand.
Init0001 == "migrations/0001_init.sql"
ByHand == "migrations/0002_by_hand.sql"
CompiledFiles == <<Init0001, "spec.json">>
Migrations == {Init0001, ByHand}
Files == Migrations \union {"spec.json"}

\* The contents of a file: from which spec, and whether all of it is there
\* (writeFile truncates, then writes).
Whole(v) == [from |-> v, whole |-> TRUE]
Torn(v) == [from |-> v, whole |-> FALSE]

Empty == [f \in Files |-> NoFile]

\* compileApp is a pure function of the spec; it always emits this one
\* migration, under this one name.
compileApp(v) == [f \in Files |-> IF f = ByHand THEN NoFile ELSE Whole(v)]

Contents == {NoFile} \union [from : Specs \union {ByHand}, whole : BOOLEAN]
=============================================================================
