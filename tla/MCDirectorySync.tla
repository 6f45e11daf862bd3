-------------------------- MODULE MCDirectorySync ---------------------------
(* Small instances of DirectorySync. *)
EXTENDS DirectorySync

CONSTANTS f1, f2, ten, a, b, c

MCDocs == {f1, f2}
MCTenants == {ten}
MCPieces == {a, b, c}
MCFiles == <<f1, f2>>
Whole == {{f1, f2}}
AnyDirectory == {{f1, f2}, {f1}}

\* Texts of two chunks, one, and none.
MCTexts == {<<a, b>>, <<c>>, <<>>}
=============================================================================
