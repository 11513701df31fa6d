-------------------------- MODULE MCRequestManager --------------------------
(* Instances of RequestManager for TLC. *)
EXTENDS RequestManager

CONSTANTS cA, cA_imports, cAB, bA, bAB, bABC

\* The user types "b" behind "a"; the engine may add a "c".
TypedBases == {<<bA, bAB>>, <<bAB, bABC>>, <<bA, bABC>>}

\* From the cursor, the document looks the same with other imports.
BaseOf == [c \in {cA, cA_imports, cAB} |-> IF c = cAB THEN bAB ELSE bA]

TypedContents == {<<cA, cAB>>, <<cA_imports, cAB>>}

\* With the imports, the request waits for repository context.
WithImports == {cA_imports}

Shareable == {<<cA, cAB>>}

=============================================================================
