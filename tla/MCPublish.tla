----------------------------- MODULE MCPublish -----------------------------
(* Publish for a cell with one core file, a declaration, an artifact       *)
(* manifest and a blob.                                                    *)
EXTENDS Publish, TLC

CONSTANTS cell_py, declaration, artifact, blob, v1, v2, v3

MCName == {cell_py, declaration, artifact, blob}

\* The declaration takes the manifest into the nucleus, or the blob as well.
MCDeclares == (v1 :> {artifact}) @@ (v2 :> {artifact, blob}) @@ (v3 :> {})

\* Version v of the manifest pins version v of the blob.
MCPins == (v1 :> (blob :> v1)) @@ (v2 :> (blob :> v2)) @@ (v3 :> <<>>)

\* Every directory, up to contents that mean the same.
MCOriginal ==
  {d \in [MCName -> {v1, v2, v3, Absent}] :
     d[cell_py] \in {v1, Absent} /\ v3 \notin {d[declaration], d[blob]}}
=============================================================================
