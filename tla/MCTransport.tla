----------------------------- MODULE MCTransport -----------------------------
(* Transport for two closures that share a library. *)
EXTENDS Transport, SequencesExt

CONSTANTS libc, lib, ipfs, cowsay, b1, b2

MCPath == {libc, lib, ipfs, cowsay}
MCRoot == {ipfs, cowsay}
MCTarget == (b1 :> ipfs) @@ (b2 :> cowsay)

\* sorted(): some fixed order of the paths, here one that disagrees with the
\* dependency order.
Rank == (cowsay :> 1) @@ (ipfs :> 2) @@ (lib :> 3) @@ (libc :> 4)
MCSorted(S) == SetToSortSeq(S, LAMBDA p, q : Rank[p] < Rank[q])

\* Two programs over a shared library that, like glibc, refers to itself; and
\* a program that refers to the other one.
Chain == (libc :> {libc}) @@ (lib :> {libc})
         @@ (ipfs :> {lib, ipfs}) @@ (cowsay :> {libc})
Diamond == (libc :> {}) @@ (lib :> {libc})
           @@ (ipfs :> {lib, libc}) @@ (cowsay :> {ipfs, lib})
MCGraphs == {Chain, Diamond}
=============================================================================
