------------------------------ MODULE MCIngest -------------------------------
(* A small instance of Ingest: two requests; `m1` and `m2` have raw keys     *)
(* that differ in case only, and so one storage id; `m3` is alone.           *)
EXTENDS Ingest, TLC

CONSTANTS m1, m2, m3, k1, k2, k3, i1, i3, p1, w1, w2

MCRawKey == (m1 :> k1) @@ (m2 :> k2) @@ (m3 :> k3)
MCStorageId == (k1 :> i1) @@ (k2 :> i1) @@ (k3 :> i3)
MCAtts == (m1 :> {p1}) @@ (m2 :> {}) @@ (m3 :> {p1})

ASSUME Collision == {m \in Msgs : Alone(m)} = {m3}

\* The requests are alike, so that it is enough to ask of one of them whether it
\* ends: whatever fails on the way is a `continue` over a finite page.
FirstEnds == RequestEnds(w1)
==============================================================================
