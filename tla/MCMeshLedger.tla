---------------------------- MODULE MCMeshLedger ----------------------------
(***************************************************************************)
(* Model values for MeshLedger: a founder and a few members, a window of a *)
(* few transactions and a cut after two or three of them.                  *)
(***************************************************************************)
EXTENDS MeshLedger, TLC

CONSTANTS f, a, b,    \* the founder and two members
          g           \* the one value of the parents and timestamp

Members == Permutations(Account \ {Founder})

(* Without power cuts nothing reads back what is in flash. *)
RamView == <<dag, nextSeq, job, [n \in Account |-> Anchored(n)], wire, cuts>>

(* Handlers of two wallets share only what is on the radio: they take turns. *)
HandlersTakeTurns ==
    \A n, m \in Account :
        n # m /\ ~Free(n) => <<dag[m], nextSeq[m], job[m]>>' = <<dag[m], nextSeq[m], job[m]>>
                             /\ flash[m]' = flash[m] /\ dirty'[m] = dirty[m]

(* A wallet joins before it hears anything, and one wallet at a time is     *)
(* ahead of its flash; MeshCore does without the first.                     *)
JoinFirst ==
    /\ \A n \in Account : Anchored(n) \/ dag[n].win = {BootCredit(n)}
    /\ \A n, m \in Account : dirty[n] /\ dirty[m] => n = m

=============================================================================
