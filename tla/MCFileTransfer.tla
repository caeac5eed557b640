--------------------------- MODULE MCFileTransfer ----------------------------
(* Small instances of FileTransfer for TLC. *)
EXTENDS FileTransfer, TLC

CONSTANTS c1, c2, photo, note, dot

OneClient == {c1}
TwoClients == {c1, c2}
Nodes == Permutations(Client)

Known == {"known"}
KnownOrBlank == {"known", "blank"}

\* Blocks of two bytes: a photo of two blocks, a note of one, and a single byte
Sizes == [f \in File |-> CASE f = photo -> 3 [] f = note -> 2 [] f = dot -> 1]
Photo == {photo}
PhotoAndNote == {photo, note}
AllFiles == {photo, note, dot}
NoFiles == {}
JustNote == {note}
==============================================================================
