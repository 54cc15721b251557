----------------------------- MODULE BlobFormat -----------------------------
(***************************************************************************)
(* The format of an encrypted blob, as encrypt_file of services/           *)
(* encryption.py writes it and decrypt_file reads it: a header with the    *)
(* wrapped key, then chunks until the end of the file.  Nonce and          *)
(* additional data bind a chunk to the key and to its place, so a chunk is *)
(* modelled by the place it was sealed for; what was sealed with another   *)
(* key, overwritten or cut in its middle is Damaged, and so is a header    *)
(* that cannot be read, as a first chunk.                                  *)
(***************************************************************************)
EXTENDS Naturals, Sequences

Damaged == 0

\* encrypt_file: a source of n chunks.
Sealed(n) == [i \in 1..n |-> i]

\* The chunk at place i authenticates there.
Opens(b, i) == b[i] = i

\* decrypt_file gets to the end of b, which it takes for the end of the blob.
Accepted(b) == \A i \in DOMAIN b : Opens(b, i)

\* The plaintext it has written until then, or until the exception.
Plain(b) ==
    SubSeq(b, 1, CHOOSE k \in 0..Len(b) :
        /\ \A i \in 1..k : Opens(b, i)
        /\ k < Len(b) => ~Opens(b, k + 1))

\* What it may have written when it is killed.
PlainSoFar(b) == {SubSeq(b, 1, k) : k \in 0..Len(Plain(b))}

\* A blob of which everything was overwritten.
Wiped == <<Damaged>>

\* A copy of a blob of n chunks that ends early, between two chunks, or that is
\* unreadable from some chunk on.
Cut(n) == {Sealed(k) : k \in 0..(n - 1)}
Spoilt(n) == {Append(b, Damaged) : b \in Cut(n)}
=============================================================================
