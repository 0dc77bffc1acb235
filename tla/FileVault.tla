----------------------------- MODULE FileVault -----------------------------
(***************************************************************************)
(* What encrypted storage promises whatever calls overlap: a key is kept   *)
(* for good, contents are encrypted with a kept key of their node, several *)
(* are re-encrypted at once or not at all, and what is deleted stays so.   *)
(***************************************************************************)
CONSTANTS
    StorageNodes,
    Files,      \* ids, each uploaded to once
    Deks,       \* data encryption keys
    None, Gone  \* no content yet; deleted

VARIABLES
    kept,    \* node -> its data encryption keys
    content  \* file -> its node and the key it is encrypted with

vars == <<kept, content>>

Init ==
    /\ kept = [n \in StorageNodes |-> {}]
    /\ content = [f \in Files |-> None]

FilesOf(n) == {f \in Files : content[f] \notin {None, Gone} /\ content[f].node = n}

KeepKey(n, d) ==
    /\ kept' = [kept EXCEPT ![n] = @ \cup {d}]
    /\ UNCHANGED content

Upload(f, n, d) ==
    /\ content[f] = None
    /\ d \in kept[n]
    /\ content' = [content EXCEPT ![f] = [node |-> n, dek |-> d]]
    /\ UNCHANGED kept

Reencrypt(s, n, d) ==
    /\ s \subseteq FilesOf(n)
    /\ d \in kept[n]
    /\ content' = [f \in Files |-> IF f \in s THEN [node |-> n, dek |-> d] ELSE content[f]]
    /\ UNCHANGED kept

Delete(f) ==
    /\ content[f] \notin {None, Gone}
    /\ content' = [content EXCEPT ![f] = Gone]
    /\ UNCHANGED kept

Next ==
    \/ \E f \in Files : Delete(f)
    \/ \E n \in StorageNodes, d \in Deks :
          \/ KeepKey(n, d)
          \/ \E f \in Files : Upload(f, n, d)
          \/ \E s \in SUBSET Files : Reencrypt(s, n, d)

Spec == Init /\ [][Next]_vars

=============================================================================
