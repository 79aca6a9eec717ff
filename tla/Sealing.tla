------------------------------ MODULE Sealing ------------------------------
(***************************************************************************)
(* The form in which app/vectorstore.py keeps a chunk, over app/crypto.py. *)
(*                                                                         *)
(* Encryption is symbolic: a ciphertext is a value of its own that holds   *)
(* its plaintext, nobody can write one without the key, and two calls on   *)
(* the same text are not told apart (the nonce is left out).  What can be  *)
(* written is any member of Words, and some of them look like ciphertexts. *)
(***************************************************************************)
CONSTANTS
    Words,        \* text that users and upstream can write
    LookAlikes,   \* the words that begin with the prefix "v1:"
    Flags,        \* metadata values that are not text
    Keys,         \* metadata keys
    Cleartext,    \* _CLEARTEXT_METADATA_KEYS: what retrieval filters on
    Raised        \* the ValueError of decrypt

Encrypt(x) == <<"v1", x>>
Ciphertexts == {Encrypt(x) : x \in Words}

ASSUME SealingAssumption ==
    /\ LookAlikes \subseteq Words
    /\ Cleartext \subseteq Keys
    /\ Words \cap Ciphertexts = {}
    /\ Flags \cap (Words \cup Ciphertexts) = {}
    /\ Raised \notin Words \cup Ciphertexts \cup Flags

HasPrefix(y) == y \in LookAlikes \cup Ciphertexts

\* A value without the prefix raises, one with it raises unless its tag proves
\* that encrypt made it.
Decrypt(y) == IF HasPrefix(y) /\ y \in Ciphertexts THEN y[2] ELSE Raised

Values == Words \cup Flags
Metadata == UNION {[D -> Values] : D \in SUBSET Keys}

IsFreeText(k, x) == k \notin Cleartext /\ x \notin Flags

SealMetadata(meta) ==
    [k \in DOMAIN meta |-> IF IsFreeText(k, meta[k]) THEN Encrypt(meta[k]) ELSE meta[k]]

\* What add_chunks stores; enc is the marker that says how it was written.
Seal(body, meta) == [body |-> Encrypt(body), meta |-> SealMetadata(meta), enc |-> TRUE]

\* A record from before encryption.
Unsealed(body, meta) == [body |-> body, meta |-> meta, enc |-> FALSE]

\* What a reader gets: the marker decides, never what a value looks like.
Read(record) ==
    IF ~record.enc THEN [body |-> record.body, meta |-> record.meta]
    ELSE [body |-> Decrypt(record.body),
          meta |-> [k \in DOMAIN record.meta |->
                      IF IsFreeText(k, record.meta[k]) THEN Decrypt(record.meta[k])
                      ELSE record.meta[k]]]

\* mark_reviewed overwrites cleartext keys and writes back the rest as it is.
Decide(record, verdict) ==
    [record EXCEPT !.meta =
        [k \in DOMAIN record.meta \cup DOMAIN verdict |->
            IF k \in DOMAIN verdict THEN verdict[k] ELSE record.meta[k]]]

-----------------------------------------------------------------------------
(* Properties *)

\* Whatever its text looks like, a chunk is read back as it was written, by the
\* current program and by the one before encryption, and no reader raises.
ReadsBack(body, meta) ==
    /\ Read(Seal(body, meta)) = [body |-> body, meta |-> meta]
    /\ Read(Unsealed(body, meta)) = [body |-> body, meta |-> meta]

\* No free text of a stored chunk can be read without the key.
NothingInTheClear(body, meta) ==
    LET record == Seal(body, meta)
    IN /\ record.body \notin Words
       /\ \A k \in DOMAIN meta \ Cleartext : record.meta[k] \notin Words

\* A decision changes the keys it names and no text, sealed or not.
DecisionKeepsText(record, verdict) ==
    /\ Read(Decide(record, verdict)).body = Read(record).body
    /\ \A k \in DOMAIN record.meta \ DOMAIN verdict :
          Read(Decide(record, verdict)).meta[k] = Read(record).meta[k]
    /\ \A k \in DOMAIN verdict : Read(Decide(record, verdict)).meta[k] = verdict[k]
=============================================================================
