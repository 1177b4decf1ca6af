---------------------------- MODULE ObjectCipher ----------------------------
(***************************************************************************)
(* Encryption at rest: a stored object is either the bytes a browser has   *)
(* put there or a header and chunks, each sealed with a tag of its own, so *)
(* that it can be read as a stream or only up to a bound.  The bytes of a  *)
(* file are told apart by their position.  Sealing is ideal: a piece opens *)
(* only as the whole chunk it was sealed as, under its key and counter.    *)
(*                                                                         *)
(* What a reader returns is a set: its one element, or none if it raises.  *)
(***************************************************************************)
EXTENDS Integers, Sequences, SequencesExt

CONSTANTS HeaderLen, TagLen,
          ChunkSize,      \* DEFAULT_CHUNK_SIZE
          Slack,          \* _CIPHERTEXT_SLACK
          ChunkSlack,     \* _CIPHERTEXT_CHUNK_SLACK
          Keyring         \* the master key and the previous ones, in order

ASSUME CipherAssumption ==
    /\ HeaderLen \in Nat \ {0} /\ TagLen \in Nat \ {0} /\ ChunkSize \in Nat \ {0}
    /\ Slack \in Nat /\ ChunkSlack \in Nat /\ Keyring \in Seq(STRING)

(* A byte as it is stored: in the clear, sealed, or of a header, which     *)
(* holds the size of the chunks.                                           *)
Byte(i) == [seal |-> "clear", counter |-> 0, value |-> i]
Contents(n) == [i \in 1..n |-> Byte(i)]
StreamHeader(size) == [i \in 1..HeaderLen |-> [seal |-> "TRENC", counter |-> size, value |-> 0]]

First(s, n) == SubSeq(s, 1, IF n < Len(s) THEN n ELSE Len(s))
Beyond(s, n) == SubSeq(s, n + 1, Len(s))
Ceiling(n, size) == (n + size - 1) \div size
Pieces(s, size) == [i \in 1..Ceiling(Len(s), size) |-> First(Beyond(s, (i - 1) * size), size)]

(* The tag depends on everything that was sealed: here, how many bytes.    *)
seal(key, counter, data) ==
    [i \in 1..(Len(data) + TagLen) |->
        [seal |-> key, counter |-> counter, value |-> IF i <= Len(data) THEN data[i].value ELSE 0 - Len(data)]]

unseal(key, counter, piece) ==
    LET data == [i \in 1..(Len(piece) - TagLen) |-> Byte(piece[i].value)]
    IN IF Len(piece) > TagLen /\ piece = seal(key, counter, data) THEN {data} ELSE {}

encrypt_stream(key, data) ==
    LET chunks == Pieces(data, ChunkSize)
    IN StreamHeader(ChunkSize) \o FlattenSeq([i \in DOMAIN chunks |-> seal(key, i - 1, chunks[i])])

is_encrypted(object) == object # <<>> /\ object[1].seal = "TRENC"

(* The first chunk tells which key the object has; the others have it too. *)
iter_decrypt(object) ==
    LET pieces == Pieces(Beyond(object, HeaderLen), object[1].counter + TagLen)
        fitting == {k \in DOMAIN Keyring : unseal(Keyring[k], 0, pieces[1]) # {}}
        opened == [i \in DOMAIN pieces |-> unseal(Keyring[Min(fitting)], i - 1, pieces[i])]
    IN IF Len(object) < HeaderLen \/ ~is_encrypted(object) THEN {}
       ELSE IF pieces = <<>> THEN {<<>>}
       ELSE IF fitting = {} \/ {} \in Range(opened) THEN {}
       ELSE {FlattenSeq([i \in DOMAIN opened |-> CHOOSE data \in opened[i] : TRUE])}

----------------------------------------------------------------------------
(* Reading a prefix                                                        *)

(* Only whole chunks of what was read can be opened.                       *)
whole_chunks(length, size) == (length - HeaderLen) \div (size + TagLen)

decrypt_prefix(raw, max, complete) ==
    LET size == raw[1].counter
        usable == IF complete THEN Len(raw) ELSE HeaderLen + whole_chunks(Len(raw), size) * (size + TagLen)
        needed == HeaderLen + Ceiling(max, size) * (size + TagLen)
    IN IF max = 0 THEN {<<>>}
       ELSE IF Len(raw) < HeaderLen THEN {}
       ELSE {First(plaintext, max) :
                plaintext \in iter_decrypt(First(raw, IF usable < needed THEN usable ELSE needed))}

(* Mutant of ciphertext_bound: room for the tags and not for the chunk.    *)
ciphertext_bound_tags(max) == max + Slack

(* Enough of the ciphertext that the chunk of the last byte is whole.      *)
ciphertext_bound(max) == max + Slack + ChunkSlack

(* The read that ends before its bound has the end of the object; a prefix *)
(* that comes out too short otherwise is no answer.                        *)
read_object(object, max) ==
    LET raw == First(object, ciphertext_bound(max))
        complete == Len(raw) < ciphertext_bound(max)
    IN IF Keyring = <<>> \/ ~is_encrypted(raw) THEN {First(raw, max)}
       ELSE {plaintext \in decrypt_prefix(raw, max, complete) : Len(plaintext) >= max \/ complete}

----------------------------------------------------------------------------
(* Reading it all                                                          *)

(* What is not encrypted streams through as it is.                         *)
iter_decrypted_object(object) == IF is_encrypted(object) THEN iter_decrypt(object) ELSE {object}
=============================================================================
