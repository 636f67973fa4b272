------------------------------- MODULE Sha256 -------------------------------
(***************************************************************************)
(* Sha256 of src/src/Crypto/Sha256.cpp: how a message that comes in pieces *)
(* is cut into blocks and padded, and hmac(). The compression of a block   *)
(* is not modelled: the state, and the digest it is written to, is the     *)
(* sequence of the blocks that were compressed.                            *)
(*                                                                         *)
(* A byte is a tuple: <<"m", i>> is the i-th of a message, <<"bits", i, n>>*)
(* of the 64-bit number n, <<"inner", i>> of the inner digest of hmac(),   *)
(* <<x, b>> is the byte b with the bits of x flipped.                      *)
(***************************************************************************)
EXTENDS Integers, SequencesExt

CONSTANTS blockSize,          \* 64 in the code
          lengthSize,         \* the bytes of the length at the end of the last block: 8
          digestSize,         \* 32
          Chunks, KeySizes,   \* the sizes of the pieces of a message and of the keys
          MaxMessage          \* bound: the size of a message

VARIABLES hash,     \* the members: count, buffer and state, the blocks that were compressed
          message,  \* history: what update() was given since the last reset
          digest    \* history: the last call that returned a digest, or <<>>

vars == <<hash, message, digest>>

Constant(b) == <<"byte", b>>
Tagged(tag, n) == [i \in 1 .. n |-> <<tag, i>>]
New(buffer) == [count |-> 0, buffer |-> buffer, state |-> <<>>]
Uninitialized == [i \in 1 .. blockSize |-> <<"none", 0>>]

\* WriteByteBlock()
WriteByteBlock(h) == [h EXCEPT !.state = Append(@, h.buffer)]

\* One round of the loop of update().
UpdateByte(h, b) ==
  LET pos == h.count % blockSize
      next == [h EXCEPT !.buffer[pos + 1] = b, !.count = @ + 1]
  IN  IF pos + 1 = blockSize THEN WriteByteBlock(next) ELSE next

Update(h, data) == FoldLeft(UpdateByte, h, data)

\* Mutant: no block is written when the zeros go into the next one.
FillInPlace(h, pos) ==
  [h EXCEPT !.buffer = [i \in 1 .. blockSize |-> IF i > pos /\ i <= blockSize - lengthSize THEN Constant(0) ELSE @[i]]]

RECURSIVE Fill(_, _)

\* The zeros that finalize() writes up to the place of the length.
Fill(h, pos) ==
  LET at == pos % blockSize
      next == IF at = 0 THEN WriteByteBlock(h) ELSE h
  IN  IF pos = blockSize - lengthSize THEN h
      ELSE Fill([next EXCEPT !.buffer[at + 1] = Constant(0)], at + 1)

\* finalize(): the digest, and the object after its reset(), which leaves the buffer.
Finalize(h) ==
  LET pos == h.count % blockSize
      filled == Fill([h EXCEPT !.buffer[pos + 1] = Constant(128)], pos + 1)
      last == WriteByteBlock([filled EXCEPT !.buffer = [i \in 1 .. blockSize |->
                IF i > blockSize - lengthSize THEN <<"bits", i - (blockSize - lengthSize), h.count * 8>> ELSE @[i]]])
  IN  [value |-> last.state, hash |-> New(last.buffer)]

Xor(x, data) == [i \in DOMAIN data |-> <<x, data[i]>>]
Zeros(n) == [i \in 1 .. n |-> Constant(0)]

\* hmac(), with an object of its own that is used again after each finalize(): the digests it
\* makes, of the key if that is long, of the message and of the inner digest.
Hmac(key, data) ==
  LET new == New(Uninitialized)
      hashed == Finalize(Update(new, key))
      long == Len(key) > blockSize
      hashKey == IF long THEN Tagged("key digest", digestSize) \o Zeros(blockSize - digestSize)
                 ELSE key \o Zeros(blockSize - Len(key))
      inner == Finalize(Update(Update(IF long THEN hashed.hash ELSE new, Xor("36", hashKey)), data))
      outer == Finalize(Update(Update(inner.hash, Xor("5c", hashKey)), Tagged("inner", digestSize)))
  IN  [keyDigest |-> IF long THEN hashed.value ELSE <<>>, inner |-> inner.value, outer |-> outer.value]

-----------------------------------------------------------------------------
Init == hash = New(Uninitialized) /\ message = <<>> /\ digest = <<>>

update(n) ==
  /\ Len(message) + n <= MaxMessage
  /\ message' = Tagged("m", Len(message) + n)
  /\ hash' = Update(hash, SubSeq(message', Len(message) + 1, Len(message) + n))
  /\ digest' = <<>>

finalize ==
  LET result == Finalize(hash)
  IN  /\ hash' = result.hash /\ message' = <<>>
      /\ digest' = [call |-> "finalize", key |-> <<>>, message |-> message, value |-> result.value]

reset == /\ hash' = New(hash.buffer) /\ message' = <<>> /\ digest' = <<>>

\* hmac() uses no member.
hmac(keySize, n) ==
  /\ hash = New(Uninitialized)
  /\ digest' = [call |-> "hmac", key |-> Tagged("key", keySize), message |-> Tagged("m", n),
                value |-> Hmac(Tagged("key", keySize), Tagged("m", n))]
  /\ UNCHANGED <<hash, message>>

Next == \/ \E n \in Chunks : update(n)
        \/ finalize \/ reset
        \/ \E keySize \in KeySizes, n \in Chunks : hmac(keySize, n)

Spec == Init /\ [][Next]_vars

-----------------------------------------------------------------------------
(* FIPS 180-4 and RFC 2104.                                                *)

Padded(m) ==
  LET zeros == CHOOSE k \in 0 .. blockSize - 1 : (Len(m) + 1 + k + lengthSize) % blockSize = 0
  IN  m \o <<Constant(128)>> \o Zeros(zeros) \o [i \in 1 .. lengthSize |-> <<"bits", i, Len(m) * 8>>]
Blocks(s) == [n \in 1 .. Len(s) \div blockSize |-> SubSeq(s, (n - 1) * blockSize + 1, n * blockSize)]
Sha(m) == Blocks(Padded(m))
HmacSha(key, m) ==
  LET long == Len(key) > blockSize
      short == IF long THEN Tagged("key digest", digestSize) ELSE key
      full == short \o Zeros(blockSize - Len(short))
  IN  [keyDigest |-> IF long THEN Sha(key) ELSE <<>>,
       inner |-> Sha(Xor("36", full) \o m),
       outer |-> Sha(Xor("5c", full) \o Tagged("inner", digestSize))]

\* However a message is cut into pieces, and whatever the object was used for before, the blocks
\* that are compressed are those of the padded message, so that nothing of an earlier message or
\* of the uninitialized buffer gets into a digest (Sha256.cpp 170-230, Sha256.hpp 19-57).
DigestExact ==
  /\ FlattenSeq(hash.state) \o SubSeq(hash.buffer, 1, hash.count % blockSize) = message
  /\ digest # <<>> => digest.value = IF digest.call = "hmac" THEN HmacSha(digest.key, digest.message)
                                     ELSE Sha(digest.message)
=============================================================================
