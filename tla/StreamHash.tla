------------------------------ MODULE StreamHash ------------------------------
(***************************************************************************)
(* hash_proc_mem() of src/src/anticheat_daemon.c, which hashes a range of   *)
(* another process's memory as pread() delivers it, and the buffering and   *)
(* padding of src/src/sha256.c under it: ac_sha256_init, ac_sha256_update   *)
(* and ac_sha256_final.                                                     *)
(*                                                                          *)
(* The compression function is injective here: the chaining value is the    *)
(* sequence of bytes compressed so far, `hashed'.  Two digests are then     *)
(* equal only if the same blocks went in.  buf holds the first buflen bytes *)
(* of the buffer; what lies beyond is never read.                           *)
(***************************************************************************)
EXTENDS Integers, Sequences

CONSTANTS
    Byte,          \* bytes of the range
    BLOCK,         \* bytes of a block (64)
    LENBYTES,      \* bytes of the length field at the end (8)
    CHUNK,         \* AC_READ_CHUNK
    MaxSize,       \* bound on the size of a range
    Failed

ASSUME StreamAssumption ==
    /\ Byte \subseteq 0 .. 255
    /\ BLOCK \in Nat /\ LENBYTES \in 1 .. BLOCK - 1
    /\ CHUNK \in Nat \ {0} /\ MaxSize \in Nat

VARIABLES
    range,         \* the bytes at [start, start + size)
    readable,      \* how many of them pread() delivers before it returns 0
    done,          \* bytes read so far
    hashed, len, buf,   \* ac_sha256_ctx
    data,          \* what ac_sha256_update() has yet to take
    lenbuf,
    phase,         \* "read", "pad", "hex", or "end" once the call has returned
    digest         \* what it returned, Failed for -1

ctx == <<hashed, len, buf>>
streamVars == <<range, readable, done, ctx, data, lenbuf, phase, digest>>

Least(a, b) == IF a < b THEN a ELSE b
size == Len(range)

\* ac_sha256_update(c, d, Len(d)): the length is added at once, the bytes are taken
\* by the steps of Take.
Update(d) ==
    /\ len' = len + Len(d)
    /\ data' = d

\* Compression of a block
ac_sha256_block(p) == hashed' = hashed \o p

\* One round of the loop of ac_sha256_update().
Take ==
    /\ data # <<>>
    /\ LET n == Least(BLOCK - Len(buf), Len(data))
           full == buf \o SubSeq(data, 1, n)
       IN  /\ data' = SubSeq(data, n + 1, Len(data))
           /\ \/ Len(full) = BLOCK /\ ac_sha256_block(full) /\ buf' = <<>>
              \/ Len(full) < BLOCK /\ buf' = full /\ UNCHANGED hashed
    /\ UNCHANGED <<range, readable, done, len, lenbuf, phase, digest>>

-----------------------------------------------------------------------------
\* pread() delivers some of the bytes it was asked for.
Pread ==
    /\ phase = "read" /\ data = <<>> /\ done < size
    /\ \E r \in 1 .. Least(size - done, CHUNK) :
          /\ done + r <= readable
          /\ Update(SubSeq(range, done + 1, done + r))
          /\ done' = done + r
    /\ UNCHANGED <<range, readable, hashed, buf, lenbuf, phase, digest>>

\* It fails, or it returns 0 before the range is covered.
PreadFails ==
    /\ phase = "read" /\ data = <<>> /\ done < size
    /\ phase' = "end" /\ digest' = Failed
    /\ UNCHANGED <<range, readable, done, ctx, data, lenbuf>>

\* lenbuf: the number of bits, most significant byte first
LenBytes(n) == [i \in 1 .. LENBYTES |-> ((n * 8) \div (256 ^ (LENBYTES - i))) % 256]

\* ac_sha256_final() takes the length before the padding counts into it.
Final ==
    /\ phase = "read" /\ data = <<>> /\ done = size
    /\ lenbuf' = LenBytes(len)
    /\ Update(<<128>>)
    /\ phase' = "pad"
    /\ UNCHANGED <<range, readable, done, hashed, buf, digest>>

Pad ==
    /\ phase = "pad" /\ data = <<>>
    /\ \/ /\ Len(buf) # BLOCK - LENBYTES
          /\ Update(<<0>>)
          /\ UNCHANGED phase
       \/ /\ Len(buf) = BLOCK - LENBYTES
          /\ Update(lenbuf)
          /\ phase' = "hex"
    /\ UNCHANGED <<range, readable, done, hashed, buf, lenbuf, digest>>

Hex ==
    /\ phase = "hex" /\ data = <<>>
    /\ digest' = hashed
    /\ phase' = "end"
    /\ UNCHANGED <<range, readable, done, ctx, data, lenbuf>>

\* hash_proc_mem() starts with ac_sha256_init(); the context is not cleared otherwise.
InitKeepsBuf ==   \* variant: the buffered bytes of the last use are kept
    /\ hashed' = <<>> /\ len' = 0
    /\ UNCHANGED buf

ac_sha256_init ==
    /\ hashed' = <<>> /\ len' = 0 /\ buf' = <<>>

Call ==
    /\ phase = "end"
    /\ ac_sha256_init
    /\ \E n \in 0 .. MaxSize : range' \in [1 .. n -> Byte]
    /\ readable' \in 0 .. Len(range')
    /\ done' = 0 /\ data' = <<>>
    /\ phase' = "read" /\ digest' = Failed
    /\ UNCHANGED lenbuf

StreamInit ==
    /\ range = <<>> /\ readable = 0 /\ done = 0
    /\ hashed = <<>> /\ len = 0 /\ buf = <<>> /\ data = <<>>
    /\ lenbuf = LenBytes(0)
    /\ phase = "end" /\ digest = Failed

StreamNext == Take \/ Pread \/ PreadFails \/ Final \/ Pad \/ Hex \/ Call

StreamSpec == StreamInit /\ [][StreamNext]_streamVars

-----------------------------------------------------------------------------
\* The padded message of FIPS 180-4: the message, a one bit, as few zeros as make
\* the length field end a block, and the length in bits.
Zeros(n) == [i \in 1 .. (BLOCK - ((n + 1 + LENBYTES) % BLOCK)) % BLOCK |-> 0]
Padded(m) == m \o <<128>> \o Zeros(Len(m)) \o LenBytes(Len(m))

\* Every variable keeps its type.
StreamTypeOK ==
    /\ range \in Seq(Byte) /\ readable \in 0 .. size /\ done \in 0 .. size
    /\ hashed \in Seq(0 .. 255) /\ buf \in Seq(0 .. 255) /\ data \in Seq(0 .. 255)
    /\ len \in Nat /\ Len(buf) < BLOCK /\ Len(hashed) % BLOCK = 0
    /\ lenbuf \in [1 .. LENBYTES -> 0 .. 255]
    /\ phase \in {"read", "pad", "hex", "end"}

\* A digest is the digest of the whole range and of nothing else, however pread()
\* cuts the range into pieces, wherever a piece falls relative to a block, and
\* whatever an earlier call left in the context; a range that could not be read to
\* its end has none.  Every variable has its type.
DigestIsOfRange ==
    /\ StreamTypeOK
    /\ digest # Failed => digest = Padded(range) /\ readable = size
=============================================================================
