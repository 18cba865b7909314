------------------------------ MODULE MCScreen ------------------------------
(***************************************************************************)
(* Model checking VideoMemory, and Crc32 by its side: a behaviour is one   *)
(* of either, with the other where it ends.                                *)
(***************************************************************************)
EXTENDS VideoMemory, Crc32, Sequences

Block(depth, bytes) == [vpPixelSize |-> depth, vpRowBytes |-> bytes]

Numbered(blocks) == [m \in 0 .. Len(blocks) - 1 |-> blocks[m + 1]]

\* A card with all indexed depths and 16 bits, one that lists a deep mode first,
\* one without a deep mode, one with a gap, and one with more modes than the
\* driver has room for.
MCCards ==
  {Numbered(<<Block(1, 2), Block(2, 3), Block(4, 6), Block(8, 12), Block(16, 24)>>),
   Numbered(<<Block(8, 16), Block(1, 16)>>),
   Numbered(<<Block(1, 2), Block(2, 3)>>),
   [m \in {0, 2} |-> IF m = 0 THEN Block(8, 12) ELSE Block(2, 3)],
   Numbered(<<Block(1, 4), Block(1, 4), Block(8, 13), Block(4, 8), Block(4, 8), Block(2, 4),
              Block(4, 8)>>)}

MCPatterns == {16 * n : n \in 0 .. 15}

MCByte(n, a) == (n + 37 * a) % 256

MCOctets == {{}, {0, 2, 3, 7}}

\* All changes of one octet, and some of two.
MCChanges ==
  {<<a, {}>> : a \in SUBSET Octet \ {{}}}
    \cup {<<a, b>> : a \in {{0}, {7}, {1, 4}}, b \in SUBSET Octet \ {{}}}

\* Whether the behaviour is one of Crc32.
Hashing == change # <<>> \/ changed

MCInit ==
  /\ Init
  /\ \/ oldcrc32 = {} /\ newcrc32 = {} /\ len = 0 /\ change = <<>> /\ changed = FALSE
     \/ pattern = 0 /\ mode = 0 /\ Cardinality(DOMAIN card) = 7 /\ CrcInit

MCNext ==
  \/ ~Hashing /\ Next /\ UNCHANGED crcvars
  \/ Hashing /\ CrcNext /\ UNCHANGED vars

MCSpec == MCInit /\ [][MCNext]_<<vars, crcvars>>
=============================================================================
