------------------------------- MODULE Crc32 -------------------------------
(***************************************************************************)
(* The hash of a colour table (kernel/src/crc32.h), computed octet by      *)
(* octet for a table and for the same table after a change.  fb_update     *)
(* looks at nothing but the hash to see whether a table has changed;       *)
(* FrameUpdate takes the hash for the table itself.                        *)
(*                                                                         *)
(* A number is the set of its one bits, so ^ is the symmetric difference.  *)
(***************************************************************************)
EXTENDS Integers, FiniteSetsExt

CONSTANTS
  Octets,    \* what a table may hold (a bound)
  Changes,   \* how two consecutive octets may change: pairs of sets of bits
  LEN        \* the octets of a table (a bound)

Bits == 0 .. 31
Octet == 0 .. 7

ASSUME CrcAssumption ==
  /\ Octets \subseteq SUBSET Octet
  /\ Changes \subseteq (SUBSET Octet) \X (SUBSET Octet) /\ <<{}, {}>> \notin Changes
  /\ LEN \in Nat \ {0, 1}

VARIABLES
  oldcrc32,   \* of fb_crc32buf for the table
  newcrc32,   \* the same for the changed table
  len,        \* how many octets are left
  change,     \* what is still to change: no, one or two octets
  changed     \* the tables have differed

crcvars == <<oldcrc32, newcrc32, len, change, changed>>

-----------------------------------------------------------------------------
\* 0xedb88320
Polynomial == {31, 30, 29, 27, 26, 24, 23, 21, 20, 19, 15, 9, 8, 5}

ShiftRight(w, n) == {b - n : b \in {c \in w : c >= n}}

\* Mutant: & 0xf
LowNibble(w) == w \cap 0 .. 3

LowOctet(w) == w \cap Octet

\* One step of dividing by the polynomial.
Step(w) == IF 0 \in w THEN SymDiff(ShiftRight(w, 1), Polynomial) ELSE ShiftRight(w, 1)

\* Each entry is its index after eight of them.
fb_crc_32_tab == [n \in SUBSET Octet |-> Step(Step(Step(Step(Step(Step(Step(Step(n))))))))]

UPDC32(octet, crc) == SymDiff(fb_crc_32_tab[LowOctet(SymDiff(crc, octet))], ShiftRight(crc, 8))

\* ~oldcrc32, what fb_crc32buf returns
Hash(crc) == Bits \ crc

\* The tables are alike but for one place.
CrcInit ==
  /\ oldcrc32 = Bits /\ newcrc32 = Bits
  /\ len = LEN
  /\ change \in {<<c[1], c[2]>> : c \in Changes}
  /\ changed = FALSE

\* An octet that is the same in both: the change is yet to come, or over.
SameOctet ==
  /\ len > 0
  /\ len > 2 \/ change = <<>>
  /\ \E octet \in Octets :
       /\ oldcrc32' = UPDC32(octet, oldcrc32)
       /\ newcrc32' = UPDC32(octet, newcrc32)
  /\ len' = len - 1
  /\ UNCHANGED <<change, changed>>

\* Two octets one after another, in one of which at least the tables differ.
ChangedOctets ==
  /\ len >= 2
  /\ change # <<>>
  /\ \E first, second \in Octets :
       /\ oldcrc32' = UPDC32(second, UPDC32(first, oldcrc32))
       /\ newcrc32' = UPDC32(SymDiff(second, change[2]),
                             UPDC32(SymDiff(first, change[1]), newcrc32))
  /\ len' = len - 2
  /\ change' = <<>>
  /\ changed' = TRUE

CrcDone == len = 0 /\ UNCHANGED crcvars

CrcNext == SameOctet \/ ChangedOctets \/ CrcDone

CrcSpec == CrcInit /\ [][CrcNext]_crcvars

-----------------------------------------------------------------------------
(***************************************************************************)
(* "FB_CLUT_HASH returns the crc32 of the current CLUT, so you can see if  *)
(* it's changed" (fb.h:76-78): a change of one component of one colour,    *)
(* which is 16 bits, is always seen, whatever the table holds before and   *)
(* after it.                                                               *)
(***************************************************************************)
ChangeSeen == changed => Hash(oldcrc32) # Hash(newcrc32)
=============================================================================
