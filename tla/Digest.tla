------------------------------- MODULE Digest --------------------------------
(***************************************************************************)
(* The digest of a file (boot/sha256.rs): which blocks go into the         *)
(* compression, however the file is read, the compression itself being     *)
(* arithmetic. The blocks are kept one after the other, as one sequence.   *)
(* The length is a number here, and wraps nowhere (`bits` does, at 2^64).  *)
(***************************************************************************)
EXTENDS Integers, Sequences

CONSTANTS Octet,        \* what a file is made of
          Messages,     \* the files
          ReadSize,     \* the most that one read gives
          Block,        \* octets of a block
          LengthField   \* of these, for the length of the message

ASSUME DigestAssumption ==
    /\ Messages \subseteq Seq(Octet)
    /\ ReadSize \in Nat \ {0}
    /\ Block \in Nat /\ LengthField \in 1 .. Block - 1

VARIABLES message,    \* what the reads of the file give, all in all
          read,       \* how much of it was read, which `bits` counts
          digested,   \* what was compressed
          held,       \* what the next block has of it
          stage, put  \* how much of the length is written

digestVars == <<message, read, digested, held, stage, put>>

End == <<"end">>
Zero == <<"zero">>
LengthCell(n, i) == <<"length", n, i>>
DigestCell == Octet \cup {End, Zero} \cup {LengthCell(Len(m), i) : m \in Messages, i \in 1 .. LengthField}

-----------------------------------------------------------------------------
(* FIPS 180-4, 5.1.1: an end, the fewest zeros that make it whole blocks,  *)
(* and the length.                                                         *)
Zeros(n) == CHOOSE z \in 0 .. Block - 1 : \E q \in 0 .. n + Block : n + 1 + z + LengthField = q * Block

Padded(m) ==
    m \o <<End>> \o [i \in 1 .. Zeros(Len(m)) |-> Zero]
      \o [i \in 1 .. LengthField |-> LengthCell(Len(m), i)]

-----------------------------------------------------------------------------
DigestBegins ==
    /\ read = 0
    /\ digested = <<>> /\ held = <<>>
    /\ stage = "reading" /\ put = 0

DigestInit == message \in Messages /\ DigestBegins

(* "Still short of a block": it is held with the rest. A change of that    *)
(* goes on, to where what is held is set anew.                             *)
TopUpAndGoOn(data) ==
    /\ held # <<>> /\ Len(held) + Len(data) < Block
    /\ held' = <<>>
    /\ UNCHANGED digested

TopUp(data) ==
    /\ held # <<>> /\ Len(held) + Len(data) < Block
    /\ held' = held \o data
    /\ UNCHANGED digested

(* What is held is filled up, then whole blocks go straight from the data. *)
Absorb(data) ==
    /\ held = <<>> \/ Len(held) + Len(data) >= Block
    /\ LET take == IF held = <<>> THEN 0 ELSE Block - Len(held)
           used == take + ((Len(data) - take) \div Block) * Block
       IN  /\ digested' = digested \o (held \o SubSeq(data, 1, used))
           /\ held' = SubSeq(data, used + 1, Len(data))

(* `update`, of what a read of `file` gave.                                *)
Update ==
    /\ stage = "reading"
    /\ \E n \in 1 .. ReadSize :
          LET data == SubSeq(message, read + 1, read + n)
          IN  /\ read + n <= Len(message)
              /\ TopUp(data) \/ Absorb(data)
              /\ read' = read + n
    /\ UNCHANGED <<stage, put>>

FailToRead ==
    /\ stage = "reading" /\ stage' = "failed"
    /\ UNCHANGED <<read, digested, held, put>>

(* `pad`.                                                                  *)
PadBy(cell) ==
    IF Len(held) + 1 = Block THEN digested' = digested \o Append(held, cell) /\ held' = <<>>
    ELSE held' = Append(held, cell) /\ UNCHANGED digested

PadEnd ==
    /\ stage = "reading" /\ read = Len(message)
    /\ PadBy(End)
    /\ stage' = "zeros"
    /\ UNCHANGED <<read, put>>

PadZero ==
    /\ stage = "zeros" /\ Len(held) # Block - LengthField
    /\ PadBy(Zero)
    /\ UNCHANGED <<read, stage, put>>

PadLength ==
    /\ stage = "length" \/ (stage = "zeros" /\ Len(held) = Block - LengthField)
    /\ PadBy(LengthCell(read, put + 1))
    /\ put' = put + 1
    /\ stage' = IF put' = LengthField THEN "done" ELSE "length"
    /\ UNCHANGED read

DigestNext ==
    /\ Update \/ FailToRead \/ PadEnd \/ PadZero \/ PadLength
    /\ UNCHANGED message

DigestSpec == DigestInit /\ [][DigestNext]_digestVars

-----------------------------------------------------------------------------
DigestTypeOK ==
    /\ message \in Messages
    /\ read \in 0 .. Len(message)
    /\ digested \in Seq(DigestCell)
    /\ held \in Seq(DigestCell) /\ Len(held) < Block
    /\ stage \in {"reading", "zeros", "length", "done", "failed"}
    /\ put \in 0 .. LengthField

(* What is compressed is what the standard says of the message, all of it  *)
(* and nothing besides, wherever its reads were cut (`update`, `finish`    *)
(* and its `debug_assert_eq!`); and no more is ever padded than that.      *)
DigestIsStandard ==
    /\ stage = "done" => digested = Padded(message) /\ held = <<>>
    /\ Len(digested) + Len(held) <= Len(Padded(message))

=============================================================================
