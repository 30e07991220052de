---------------------------- MODULE NalSplitter -----------------------------
(***************************************************************************)
(* Splitting the bitstream of an H.264 or H.265 encoder into NAL units     *)
(* (scanForStartCode() and splitNALs() in stream_encoder.cpp). A step of   *)
(* the scan is one pass through its loop.                                  *)
(*                                                                         *)
(* Positions count from 0 as in the code: At(i) is data[i]. The input is   *)
(* at least four octets long; below that, length - 4 wraps around and the  *)
(* scan runs out of the buffer.                                            *)
(***************************************************************************)
EXTENDS Integers, Sequences

CONSTANTS
    Octets,      \* the octets that occur; only 0 and 1 are special
    MaxLength,   \* bound: the length of an arbitrary input
    MaxPayload,  \* bound: the length of a unit in a stream of units
    MaxUnits     \* bound: the number of units in such a stream

ASSUME OctetsAssumption == {0, 1} \subseteq Octets /\ Octets \subseteq 0 .. 255
ASSUME LengthsAssumption == MaxLength \in Nat /\ MaxPayload \in Nat /\ MaxUnits \in Nat

VARIABLES
    units,  \* history: the units that a well-formed input consists of
    codes,  \* history: where their start codes are, and how long: 3 or 4
    data,   \* the input
    stage,  \* "writing" the input, "scanning" it, or "done"
    start,  \* nal_start, or 0 during the first scan
    pos,    \* i, the position that the scan looks at
    out     \* output: where each unit starts and how long it is

inputVars == <<units, codes, data>>
splitVars == <<inputVars, stage, start, pos, out>>

ShortCode == <<0, 0, 1>>
LongCode == <<0, 0, 0, 1>>

At(i) == data[i + 1]

Starts(i, code) == \A k \in 1 .. Len(code) : At(i + k - 1) = code[k]

\* Where the k-th unit written begins and ends.
Begin(k) == codes[k].at + codes[k].size
UnitEnd(k) == Begin(k) + Len(units[k])

\* The units of a well-formed stream: emulation prevention lets no two zeros
\* be followed by an octet up to 3, and a unit does not end in a zero.
Units ==
    {u \in UNION {[1 .. n -> Octets] : n \in 1 .. MaxPayload} :
        /\ u[Len(u)] # 0
        /\ \A i \in 1 .. Len(u) - 2 : ~(u[i] = 0 /\ u[i + 1] = 0 /\ u[i + 2] <= 3)}

\* An input is written by an encoder, or it is arbitrary.
SplitInit ==
    /\ \/ stage = "writing" /\ data = << >>
       \/ stage = "scanning" /\ data \in UNION {[1 .. n -> Octets] : n \in 4 .. MaxLength}
    /\ units = << >> /\ codes = << >>
    /\ start = 0 /\ pos = 0 /\ out = << >>

-----------------------------------------------------------------------------
(* The encoder.                                                            *)

\* The first unit of a packet has a code of four octets. libx264 leaves the
\* leading zero out before the further slices of a picture, which
\* slice-max-size makes it write.
WriteUnit(u, code) ==
    /\ stage = "writing" /\ Len(units) < MaxUnits
    /\ units = << >> => code = LongCode
    /\ units' = Append(units, u)
    /\ codes' = Append(codes, [at |-> Len(data), size |-> Len(code)])
    /\ data' = data \o code \o u
    /\ UNCHANGED <<stage, start, pos, out>>

\* The packet is complete.
ReceivePacket ==
    /\ stage = "writing" /\ units # << >>
    /\ stage' = "scanning"
    /\ UNCHANGED <<inputVars, start, pos, out>>

-----------------------------------------------------------------------------
(* The scan.                                                               *)

\* i < last
MayScan == stage = "scanning" /\ pos + 4 < Len(data)

\* The length of the start code at this position, or 0.
CodeLength ==
    IF Starts(pos, ShortCode) THEN 3 ELSE IF Starts(pos, LongCode) THEN 4 ELSE 0

\* Mutant: the scan skips four octets whenever the third is no zero.
SkipFour == IF At(pos + 2) # 0 THEN 4 ELSE 1

\* The distance to the next position when there is no start code here.
Skip ==
    CASE At(pos + 2) = 1 -> 3
      [] At(pos + 2) # 1 /\ At(pos + 3) # 0 -> 4
      [] At(pos + 3) = 0 /\ At(pos + 2) \notin {0, 1} -> 3
      [] At(pos + 3) = 0 /\ At(pos + 2) = 0 /\ At(pos + 1) # 0 -> 2
      [] OTHER -> 1

\* No start code here.
GoOn ==
    /\ MayScan /\ CodeLength = 0
    /\ pos' = pos + Skip
    /\ UNCHANGED <<inputVars, stage, start, out>>

\* Mutant: a unit ends one octet before the next start code.
EndTooEarly == pos - 1

\* nal_end
End == pos

\* A start code. What precedes the first one is dropped; every other ends a
\* unit. The next scan begins behind it.
FindCode ==
    /\ MayScan /\ CodeLength # 0
    /\ out' = IF start = 0 THEN out
              ELSE Append(out, [from |-> start, length |-> End - start])
    /\ start' = pos + CodeLength
    /\ pos' = start'
    /\ UNCHANGED <<inputVars, stage>>

\* No start code is left: the last unit ends with the input.
Finish ==
    /\ stage = "scanning" /\ ~MayScan
    /\ stage' = "done"
    /\ out' = IF start = 0 THEN out
              ELSE Append(out, [from |-> start, length |-> Len(data) - start])
    /\ UNCHANGED <<inputVars, start, pos>>

SplitNext ==
    \/ \E u \in Units, code \in {ShortCode, LongCode} : WriteUnit(u, code)
    \/ ReceivePacket
    \/ GoOn \/ FindCode \/ Finish

SplitSpec == SplitInit /\ [][SplitNext]_splitVars

-----------------------------------------------------------------------------
(* Properties.                                                             *)

PieceEnd(j) == out[j].from + out[j].length

\* A start code that the scan passes over is a short one, and then the octet
\* before it is no zero; or the input ends one octet behind it.
PassedOver(i) ==
    i + 4 < Len(data) =>
        /\ ~Starts(i, LongCode)
        /\ Starts(i, ShortCode) => At(i - 1) # 0

\* A stream of units is cut only between units, and at every code of four
\* octets, wherever the scan happens to look. So a stream that has no other
\* codes is split into exactly its units; a unit behind a code of three octets
\* may stay glued to the one before it, with the code. In any other input,
\* too, no code of four octets remains in a piece.
UnitsAreRecovered ==
    /\ stage = "done" =>
         \A k \in 1 .. Len(units) :
           codes[k].size = 4 => \E j \in 1 .. Len(out) : out[j].from = Begin(k)
    /\ units # << >> =>
         \A j \in 1 .. Len(out) : \E k, m \in 1 .. Len(units) :
           /\ k <= m /\ out[j].from = Begin(k) /\ PieceEnd(j) = UnitEnd(m)
           /\ \A n \in k + 1 .. m : codes[n].size = 3
    /\ \A j \in 1 .. Len(out) : \A i \in out[j].from .. PieceEnd(j) - 4 : PassedOver(i)

\* Whatever the input, nothing behind the first start code is lost: a start
\* code lies between two units and the last unit ends with the input.
NothingLost ==
    \A k \in 1 .. Len(out) :
        IF k = Len(out)
          THEN stage = "done" => PieceEnd(k) = Len(data)
          ELSE \E code \in {ShortCode, LongCode} :
                 Starts(PieceEnd(k), code) /\ out[k + 1].from = PieceEnd(k) + Len(code)

=============================================================================
