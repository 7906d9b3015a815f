------------------------------ MODULE Payload -------------------------------
(***************************************************************************)
(* The parameters of a command on the wire: setup_packet of the client     *)
(* (client/netmemoryaccess_client.py) writes a tag and a value for each,   *)
(* payloadProcess on the console (mod/source/commands.cpp) reads them      *)
(* back, one per round of its loop.                                        *)
(*                                                                         *)
(* Values are kept as they are stored: a 32-bit number as two halves, a    *)
(* double as four, a string or a block as its bytes.  An argument written  *)
(* on one side and read on the other crosses from a little-endian machine  *)
(* to a big-endian one.                                                    *)
(***************************************************************************)
EXTENDS Integers, Sequences, SequencesExt

CONSTANTS Args,        \* the parameters a user types
          SLOTS,       \* 16, what each array of Params has room for
          MaxArgs      \* bound: the number of parameters typed

Byte == 0 .. 255
Half == 0 .. 65535
Tag == [i |-> 105, f |-> 102, d |-> 100, s |-> 115, b |-> 98, p |-> 112]
Tags == {"i", "f", "d", "s", "b", "p"}

\* struct.pack takes no number that is wider than its field, a length among them.
ArgumentAssumption == \A arg \in Args :
    \/ arg \in [tag : {"i", "f", "p"}, value : [1 .. 2 -> Half]]
    \/ arg \in [tag : {"d"}, value : [1 .. 4 -> Half]]
    \/ arg \in [tag : {"s", "b"}, value : Seq(Byte)] /\ Len(arg.value) \in Half
ASSUME PayloadAssumption == ArgumentAssumption /\ SLOTS \in Nat /\ MaxArgs \in Nat

\* struct.pack(">H")
PackH(h) == <<h \div 256, h % 256>>
PackHalves(hs) == FlattenSeq([k \in 1 .. Len(hs) |-> PackH(hs[k])])

Encoded(arg) == <<Tag[arg.tag]>> \o
    (IF arg.tag \in {"s", "b"} THEN PackH(Len(arg.value)) \o arg.value ELSE PackHalves(arg.value))

setup_packet(args) == FlattenSeq([k \in 1 .. Len(args) |-> Encoded(args[k])])

VARIABLES
  typed,      \* the parameters the user typed
  payload,    \* the bytes that reach the console
  at,         \* p: how many bytes were read
  params,     \* the values in the array of each type, in order
  valid,      \* params.valid
  overrun     \* a value was written behind the array of its type

payloadVars == <<typed, payload, at, params, valid, overrun>>

\* The types that Params has an array for.
Kinds == Tags \ {"b"}
NoParams == [t \in Kinds |-> <<>>]

\* A packet of another program may end early, or go on with what is no parameter.
Untagged == 0
PayloadInit ==
    /\ typed \in SeqOf(Args, MaxArgs)
    /\ \/ \E n \in 0 .. Len(setup_packet(typed)) : payload = SubSeq(setup_packet(typed), 1, n)
       \/ payload = Append(setup_packet(typed), Untagged)
    /\ at = 0 /\ valid = TRUE
    /\ params = NoParams /\ overrun = FALSE

\* (p[0] << 8) | p[1], for each pair of the n bytes from p on.
Halves(p, n) == [k \in 1 .. n \div 2 |-> 256 * payload[p + 2 * k - 1] + payload[p + 2 * k]]

\* MEM1 or MEM2, by the upper half of the address.
isValidGamePtr(halves) == halves[1] \in 32768 .. 33151 \/ halves[1] \in 36864 .. 37887

Takes(n) == at' = at + n

\* No array is looked at for room: a value more than it has slots lands in the next member
\* of the struct, and the model ends there.
Stores(tag, value) ==
    /\ IF Len(params[tag]) < SLOTS
       THEN params' = [params EXCEPT ![tag] = Append(@, value)] /\ UNCHANGED overrun
       ELSE overrun' = TRUE /\ UNCHANGED params
    /\ UNCHANGED valid
Refuses == valid' = FALSE /\ UNCHANGED <<at, params, overrun>>
Fits(n) == at + n <= Len(payload)

Number(tag, n) ==
    /\ payload[at + 1] = Tag[tag]
    /\ IF Fits(1 + n) THEN Takes(1 + n) /\ Stores(tag, Halves(at + 1, n)) ELSE Refuses

Pointer ==
    /\ payload[at + 1] = Tag["p"]
    /\ IF Fits(5) /\ isValidGamePtr(Halves(at + 1, 4))
       THEN Takes(5) /\ Stores("p", Halves(at + 1, 4)) ELSE Refuses

\* Mutant: the length is read the other way round.
LengthLittleEndian == payload[at + 2] + 256 * payload[at + 3]

Length == Halves(at + 1, 2)[1]

String ==
    /\ payload[at + 1] = Tag["s"]
    /\ IF Fits(3) /\ Fits(3 + Length)
       THEN Takes(3 + Length) /\ Stores("s", SubSeq(payload, at + 4, at + 3 + Length)) ELSE Refuses

\* Mutant: the end of the block is not checked.
BlockUnchecked ==
    /\ payload[at + 1] = Tag["b"]
    /\ IF Fits(3) THEN Takes(3 + Length) /\ UNCHANGED <<params, valid, overrun>> ELSE Refuses

\* The contents are not kept.
Block ==
    /\ payload[at + 1] = Tag["b"]
    /\ IF Fits(3) /\ Fits(3 + Length)
       THEN Takes(3 + Length) /\ UNCHANGED <<params, valid, overrun>> ELSE Refuses

UnknownTag == payload[at + 1] \notin {Tag[t] : t \in Tags} /\ Refuses

payloadProcess ==
    /\ valid /\ at < Len(payload) /\ ~overrun
    /\ \/ Number("i", 4) \/ Number("f", 4) \/ Number("d", 8)
       \/ Pointer \/ String \/ Block \/ UnknownTag
    /\ UNCHANGED <<typed, payload>>

PayloadSpec == PayloadInit /\ [][payloadProcess]_payloadVars
-----------------------------------------------------------------------------
(* Properties.                                                             *)

Finished == ~valid \/ at = Len(payload)
SentOf(tag, n) == {k \in 1 .. n : typed[k].tag = tag}
Acceptable(arg) == arg.tag = "p" => isValidGamePtr(arg.value)

\* The values of a type the first n parameters have, in order.
HandedOver(tag, n) ==
    /\ Len(params[tag]) = Cardinality(SentOf(tag, n))
    /\ \A k \in SentOf(tag, n) : params[tag][Cardinality(SentOf(tag, k))] = typed[k].value

\* The parser never reads past the end of the payload, wherever it was cut.
PayloadTypeOK == at \in 0 .. Len(payload) /\ valid \in BOOLEAN

\* What the console hands to a command is what the user typed, value by value and in
\* order, up to some parameter: all of it when the packet is whole and has only pointers
\* into the game's memory.  Of a packet that was cut, the parameters before the cut, and
\* none that was never typed; it is not valid unless the cut is between two parameters.
\* All this for packets with no more parameters of a type than its array has slots, and
\* only a packet with more of them is written past the end of an array.
ParamsAreTyped ==
    /\ overrun => \E t \in Kinds : Cardinality(SentOf(t, Len(typed))) > SLOTS
    /\ ~overrun => \E n \in 0 .. Len(typed) : \A t \in Kinds : HandedOver(t, n)
    /\ ~overrun /\ Finished =>
         (valid <=> \E n \in 0 .. Len(typed) :
                      /\ payload = setup_packet(SubSeq(typed, 1, n))
                      /\ \A k \in 1 .. n : Acceptable(typed[k])
                      /\ \A t \in Kinds : Len(params[t]) = Cardinality(SentOf(t, n)))
=============================================================================
