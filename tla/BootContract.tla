---------------------------- MODULE BootContract ----------------------------
(***************************************************************************)
(* The byte contract APP, Loader and host share (shared/boot_contract.c),  *)
(* with flash counted in double words, the unit the STM32G4 programs.  A   *)
(* double word holds a value of Data (Blank, all ones, is one of them) or  *)
(* is Torn: a cut erase or program left neither blank nor any wanted data. *)
(*                                                                         *)
(* An image descriptor (size, crc, version) is a member of Images.  The    *)
(* CRC-32 stands for the contents it was computed from: Content[i] is what *)
(* a matching CRC means, so collisions of the CRC are outside the model.   *)
(***************************************************************************)
EXTENDS Integers, Sequences

CONSTANTS
    Data,       \* values a programmed double word can hold
    Blank,      \* the erased double word, a member of Data
    Torn,       \* an interrupted double word
    Capacity,   \* double words of the APP area (BOOT_APP_CAPACITY / 8)
    LastPage,   \* APP pages are 0 .. LastPage (48 of them in the product)
    PageOf,     \* the page of each APP double word
    Images,     \* image descriptors a client may offer
    NoImage,
    Size,       \* Size[i]: double words of image i; may be out of range
    Content,    \* Content[i]: the double words the CRC of i stands for
    Reset,      \* Reset[v]: the double word the vectors v jump to
    Commit      \* the commit mark "BCOMMIT1"

Dwords == 0 .. Capacity - 1
Cells  == Data \cup {Torn}

ASSUME CapacityAssumption == Capacity \in Nat \ {0}
ASSUME PageAssumption ==
    /\ LastPage \in Nat
    /\ PageOf \in [Dwords -> 0 .. LastPage]
ASSUME CellAssumption ==
    /\ Blank \in Data
    /\ Torn \notin Data
    /\ Commit \notin {Blank, Torn}
ASSUME ImageAssumption ==
    /\ NoImage \notin Images
    /\ Blank \notin Images
    /\ Torn \notin Images
    /\ Size \in [Images -> Nat]
    /\ DOMAIN Content = Images
    /\ \A i \in Images : Content[i] \in [0 .. Size[i] - 1 -> Data]

LegalSize(n) == n \in 1 .. Capacity

\* Stack and Thumb entry plausible (v is in the domain of Reset), entry inside.
VectorsValid(a, n) ==
    /\ LegalSize(n)
    /\ a[0] \in DOMAIN Reset
    /\ Reset[a[0]] < n

CrcMatches(a, i) == \A d \in 0 .. Size[i] - 1 : a[d] = Content[i][d]

ImageValid(a, i) == VectorsValid(a, Size[i]) /\ CrcMatches(a, i)

-----------------------------------------------------------------------------
(* The persistent record: 40 bytes of body, then the 8-byte commit mark,   *)
(* written last.  Torn stands for any bytes that do not decode.            *)

Records == [body : Images \cup {Blank, Torn}, mark : {Blank, Torn, Commit}]

BlankRecord == [body |-> Blank, mark |-> Blank]

RecordEncode(i) == [body |-> i, mark |-> Commit]

RecordDecodes(r) ==
    /\ r.mark = Commit
    /\ r.body \in Images
    /\ LegalSize(Size[r.body])

\* LoaderCore_BootValid: the whole check made before every jump into the APP.
BootValid(a, r) == RecordDecodes(r) /\ ImageValid(a, r.body)
=============================================================================
