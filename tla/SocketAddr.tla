----------------------------- MODULE SocketAddr -----------------------------
(***************************************************************************)
(* The container for one IP address (SocketAddr.h, SocketAddr.cpp): four   *)
(* words in IPv6 form, an IPv4 address being one in ::ffff:0:0/96.  Texts  *)
(* are what inet_pton and inet_ntop of the stack tell apart: the family    *)
(* they are written in and the words they spell.                           *)
(***************************************************************************)
EXTENDS Integers

CONSTANTS
  Name,  \* SocketAddr objects
  Word,  \* values of a 32-bit word, 0 among them
  FFFF,  \* the word 0x0000ffff of the IPv4-mapped prefix
  JUNK   \* a text that is no address

Family == {"UNINIT", "INET4", "INET6"}
Address == [0..3 -> Word]
Text == [af : {"INET4"}, words : [0..0 -> Word]] \cup [af : {"INET6"}, words : Address]

ASSUME AddrAssumption == {0, FFFF} \subseteq Word /\ JUNK \notin Text

VARIABLES
  addr,  \* [Name -> Address]: _addr.ipv6be, uninitialised to begin with
  buf,   \* the caller's text buffer
  rc,    \* what the last call returned
  set,   \* history: the text each address was set from, if it was set from one
  maps   \* whether inet_pton of the stack puts an IPv4 address in the mapped range

addrVars == <<addr, buf, rc, set, maps>>

AddrTypeOK ==
  /\ addr \in [Name -> Address]
  /\ buf \in Text \cup {JUNK}
  /\ rc \in {"0", "-1", "NONE", "BAD_ADDRESS", "BAD_ARGUMENT", "UNKNOWN"}
  /\ set \in [Name -> Text \cup {JUNK}]
  /\ maps \in BOOLEAN

\* There is no constructor: _addr starts as whatever the memory held.
AddrInit ==
  /\ addr \in [Name -> Address]
  /\ buf = JUNK
  /\ rc = "0"
  /\ set = [x \in Name |-> JUNK]
  /\ maps \in BOOLEAN

-----------------------------------------------------------------------------
\* inet_pton: -1 for a family it does not know, 0 for a text of another family.
Pton(af, text) ==
  CASE af = "UNINIT"                  -> -1
    [] af # "UNINIT" /\ text = JUNK   -> 0
    [] af # "UNINIT" /\ text # JUNK   -> IF text.af = af THEN 1 ELSE 0

(* What it then makes of the address a that it is given.  An IPv4 address  *)
(* goes into the mapped range, where fmtIPv4 expects it, or, as the usual  *)
(* inet_pton has it, is the one word stored at the start of a.             *)
Parsed(a, text) ==
  IF text.af = "INET6" THEN text.words
  ELSE IF maps THEN [w \in 0..3 |-> IF w = 3 THEN text.words[0] ELSE IF w = 2 THEN FFFF ELSE 0]
  ELSE [a EXCEPT ![0] = text.words[0]]

\* is_v4
IsV4(a) == a[0] = 0 /\ a[1] = 0 /\ a[2] = FFFF

\* fmtIPv4 and fmtIPv6 of an address; JUNK if there is no such text.
Printed4_FirstWord(a) ==
  IF IsV4(a) THEN [af |-> "INET4", words |-> [w \in 0..0 |-> a[0]]] ELSE JUNK
Printed4(a) ==
  IF IsV4(a) THEN [af |-> "INET4", words |-> [w \in 0..0 |-> a[3]]] ELSE JUNK
Printed6(a) == [af |-> "INET6", words |-> a]

-----------------------------------------------------------------------------
(* setAddr from the stack's struct, which getAddr also lets the stack fill *)
(* in place, from another SocketAddr, and from a text.                     *)
SetStruct(x, a) ==
  /\ addr' = [addr EXCEPT ![x] = a]
  /\ set' = [set EXCEPT ![x] = JUNK]
  /\ UNCHANGED <<buf, rc>>

\* setAddr that copies the wrong way round.
SetCopy_Backwards(x, y) ==
  /\ addr' = [addr EXCEPT ![y] = addr[x]]
  /\ set' = [set EXCEPT ![x] = set[y]]
  /\ UNCHANGED <<buf, rc>>

SetCopy(x, y) ==
  /\ addr' = [addr EXCEPT ![x] = addr[y]]
  /\ set' = [set EXCEPT ![x] = set[y]]
  /\ UNCHANGED <<buf, rc>>

\* The answer of inet_pton is translated; -2 stands for one that it should not give.
SetText(x, af, text) ==
  \E code \in {Pton(af, text), -2} :
    /\ rc' = CASE code = 1  -> "NONE"
               [] code = 0  -> "BAD_ADDRESS"
               [] code = -1 -> "BAD_ARGUMENT"
               [] code = -2 -> "UNKNOWN"
    /\ IF code = 1
       THEN /\ addr' = [addr EXCEPT ![x] = Parsed(@, text)]
            /\ set' = [set EXCEPT ![x] = text]
       ELSE UNCHANGED <<addr, set>>
    /\ UNCHANGED buf

(* fmtIPv4, fmtIPv6: -1 without a buffer, with one that is too short or,   *)
(* for fmtIPv4, if the address is not an IPv4 address.                     *)
Format(text, room) ==
  /\ IF text # JUNK /\ room THEN rc' = "0" /\ buf' = text
                            ELSE rc' = "-1" /\ UNCHANGED buf
  /\ UNCHANGED <<addr, set>>

FmtIPv4(x, room) == Format(Printed4(addr[x]), room)
FmtIPv6(x, room) == Format(Printed6(addr[x]), room)

AddrNext ==
  /\ UNCHANGED maps
  /\ \E x \in Name :
       \/ \E a \in Address : SetStruct(x, a)
       \/ \E y \in Name : SetCopy(x, y)
       \/ \E af \in Family, text \in {buf} \cup Text : SetText(x, af, text)
       \/ \E room \in BOOLEAN : FmtIPv4(x, room) \/ FmtIPv6(x, room)

AddrSpec == AddrInit /\ [][AddrNext]_addrVars

-----------------------------------------------------------------------------
\* The families for which setAddr and the fmt functions agree on where an address is.
Kept(af) == af = "INET6" \/ maps

(* setAddr, fmtIPv4, fmtIPv6: an address set from a text, or copied from   *)
(* one that was, prints as that text in the family it was written in; for  *)
(* IPv4 only on a stack whose inet_pton maps.                              *)
PrintsAsSet ==
  \A x \in Name : set[x] # JUNK /\ Kept(set[x].af) =>
    set[x] = IF set[x].af = "INET4" THEN Printed4(addr[x]) ELSE Printed6(addr[x])

(* fmtIPv4, fmtIPv6, setAddr: whatever address an object holds, the text   *)
(* printed from it is accepted by setAddr and gives the same address back, *)
(* whichever object it is read into; for IPv4 only where inet_pton maps.   *)
ReadsBack ==
  \A x, y \in Name : \A text \in {Printed4(addr[x]), Printed6(addr[x])} :
    text # JUNK /\ Kept(text.af) =>
      Pton(text.af, text) = 1 /\ Parsed(addr[y], text) = addr[x]
=============================================================================
